--------------------------- MODULE SyncUDPClient ----------------------------
(***************************************************************************)
(* The synchronous UDP client of 03-02-01-sync_udp_client.cpp, whose       *)
(* main() asks one server after the other through the same client, i.e.    *)
(* the same socket.                                                        *)
(***************************************************************************)
EXTENDS Naturals

CONSTANTS
  Servers   \* how many servers main() asks, one after the other

VARIABLES
  asked,     \* the server of the current call of emulateLongComputationOp
  at,        \* its next call: "send_to", "receive_from" or "shutdown"; "done"
             \*   with main(), "threw" if a call did
  shut,      \* the socket was shut down
  datagram   \* the datagram of a server: "none", "request", "response" (which has
             \*   arrived at the client) or "lost"

vars == <<asked, at, shut, datagram>>

Init ==
  /\ asked = 1 /\ at = "send_to" /\ shut = FALSE
  /\ datagram = [s \in 1 .. Servers |-> "none"]

Lose(s) ==
  /\ datagram[s] = "request"
  /\ datagram' = [datagram EXCEPT ![s] = "lost"]
  /\ UNCHANGED <<asked, at, shut>>

Answer(s) ==
  /\ datagram[s] = "request"
  /\ datagram' = [datagram EXCEPT ![s] = "response"]
  /\ UNCHANGED <<asked, at, shut>>

\* Nothing is sent through a socket that was shut down: send_to throws.
SendRequest ==
  /\ at = "send_to"
  /\ IF shut THEN at' = "threw" /\ UNCHANGED datagram
     ELSE /\ at' = "receive_from"
          /\ datagram' = [datagram EXCEPT ![asked] = "request"]
  /\ UNCHANGED <<asked, shut>>

Receive ==
  /\ at = "receive_from" /\ datagram[asked] = "response"
  /\ at' = "shutdown"
  /\ UNCHANGED <<asked, shut, datagram>>

\* The socket is not connected: on some systems its shutdown throws.
ShutDown ==
  /\ at = "shutdown"
  /\ shut' = TRUE
  /\ \/ at' = "threw" /\ UNCHANGED asked
     \/ asked < Servers /\ asked' = asked + 1 /\ at' = "send_to"
     \/ asked = Servers /\ at' = "done" /\ UNCHANGED asked
  /\ UNCHANGED datagram

ClientStep == SendRequest \/ Receive \/ ShutDown

Next == ClientStep \/ \E s \in 1 .. Servers : Answer(s) \/ Lose(s)

Spec == Init /\ [][Next]_vars

\* main() goes on, and the servers answer what they get.
LiveSpec ==
  Spec /\ WF_vars(ClientStep) /\ \A s \in 1 .. Servers : WF_vars(Answer(s))

\* If no datagram is lost, main() gets the answers of all servers.
EveryServerAnswers ==
  [](\A s \in 1 .. Servers : datagram[s] # "lost") => <>(at = "done")
=============================================================================
