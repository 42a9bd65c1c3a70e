---------------------------- MODULE SyncExchange ----------------------------
(***************************************************************************)
(* Any number of synchronous clients against one of the three synchronous  *)
(* servers.                                                                *)
(***************************************************************************)
EXTENDS SyncTCPClient, SyncTCPServer

vars == <<networkVars, client, serverVars>>

TypeOK == NetworkTypeOK /\ ClientTypeOK /\ ServerTypeOK

Init == NetworkInit /\ ClientInit /\ ServerInit

ClientStep(c) == (TCPClient(c) \/ SSLClient(c)) /\ UNCHANGED serverVars

\* Clients may start at any time, or stay away.
ServerStep == Alive /\ (ThreadStep \/ StopReturns \/ MainReturns) /\ UNCHANGED client
HandlerStep(c) == Alive /\ HandleClient(c) /\ UNCHANGED client

Next ==
  \/ ServerStep
  \/ Stop /\ UNCHANGED client
  \/ Alive /\ AcceptThrows /\ UNCHANGED client
  \/ \E c \in Clients :
       \/ ClientStep(c) \/ HandlerStep(c)
       \/ UseAfterDestruction(c) /\ UNCHANGED client
       \/ Break(c) /\ UNCHANGED <<client, serverVars>>

Spec == Init /\ [][Next]_vars

\* All threads of the server are scheduled, and nothing makes accept throw or a
\* client do anything.
LiveSpec == Spec /\ WF_vars(ServerStep) /\ \A c \in Clients : WF_vars(HandlerStep(c))

\* The client does its calls.
GoesOn(c) == WF_vars(ClientStep(c))

-----------------------------------------------------------------------------
(* Properties                                                              *)

\* A client that was connected fails only if the network broke its connection, the
\* two speak no common version of TLS, the server's process has ended, or it was
\* stopped with the connection still in the backlog: no client suffers from another
\* one that breaks off, Stop cuts nobody off who is being served, and no close or
\* shutdown overtakes a response.
FailureExplained ==
  \A c \in Clients :
    client[c] = "failed" =>
      \/ c \in broken \/ ~protocol \/ ~Alive
      \/ process # "running" /\ service[c] = "none"

\* If the clients go on, Stop returns or the process crashes, unless the thread
\* waits in accept and nobody connects: it takes one more connection at most.
StopTerminates ==
  (\A c \in Clients : GoesOn(c)) =>
    (process = "stopping" /\ (thread = "accept" => Queued # {})
       ~> process \notin {"running", "stopping"})

\* A client that goes on gets through main(), even if the server is stopped: with
\* the parallel server whatever the other clients do, with the others if all of
\* them go on.
ClientIsServed ==
  \A c \in Clients :
    GoesOn(c) /\ (kind = "parallel" \/ \A d \in Clients : GoesOn(d)) =>
      (link[c] = "queued" ~> client[c] \in Ended)

-----------------------------------------------------------------------------
(* The servers implement ConnectionServer.  For the parallel server the    *)
(* end is not the return of Stop(), which does not wait for the detached   *)
(* threads, but that of the process.                                       *)

Status(c) ==
  CASE service[c] = "none" -> "waiting"
    [] service[c] \in Calls -> "serving"
    [] OTHER -> IF "response" \in toClient[c] THEN "answered" ELSE "dropped"

Connections == INSTANCE ConnectionServer WITH
  status <- [c \in Clients |-> Status(c)],
  up <- Alive /\ (process # "stopped" \/ kind = "parallel")

ImplementsConnections == Connections!Spec
=============================================================================
