--------------------------- MODULE SyncTCPClient ----------------------------
(***************************************************************************)
(* The synchronous clients 03-01-01-sync_tcp_client.cpp and, with TLS,     *)
(* 05-03-01-ssl_sync_tcp_client.cpp.  Each call of the library is a step.  *)
(* A call that throws ends main(), and with the process its end of the     *)
(* connection.                                                             *)
(***************************************************************************)
EXTENDS SyncConnection

VARIABLES
  client   \* the next call of every client's main(); "done", or where it ended:
           \*   "refused" before it was connected, "failed" afterwards

Ended == {"done", "refused", "failed"}

ClientTypeOK ==
  client \in [Clients -> {"connect", "handshake", "write", "read", "close"} \cup Ended]

ClientInit == client = [c \in Clients |-> "connect"]

\* The call returned and next is the following one, or it threw.
Returned(c, result, next) ==
  IF result = "ok"
    THEN client' = [client EXCEPT ![c] = next] /\ gone' = gone
    ELSE client' = [client EXCEPT ![c] = "failed"] /\ gone' = Closed({c}, "client")

\* The constructor throws if the library does not speak sslv3_client, connect if
\* nobody listens.
Connect(c, next) ==
  /\ client[c] = "connect"
  /\ \/ /\ listening
        /\ link' = [link EXCEPT ![c] = "queued"]
        /\ client' = [client EXCEPT ![c] = next]
     \/ /\ ~listening \/ ~protocol
        /\ client' = [client EXCEPT ![c] = "refused"]
        /\ UNCHANGED link
  /\ UNCHANGED <<kind, protocol, listening, toServer, toClient, gone, broken>>

\* The first flight of handshake(client); it then waits for the server's last.
SendHello(c) ==
  /\ client[c] = "handshake" /\ "hello" \notin toServer[c] /\ c \notin broken
  /\ toServer' = Delivered(c, "hello", toServer)
  /\ UNCHANGED <<client, kind, protocol, listening, link, toClient, gone, broken>>

\* on_peer_verify accepts every certificate.
ClientHandshake(c) ==
  /\ client[c] = "handshake"
  /\ \E result \in ReadResults(c, "finished", toClient, "server") :
       Returned(c, result, "write")
  /\ UNCHANGED <<kind, protocol, listening, link, toServer, toClient, broken>>

SendRequest(c) ==
  /\ client[c] = "write"
  /\ \E result \in WriteResults(c, "server") :
       /\ Returned(c, result, "read")
       /\ toServer' = IF result = "ok" THEN Delivered(c, "request", toServer) ELSE toServer
  /\ UNCHANGED <<kind, protocol, listening, link, toClient, broken>>

ReceiveResponse(c) ==
  /\ client[c] = "read"
  /\ \E result \in ReadResults(c, "response", toClient, "server") :
       Returned(c, result, "close")
  /\ UNCHANGED <<kind, protocol, listening, link, toServer, toClient, broken>>

\* shutdown throws on a broken connection, although the response is there.
TCPClose(c) ==
  /\ client[c] = "close"
  /\ \/ client' = [client EXCEPT ![c] = "done"]
     \/ c \in broken /\ client' = [client EXCEPT ![c] = "failed"]
  /\ gone' = Closed({c}, "client")
  /\ UNCHANGED <<kind, protocol, listening, link, toServer, toClient, broken>>

\* Errors are ignored.  The TLS shutdown waits for the server's end.
SSLClose(c) ==
  /\ client[c] = "close"
  /\ "server" \in gone[c] \/ c \in broken
  /\ client' = [client EXCEPT ![c] = "done"]
  /\ gone' = Closed({c}, "client")
  /\ UNCHANGED <<kind, protocol, listening, link, toServer, toClient, broken>>

TCPClient(c) ==
  /\ kind # "ssl"
  /\ Connect(c, "write") \/ SendRequest(c) \/ ReceiveResponse(c) \/ TCPClose(c)

SSLClient(c) ==
  /\ kind = "ssl"
  /\ \/ Connect(c, "handshake") \/ SendHello(c) \/ ClientHandshake(c)
     \/ SendRequest(c) \/ ReceiveResponse(c) \/ SSLClose(c)
=============================================================================
