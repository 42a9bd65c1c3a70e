--------------------------- MODULE SyncConnection ---------------------------
(***************************************************************************)
(* The TCP connections between the synchronous clients and servers of this *)
(* repository, as their blocking calls see them.  All of it is the         *)
(* operating system's and the library's; the programs are in SyncTCPClient *)
(* and SyncTCPServer.                                                      *)
(***************************************************************************)
EXTENDS Naturals

CONSTANTS
  Clients   \* client programs; each is one run of main()

VARIABLES
  kind,       \* the server: "loop", "parallel" or "ssl"
  protocol,   \* TLS peers have a protocol version in common (sslv3_client
              \*   against what the server's library still speaks)
  listening,  \* the acceptor exists
  link,       \* a connection: "none", "queued" (in the backlog) or "taken"
  toServer,   \* what arrived at the server: of "hello" and "request"
  toClient,   \* what arrived at the client: of "finished" and "response"
  gone,       \* the ends of a connection that were closed
  broken      \* connections that the network has broken

networkVars == <<kind, protocol, listening, link, toServer, toClient, gone, broken>>

NetworkTypeOK ==
  /\ kind \in {"loop", "parallel", "ssl"}
  /\ protocol \in BOOLEAN /\ listening \in BOOLEAN
  /\ link \in [Clients -> {"none", "queued", "taken"}]
  /\ toServer \in [Clients -> SUBSET {"hello", "request"}]
  /\ toClient \in [Clients -> SUBSET {"finished", "response"}]
  /\ gone \in [Clients -> SUBSET {"client", "server"}]
  /\ broken \subseteq Clients

NetworkInit ==
  /\ kind \in {"loop", "parallel", "ssl"}
  /\ protocol \in IF kind = "ssl" THEN BOOLEAN ELSE {TRUE}
  /\ listening = FALSE
  /\ link = [c \in Clients |-> "none"]
  /\ toServer = [c \in Clients |-> {}]
  /\ toClient = [c \in Clients |-> {}]
  /\ gone = [c \in Clients |-> {}]
  /\ broken = {}

\* How a blocking read may end: with what it waits for, or with an error if that
\* was lost or will not come.  As long as it can do neither it blocks.
ReadResults(c, what, inbox, peer) ==
  {result \in {"ok", "failed"} :
     IF result = "ok" THEN what \in inbox[c]
     ELSE c \in broken \/ (what \notin inbox[c] /\ peer \in gone[c])}

\* A write into a closed or broken connection may not notice it.
WriteResults(c, peer) ==
  IF c \in broken \/ peer \in gone[c] THEN {"ok", "failed"} ELSE {"ok"}

Delivered(c, what, inbox) ==
  IF c \in broken THEN inbox ELSE [inbox EXCEPT ![c] = @ \cup {what}]

Closed(cs, end) ==
  [c \in Clients |-> IF c \in cs THEN gone[c] \cup {end} ELSE gone[c]]

\* The network breaks a connection that is not closed at both ends.
Break(c) ==
  /\ link[c] # "none" /\ gone[c] # {"client", "server"} /\ c \notin broken
  /\ broken' = broken \cup {c}
  /\ UNCHANGED <<kind, protocol, listening, link, toServer, toClient, gone>>
=============================================================================
