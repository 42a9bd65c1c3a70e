--------------------------- MODULE SyncTCPServer ----------------------------
(***************************************************************************)
(* The synchronous servers: 04-01-01-loop_sync_server.cpp, which serves    *)
(* one connection after the other, 05-04-01-ssl_loop_sync_server.cpp, the  *)
(* same with TLS, and 04-02-01-parallel_sync_tcp_server.cpp, which starts  *)
(* a detached thread per connection.  main() starts the accepting thread,  *)
(* waits, stops it, and ends.                                              *)
(***************************************************************************)
EXTENDS SyncConnection

VARIABLES
  process,  \* main(): "running", in Stop at "stopping" (m_stop is set),
            \*   "stopped" (~Server has run), "ended"; or "crashed"
  thread,   \* m_thread: at "start", the "test" of m_stop, in "accept",
            \*   "handling" a client, or "exited"
  service   \* the Service of a client: "none", its next call, or "finished"

serverVars == <<process, thread, service>>

Calls == {"handshake", "read", "write"}

ServerTypeOK ==
  /\ process \in {"running", "stopping", "stopped", "ended", "crashed"}
  /\ thread \in {"start", "test", "accept", "handling", "exited"}
  /\ service \in [Clients -> Calls \cup {"none", "finished"}]
  /\ thread = "handling" => kind # "parallel" /\ \E c \in Clients : service[c] \in Calls

ServerInit ==
  /\ process = "running" /\ thread = "start"
  /\ service = [c \in Clients |-> "none"]

Alive == process \notin {"ended", "crashed"}

Queued == {c \in Clients : link[c] = "queued"}
Connected == {c \in Clients : link[c] # "none"}

\* The process is over, and with it its sockets and detached threads.
Over(how) ==
  /\ process' = how
  /\ listening' = FALSE
  /\ gone' = Closed(Connected, "server")
  /\ UNCHANGED <<kind, protocol, link, toServer, toClient, broken, thread, service>>

-----------------------------------------------------------------------------
(* Acceptor and Run.  Nothing catches what leaves the thread's function.   *)

Listens ==
  /\ thread = "start"
  /\ listening' = TRUE
  /\ thread' = "test"
  /\ UNCHANGED <<kind, protocol, link, toServer, toClient, gone, broken, process,
                 service>>

\* The constructor throws if the port is taken, and with TLS also if one of the
\* certificate, key and parameter files cannot be used.
LoopAcceptor == kind = "loop" /\ (Listens \/ (thread = "start" /\ Over("crashed")))
SSLAcceptor == kind = "ssl" /\ (Listens \/ (thread = "start" /\ Over("crashed")))
ParallelAcceptor ==
  kind = "parallel" /\ (Listens \/ (thread = "start" /\ Over("crashed")))

StopIgnored == FALSE              \* mutated form: m_stop is never read
StopSeen == process = "stopping"  \* m_stop.load()

Test ==
  /\ thread = "test" /\ ~StopSeen
  /\ thread' = "accept"
  /\ UNCHANGED <<networkVars, process, service>>

\* ~Acceptor: what is still in the backlog is reset.
LeaveRun ==
  /\ thread = "test" /\ StopSeen
  /\ thread' = "exited"
  /\ listening' = FALSE
  /\ gone' = Closed(Queued, "server")
  /\ UNCHANGED <<kind, protocol, link, toServer, toClient, broken, process, service>>

\* accept() throws, or std::thread does.
AcceptThrows == thread = "accept" /\ Over("crashed")

\* A Service for the connection starts with the call first.
Take(c, first) ==
  /\ thread = "accept" /\ link[c] = "queued"
  /\ link' = [link EXCEPT ![c] = "taken"]
  /\ service' = [service EXCEPT ![c] = first]
  /\ UNCHANGED <<kind, protocol, listening, toServer, toClient, gone, broken, process>>

LoopAccept(c) == kind = "loop" /\ Take(c, "read") /\ thread' = "handling"
SSLAccept(c) == kind = "ssl" /\ Take(c, "handshake") /\ thread' = "handling"

\* Mutated forms: the thread is joined; the socket dies with the accepting scope.
JoinedAccept(c) == kind = "parallel" /\ Take(c, "read") /\ thread' = "handling"
DanglingAccept(c) ==
  /\ kind = "parallel" /\ thread = "accept" /\ link[c] = "queued"
  /\ link' = [link EXCEPT ![c] = "taken"]
  /\ service' = [service EXCEPT ![c] = "read"]
  /\ gone' = Closed({c}, "server")
  /\ thread' = "test"
  /\ UNCHANGED <<kind, protocol, listening, toServer, toClient, broken, process>>

\* The handling thread is detached; this one goes on to the next connection.
ParallelAccept(c) == kind = "parallel" /\ Take(c, "read") /\ thread' = "test"

-----------------------------------------------------------------------------
(* Service::HandleClient                                                   *)

\* The accepting thread goes on when the handler it runs itself is through.
HandlerReturned == thread' = IF kind = "parallel" THEN thread ELSE "test"

\* The socket is destroyed, the Service with it.
Finish(c) ==
  /\ service' = [service EXCEPT ![c] = "finished"]
  /\ gone' = Closed({c}, "server")
  /\ HandlerReturned

\* A system_error is caught and printed; the client gets nothing.
Catch(c) == Finish(c) /\ UNCHANGED process

GoOn(c, next) ==
  /\ service' = [service EXCEPT ![c] = next]
  /\ UNCHANGED <<gone, process, thread>>

\* The server sends the last flight, after which the client's side returns too.
ServerHandshake(c) ==
  /\ service[c] = "handshake"
  /\ \/ /\ "hello" \in toServer[c] /\ protocol
        /\ toClient' = Delivered(c, "finished", toClient)
        /\ GoOn(c, "read")
     \/ /\ \/ "failed" \in ReadResults(c, "hello", toServer, "client")
           \/ "hello" \in toServer[c] /\ ~protocol
        /\ Catch(c)
        /\ UNCHANGED toClient
  /\ UNCHANGED <<kind, protocol, listening, link, toServer, broken>>

ReadRequest(c) ==
  /\ service[c] = "read"
  /\ \E result \in ReadResults(c, "request", toServer, "client") :
       IF result = "ok" THEN GoOn(c, "write") ELSE Catch(c)
  /\ UNCHANGED <<kind, protocol, listening, link, toServer, toClient, broken>>

SendResponse(c) ==
  /\ service[c] = "write"
  /\ \E result \in WriteResults(c, "client") :
       toClient' = IF result = "ok" THEN Delivered(c, "response", toClient)
                   ELSE toClient
  /\ Finish(c)
  /\ UNCHANGED <<kind, protocol, listening, link, toServer, broken, process>>

LoopHandleClient(c) == kind = "loop" /\ (ReadRequest(c) \/ SendResponse(c))

SSLHandleClient(c) ==
  kind = "ssl" /\ (ServerHandshake(c) \/ ReadRequest(c) \/ SendResponse(c))

\* On a detached thread, which deletes the Service in the end.
ParallelHandleClient(c) == kind = "parallel" /\ (ReadRequest(c) \/ SendResponse(c))

\* m_ios is destroyed while a detached thread still uses a socket of it.
UseAfterDestruction(c) ==
  /\ process = "stopped" /\ service[c] \in Calls
  /\ Over("crashed")

-----------------------------------------------------------------------------
(* Server::Stop and main                                                   *)

Stop ==
  /\ process = "running"
  /\ process' = "stopping"
  /\ UNCHANGED <<networkVars, thread, service>>

NotJoined == TRUE                 \* mutated form: the thread is not joined
Joined == thread = "exited"

StopReturns ==
  /\ process = "stopping" /\ Joined
  /\ process' = "stopped"
  /\ UNCHANGED <<networkVars, thread, service>>

MainReturns == process = "stopped" /\ Over("ended")

-----------------------------------------------------------------------------

ThreadStep ==
  \/ LoopAcceptor \/ SSLAcceptor \/ ParallelAcceptor
  \/ Test \/ LeaveRun
  \/ \E c \in Clients : LoopAccept(c) \/ SSLAccept(c) \/ ParallelAccept(c)

HandleClient(c) ==
  LoopHandleClient(c) \/ SSLHandleClient(c) \/ ParallelHandleClient(c)
=============================================================================
