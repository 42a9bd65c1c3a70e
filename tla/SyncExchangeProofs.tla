------------------------- MODULE SyncExchangeProofs -------------------------
(***************************************************************************)
(* Proofs about SyncExchange, for every set of clients, each of the three  *)
(* servers, with and without a common version of TLS.  The parts of the    *)
(* inductive invariant:                                                    *)
(*                                                                         *)
(*   TypeOK    types, and that who handles a client is not at accept       *)
(*   Threads   what the server's thread has done when Stop returns, and    *)
(*             that it handles one client at a time                        *)
(*   Exchange  how the calls of a client, those of its Service and what    *)
(*             has arrived at either end go together                       *)
(***************************************************************************)
EXTENDS SyncExchange, TLAPS

Threads ==
  /\ thread = "exited" => process # "running"
  /\ process = "stopped" => thread = "exited"
  /\ kind # "parallel" =>
       /\ \A c \in Clients : service[c] \in Calls => thread = "handling"
       /\ \A c, d \in Clients : service[c] \in Calls /\ service[d] \in Calls => c = d

\* Why a client may be left without a response.
Excused(c) == c \in broken \/ ~protocol \/ ~Alive

\* Stop came before the connection was taken; nobody takes it any more.
Missed(c) == service[c] = "none" /\ link[c] = "queued" /\ thread = "exited"

ExchangeOf(c) ==
  /\ link[c] = "none" <=> client[c] \in {"connect", "refused"}
  /\ link[c] = "taken" <=> service[c] # "none"
  /\ "client" \in gone[c] => client[c] \in {"done", "failed"}
  /\ "request" \in toServer[c] => client[c] \in {"read", "close", "done", "failed"}
  /\ service[c] = "write" => "request" \in toServer[c]
  /\ "response" \in toClient[c] =>
       service[c] = "finished" /\ "request" \in toServer[c]
  /\ client[c] \in {"close", "done"} => "response" \in toClient[c]
  /\ "server" \in gone[c] => ~Alive \/ service[c] = "finished" \/ Missed(c)
  /\ service[c] = "finished" => Excused(c) \/ "response" \in toClient[c]
  /\ client[c] = "failed" => Excused(c) \/ Missed(c)

Exchange == \A c \in Clients : ExchangeOf(c)

-----------------------------------------------------------------------------

\* Types; the accepting thread handles a client only where it does that itself.
THEOREM TypeCorrect == Spec => []TypeOK
<1> USE DEF TypeOK, NetworkTypeOK, ClientTypeOK, ServerTypeOK, Ended, Calls
<1>1. Init => TypeOK
  BY DEF Init, NetworkInit, ClientInit, ServerInit
<1>2. TypeOK /\ [Next]_vars => TypeOK'
  <2> SUFFICES ASSUME TypeOK, [Next]_vars PROVE TypeOK'
    OBVIOUS
  <2>1. ASSUME NEW c \in Clients, NEW next \in {"write", "handshake"},
               Connect(c, next), UNCHANGED serverVars
        PROVE  TypeOK'
    BY <2>1 DEF Connect, serverVars
  <2>2. ASSUME NEW c \in Clients, SendHello(c), UNCHANGED serverVars
        PROVE  TypeOK'
    BY <2>2 DEF SendHello, Delivered, serverVars
  <2>3. ASSUME NEW c \in Clients, ClientHandshake(c), UNCHANGED serverVars
        PROVE  TypeOK'
    BY <2>3 DEF ClientHandshake, ReadResults, Returned, Closed, serverVars
  <2>4. ASSUME NEW c \in Clients, SendRequest(c), UNCHANGED serverVars
        PROVE  TypeOK'
    BY <2>4
       DEF SendRequest, WriteResults, Returned, Delivered, Closed, serverVars
  <2>5. ASSUME NEW c \in Clients, ReceiveResponse(c), UNCHANGED serverVars
        PROVE  TypeOK'
    BY <2>5 DEF ReceiveResponse, ReadResults, Returned, Closed, serverVars
  <2>6. ASSUME NEW c \in Clients, TCPClose(c), UNCHANGED serverVars
        PROVE  TypeOK'
    BY <2>6 DEF TCPClose, Closed, serverVars
  <2>7. ASSUME NEW c \in Clients, SSLClose(c), UNCHANGED serverVars
        PROVE  TypeOK'
    BY <2>7 DEF SSLClose, Closed, serverVars
  <2>8. ASSUME Alive, Listens, UNCHANGED client
        PROVE  TypeOK'
    BY <2>8 DEF Listens
  <2>9. ASSUME NEW how \in {"ended", "crashed"}, Alive, Over(how), UNCHANGED client
        PROVE  TypeOK'
    BY <2>9 DEF Over, Closed, Connected
  <2>10. ASSUME Alive, Test, UNCHANGED client
         PROVE  TypeOK'
    BY <2>10 DEF Test, StopSeen, networkVars
  <2>11. ASSUME Alive, LeaveRun, UNCHANGED client
         PROVE  TypeOK'
    BY <2>11 DEF LeaveRun, StopSeen, Closed, Queued
  <2>12. ASSUME NEW c \in Clients, NEW first \in {"read", "handshake"}, Alive,
                Take(c, first), UNCHANGED client,
                thread' = IF kind = "parallel" THEN "test" ELSE "handling"
         PROVE  TypeOK'
    BY <2>12 DEF Take
  <2>13. ASSUME NEW c \in Clients, Alive, ServerHandshake(c), UNCHANGED client
         PROVE  TypeOK'
    BY <2>13
       DEF ServerHandshake, ReadResults, Delivered, GoOn, Catch, Finish,
           HandlerReturned, Closed
  <2>14. ASSUME NEW c \in Clients, Alive, ReadRequest(c), UNCHANGED client
         PROVE  TypeOK'
    BY <2>14
       DEF ReadRequest, ReadResults, GoOn, Catch, Finish, HandlerReturned,
           Closed
  <2>15. ASSUME NEW c \in Clients, Alive, SendResponse(c), UNCHANGED client
         PROVE  TypeOK'
    BY <2>15
       DEF SendResponse, WriteResults, Delivered, Finish, HandlerReturned,
           Closed
  <2>16. ASSUME Stop, UNCHANGED client
         PROVE  TypeOK'
    BY <2>16 DEF Stop, networkVars
  <2>17. ASSUME Alive, StopReturns, UNCHANGED client
         PROVE  TypeOK'
    BY <2>17 DEF StopReturns, Joined, networkVars
  <2>18. ASSUME NEW c \in Clients, Break(c), UNCHANGED <<client, serverVars>>
         PROVE  TypeOK'
    BY <2>18 DEF Break, serverVars
  <2>19. CASE UNCHANGED vars
    BY <2>19 DEF vars, networkVars, serverVars
  <2>20. QED
    BY <2>1, <2>2, <2>3, <2>4, <2>5, <2>6, <2>7, <2>8, <2>9, <2>10, <2>11,
       <2>12, <2>13, <2>14, <2>15, <2>16, <2>17, <2>18, <2>19
       DEF Next, ClientStep, TCPClient, SSLClient, ServerStep, ThreadStep,
           LoopAcceptor, SSLAcceptor, ParallelAcceptor, LoopAccept, SSLAccept,
           ParallelAccept, MainReturns, AcceptThrows, UseAfterDestruction,
           HandlerStep, HandleClient, LoopHandleClient, SSLHandleClient,
           ParallelHandleClient, Alive
<1>3. QED
  BY <1>1, <1>2, PTL DEF Spec

\* When Stop returns the accepting thread is through; an iterative server has one
\* client at a time, and is at its handler while it has.
LEMMA ThreadsInvariant == Spec => []Threads
<1>1. Init => Threads
  BY DEF Init, NetworkInit, ServerInit, Threads, Calls
<1>2. TypeOK /\ Threads /\ [Next]_vars => Threads'
  <2> SUFFICES ASSUME TypeOK, Threads, [Next]_vars PROVE Threads'
    OBVIOUS
  <2> USE DEF TypeOK, NetworkTypeOK, ServerTypeOK, Calls, Threads, Alive
  <2>1. ASSUME NEW c \in Clients, NEW next \in {"write", "handshake"},
               Connect(c, next), UNCHANGED serverVars
        PROVE  Threads'
    BY <2>1 DEF Connect, serverVars
  <2>2. ASSUME NEW c \in Clients, SendHello(c), UNCHANGED serverVars
        PROVE  Threads'
    BY <2>2 DEF SendHello, Delivered, serverVars
  <2>3. ASSUME NEW c \in Clients, ClientHandshake(c), UNCHANGED serverVars
        PROVE  Threads'
    BY <2>3 DEF ClientHandshake, ReadResults, Returned, Closed, serverVars
  <2>4. ASSUME NEW c \in Clients, SendRequest(c), UNCHANGED serverVars
        PROVE  Threads'
    BY <2>4
       DEF SendRequest, WriteResults, Returned, Delivered, Closed, serverVars
  <2>5. ASSUME NEW c \in Clients, ReceiveResponse(c), UNCHANGED serverVars
        PROVE  Threads'
    BY <2>5 DEF ReceiveResponse, ReadResults, Returned, Closed, serverVars
  <2>6. ASSUME NEW c \in Clients, TCPClose(c), UNCHANGED serverVars
        PROVE  Threads'
    BY <2>6 DEF TCPClose, Closed, serverVars
  <2>7. ASSUME NEW c \in Clients, SSLClose(c), UNCHANGED serverVars
        PROVE  Threads'
    BY <2>7 DEF SSLClose, Closed, serverVars
  <2>8. ASSUME Alive, Listens, UNCHANGED client
        PROVE  Threads'
    BY <2>8 DEF Listens
  <2>9. ASSUME NEW how \in {"ended", "crashed"}, Alive, Over(how), UNCHANGED client
        PROVE  Threads'
    BY <2>9 DEF Over, Closed, Connected
  <2>10. ASSUME Alive, Test, UNCHANGED client
         PROVE  Threads'
    BY <2>10 DEF Test, StopSeen, networkVars
  <2>11. ASSUME Alive, LeaveRun, UNCHANGED client
         PROVE  Threads'
    BY <2>11 DEF LeaveRun, StopSeen, Closed, Queued
  <2>12. ASSUME NEW c \in Clients, NEW first \in {"read", "handshake"}, Alive,
                Take(c, first), UNCHANGED client,
                thread' = IF kind = "parallel" THEN "test" ELSE "handling"
         PROVE  Threads'
    BY <2>12 DEF Take
  <2>13. ASSUME NEW c \in Clients, Alive, ServerHandshake(c), UNCHANGED client
         PROVE  Threads'
    BY <2>13
       DEF ServerHandshake, ReadResults, Delivered, GoOn, Catch, Finish,
           HandlerReturned, Closed
  <2>14. ASSUME NEW c \in Clients, Alive, ReadRequest(c), UNCHANGED client
         PROVE  Threads'
    BY <2>14
       DEF ReadRequest, ReadResults, GoOn, Catch, Finish, HandlerReturned,
           Closed
  <2>15. ASSUME NEW c \in Clients, Alive, SendResponse(c), UNCHANGED client
         PROVE  Threads'
    BY <2>15
       DEF SendResponse, WriteResults, Delivered, Finish, HandlerReturned,
           Closed
  <2>16. ASSUME Stop, UNCHANGED client
         PROVE  Threads'
    BY <2>16 DEF Stop, networkVars
  <2>17. ASSUME Alive, StopReturns, UNCHANGED client
         PROVE  Threads'
    BY <2>17 DEF StopReturns, Joined, networkVars
  <2>18. ASSUME NEW c \in Clients, Break(c), UNCHANGED <<client, serverVars>>
         PROVE  Threads'
    BY <2>18 DEF Break, serverVars
  <2>19. CASE UNCHANGED vars
    BY <2>19 DEF vars, networkVars, serverVars
  <2>20. QED
    BY <2>1, <2>2, <2>3, <2>4, <2>5, <2>6, <2>7, <2>8, <2>9, <2>10, <2>11,
       <2>12, <2>13, <2>14, <2>15, <2>16, <2>17, <2>18, <2>19
       DEF Next, ClientStep, TCPClient, SSLClient, ServerStep, ThreadStep,
           LoopAcceptor, SSLAcceptor, ParallelAcceptor, LoopAccept, SSLAccept,
           ParallelAccept, MainReturns, AcceptThrows, UseAfterDestruction,
           HandlerStep, HandleClient, LoopHandleClient, SSLHandleClient,
           ParallelHandleClient, Alive
<1>3. QED
  BY TypeCorrect, <1>1, <1>2, PTL DEF Spec

\* What a client has done, what its Service has done and what has arrived tell of
\* one another: an end is closed only by who is through with it, and a Service is
\* through without a response only for a reason that the client may see as well.
LEMMA ExchangeInvariant == Spec => []Exchange
<1>1. Init => Exchange
  BY DEF Init, NetworkInit, ClientInit, ServerInit, Exchange, ExchangeOf, Missed
<1>2. TypeOK /\ Threads /\ Exchange /\ [Next]_vars => Exchange'
  <2> SUFFICES ASSUME TypeOK, Threads, Exchange, [Next]_vars,
                      NEW d \in Clients
               PROVE  ExchangeOf(d)'
    BY DEF Exchange
  <2>100. ExchangeOf(d)
    BY DEF Exchange
  <2> USE <2>100 DEF TypeOK, NetworkTypeOK, ServerTypeOK, ClientTypeOK, Calls, Ended,
             Threads, ExchangeOf, Missed, Excused, Alive
  <2>1. ASSUME NEW c \in Clients, NEW next \in {"write", "handshake"},
               Connect(c, next), UNCHANGED serverVars
        PROVE  ExchangeOf(d)'
    BY <2>1 DEF Connect, serverVars
  <2>2. ASSUME NEW c \in Clients, SendHello(c), UNCHANGED serverVars
        PROVE  ExchangeOf(d)'
    BY <2>2 DEF SendHello, Delivered, serverVars
  <2>3. ASSUME NEW c \in Clients, ClientHandshake(c), UNCHANGED serverVars
        PROVE  ExchangeOf(d)'
    BY <2>3 DEF ClientHandshake, ReadResults, Returned, Closed, serverVars
  <2>4. ASSUME NEW c \in Clients, SendRequest(c), UNCHANGED serverVars
        PROVE  ExchangeOf(d)'
    BY <2>4
       DEF SendRequest, WriteResults, Returned, Delivered, Closed, serverVars
  <2>5. ASSUME NEW c \in Clients, ReceiveResponse(c), UNCHANGED serverVars
        PROVE  ExchangeOf(d)'
    BY <2>5 DEF ReceiveResponse, ReadResults, Returned, Closed, serverVars
  <2>6. ASSUME NEW c \in Clients, TCPClose(c), UNCHANGED serverVars
        PROVE  ExchangeOf(d)'
    BY <2>6 DEF TCPClose, Closed, serverVars
  <2>7. ASSUME NEW c \in Clients, SSLClose(c), UNCHANGED serverVars
        PROVE  ExchangeOf(d)'
    BY <2>7 DEF SSLClose, Closed, serverVars
  <2>8. ASSUME Alive, Listens, UNCHANGED client
        PROVE  ExchangeOf(d)'
    BY <2>8 DEF Listens
  <2>9. ASSUME NEW how \in {"ended", "crashed"}, Alive, Over(how), UNCHANGED client
        PROVE  ExchangeOf(d)'
    BY <2>9 DEF Over, Closed, Connected
  <2>10. ASSUME Alive, Test, UNCHANGED client
         PROVE  ExchangeOf(d)'
    BY <2>10 DEF Test, StopSeen, networkVars
  <2>11. ASSUME Alive, LeaveRun, UNCHANGED client
         PROVE  ExchangeOf(d)'
    BY <2>11 DEF LeaveRun, StopSeen, Closed, Queued
  <2>12. ASSUME NEW c \in Clients, NEW first \in {"read", "handshake"}, Alive,
                Take(c, first), UNCHANGED client,
                thread' = IF kind = "parallel" THEN "test" ELSE "handling"
         PROVE  ExchangeOf(d)'
    BY <2>12 DEF Take
  <2>13. ASSUME NEW c \in Clients, Alive, ServerHandshake(c), UNCHANGED client
         PROVE  ExchangeOf(d)'
    BY <2>13
       DEF ServerHandshake, ReadResults, Delivered, GoOn, Catch, Finish,
           HandlerReturned, Closed
  <2>14. ASSUME NEW c \in Clients, Alive, ReadRequest(c), UNCHANGED client
         PROVE  ExchangeOf(d)'
    BY <2>14
       DEF ReadRequest, ReadResults, GoOn, Catch, Finish, HandlerReturned,
           Closed
  <2>15. ASSUME NEW c \in Clients, Alive, SendResponse(c), UNCHANGED client
         PROVE  ExchangeOf(d)'
    BY <2>15
       DEF SendResponse, WriteResults, Delivered, Finish, HandlerReturned,
           Closed
  <2>16. ASSUME Stop, UNCHANGED client
         PROVE  ExchangeOf(d)'
    BY <2>16 DEF Stop, networkVars
  <2>17. ASSUME Alive, StopReturns, UNCHANGED client
         PROVE  ExchangeOf(d)'
    BY <2>17 DEF StopReturns, Joined, networkVars
  <2>18. ASSUME NEW c \in Clients, Break(c), UNCHANGED <<client, serverVars>>
         PROVE  ExchangeOf(d)'
    BY <2>18 DEF Break, serverVars
  <2>19. CASE UNCHANGED vars
    BY <2>19 DEF vars, networkVars, serverVars
  <2>20. QED
    BY <2>1, <2>2, <2>3, <2>4, <2>5, <2>6, <2>7, <2>8, <2>9, <2>10, <2>11,
       <2>12, <2>13, <2>14, <2>15, <2>16, <2>17, <2>18, <2>19
       DEF Next, ClientStep, TCPClient, SSLClient, ServerStep, ThreadStep,
           LoopAcceptor, SSLAcceptor, ParallelAcceptor, LoopAccept, SSLAccept,
           ParallelAccept, MainReturns, AcceptThrows, UseAfterDestruction,
           HandlerStep, HandleClient, LoopHandleClient, SSLHandleClient,
           ParallelHandleClient, Alive
<1>3. QED
  BY TypeCorrect, ThreadsInvariant, <1>1, <1>2, PTL DEF Spec

\* A client that was connected fails only if the network broke its connection, the
\* two speak no common version of TLS, the server's process has ended, or it was
\* stopped with the connection still in the backlog.
THEOREM FailureExplainedHolds == Spec => []FailureExplained
<1>1. Threads /\ Exchange => FailureExplained
  BY DEF Threads, Exchange, ExchangeOf, Excused, Missed, FailureExplained
<1>2. QED
  BY ThreadsInvariant, ExchangeInvariant, <1>1, PTL

-----------------------------------------------------------------------------

\* The three servers implement ConnectionServer: taking a connection is its Take,
\* the end of a Service is its Answer or Drop, the return of Stop or the end of the
\* process is its Stop, everything else leaves the connections alone.
THEOREM Implementation == Spec => ImplementsConnections
<1>1. Init => Connections!Init
  BY DEF Init, ServerInit, Connections!Init, Status, Alive, Calls
<1>2. TypeOK /\ Threads /\ Exchange /\ [Next]_vars
        => [Connections!Next]_(Connections!vars)
  <2> SUFFICES ASSUME TypeOK, Threads, Exchange, [Next]_vars
               PROVE  [Connections!Next]_(Connections!vars)
    OBVIOUS
  <2> DEFINE Goal == Connections!Next \/ UNCHANGED Connections!vars
             Up == Alive /\ (process # "stopped" \/ kind = "parallel")
  <2>100. ASSUME UNCHANGED <<service, toClient>>, Up' = Up
          PROVE  Goal
    BY <2>100 DEF Connections!vars, Status
  <2>101. ASSUME UNCHANGED <<service, toClient>>, ~Up'
          PROVE  Goal
    BY <2>101 DEF Connections!Next, Connections!Stop, Status
  \* A step of the Service of c, to its next call or to its end.
  <2>102. ASSUME NEW c \in Clients, service[c] \in Calls, Alive,
                 NEW next \in Calls \cup {"finished"},
                 service' = [service EXCEPT ![c] = next],
                 \A d \in Clients \ {c} : toClient'[d] = toClient[d],
                 UNCHANGED <<process, kind>>
          PROVE  Goal
    <3>1. Up /\ Up'
      BY <2>102 DEF Threads, TypeOK, ServerTypeOK, Alive
    <3>2. \A d \in Clients \ {c} : Status(d)' = Status(d)
      BY <2>102 DEF TypeOK, ServerTypeOK, Status
    <3>3. Status(c) = "serving"
      BY <2>102 DEF Status, Calls
    <3>4. service'[c] = next
      BY <2>102 DEF TypeOK, ServerTypeOK
    <3>5. CASE next \in Calls
      <4>1. Status(c)' = "serving"
        BY <3>4, <3>5 DEF Status, Calls
      <4>2. QED
        BY <3>1, <3>2, <3>3, <4>1 DEF Connections!vars
    <3>6. CASE next = "finished"
      <4> DEFINE end == IF "response" \in toClient'[c] THEN "answered" ELSE "dropped"
      <4>1. Status(c)' = end
        BY <3>4, <3>6 DEF Status, Calls
      <4>2. [d \in Clients |-> Status(d)]'
              = [[d \in Clients |-> Status(d)] EXCEPT ![c] = end]
        BY <3>2, <4>1
      <4>3. Connections!Move(c, "serving", end)
        BY <3>1, <3>3, <4>2 DEF Connections!Move
      <4>4. QED
        BY <4>3 DEF Connections!Next, Connections!Answer, Connections!Drop
    <3>7. QED
      BY <2>102, <3>5, <3>6
  <2>1. ASSUME NEW c \in Clients, NEW next \in {"write", "handshake"},
               Connect(c, next), UNCHANGED serverVars
        PROVE  Goal
    BY <2>1, <2>100 DEF Connect, serverVars, Alive
  <2>2. ASSUME NEW c \in Clients, SendHello(c), UNCHANGED serverVars
        PROVE  Goal
    BY <2>2, <2>100 DEF SendHello, Delivered, serverVars, Alive
  <2>3. ASSUME NEW c \in Clients, ClientHandshake(c), UNCHANGED serverVars
        PROVE  Goal
    BY <2>3, <2>100
       DEF ClientHandshake, ReadResults, Returned, Closed, serverVars, Alive
  <2>4. ASSUME NEW c \in Clients, SendRequest(c), UNCHANGED serverVars
        PROVE  Goal
    BY <2>4, <2>100
       DEF SendRequest, WriteResults, Returned, Delivered, Closed, serverVars,
           Alive
  <2>5. ASSUME NEW c \in Clients, ReceiveResponse(c), UNCHANGED serverVars
        PROVE  Goal
    BY <2>5, <2>100
       DEF ReceiveResponse, ReadResults, Returned, Closed, serverVars, Alive
  <2>6. ASSUME NEW c \in Clients, TCPClose(c), UNCHANGED serverVars
        PROVE  Goal
    BY <2>6, <2>100 DEF TCPClose, Closed, serverVars, Alive
  <2>7. ASSUME NEW c \in Clients, SSLClose(c), UNCHANGED serverVars
        PROVE  Goal
    BY <2>7, <2>100 DEF SSLClose, Closed, serverVars, Alive
  <2>8. ASSUME Alive, Listens, UNCHANGED client
        PROVE  Goal
    BY <2>8, <2>100 DEF Listens, Alive
  <2>9. ASSUME NEW how \in {"ended", "crashed"}, Alive, Over(how), UNCHANGED client
        PROVE  Goal
    BY <2>9, <2>101 DEF Over, Alive
  <2>10. ASSUME Alive, Test, UNCHANGED client
         PROVE  Goal
    BY <2>10, <2>100 DEF Test, StopSeen, networkVars, Alive
  <2>11. ASSUME Alive, LeaveRun, UNCHANGED client
         PROVE  Goal
    BY <2>11, <2>100 DEF LeaveRun, StopSeen, Closed, Queued, Alive
  <2>12. ASSUME NEW c \in Clients, NEW first \in {"read", "handshake"}, Alive,
                Take(c, first), UNCHANGED client,
                thread' = IF kind = "parallel" THEN "test" ELSE "handling"
         PROVE  Goal
    <3>1. /\ service[c] = "none"
          /\ service' = [service EXCEPT ![c] = first]
          /\ UNCHANGED <<toClient, process, kind>>
      BY <2>12 DEF Take, Exchange, ExchangeOf, TypeOK, NetworkTypeOK
    <3>2. Up /\ Up'
      BY <2>12, <3>1 DEF Take, Threads, Alive
    <3>3. [d \in Clients |-> Status(d)]'
            = [[d \in Clients |-> Status(d)] EXCEPT ![c] = "serving"]
      BY <3>1 DEF TypeOK, ServerTypeOK, Status, Calls
    <3>4. Connections!Take(c)
      BY <3>1, <3>2, <3>3 DEF Connections!Take, Connections!Move, Status, Calls
    <3>5. QED
      BY <3>4 DEF Connections!Next
  <2>13. ASSUME NEW c \in Clients, Alive, ServerHandshake(c), UNCHANGED client
         PROVE  Goal
    <3>1. PICK next \in {"read", "finished"} : service' = [service EXCEPT ![c] = next]
      BY <2>13 DEF ServerHandshake, GoOn, Catch, Finish
    <3>2. /\ service[c] \in Calls
          /\ UNCHANGED <<process, kind>>
          /\ \A d \in Clients \ {c} : toClient'[d] = toClient[d]
      BY <2>13 DEF ServerHandshake, GoOn, Catch, Delivered, Calls, TypeOK, NetworkTypeOK
    <3>3. next \in Calls \cup {"finished"}
      BY DEF Calls
    <3>4. QED
      BY <2>13, <3>1, <3>2, <3>3, <2>102
  <2>14. ASSUME NEW c \in Clients, Alive, ReadRequest(c), UNCHANGED client
         PROVE  Goal
    <3>1. PICK next \in {"write", "finished"} : service' = [service EXCEPT ![c] = next]
      BY <2>14 DEF ReadRequest, GoOn, Catch, Finish
    <3>2. service[c] \in Calls /\ UNCHANGED <<process, kind, toClient>>
      BY <2>14 DEF ReadRequest, GoOn, Catch, Calls
    <3>3. next \in Calls \cup {"finished"}
      BY DEF Calls
    <3>4. QED
      BY <2>14, <3>1, <3>2, <3>3, <2>102
  <2>15. ASSUME NEW c \in Clients, Alive, SendResponse(c), UNCHANGED client
         PROVE  Goal
    <3>1. /\ service[c] \in Calls
          /\ service' = [service EXCEPT ![c] = "finished"]
          /\ UNCHANGED <<process, kind>>
      BY <2>15 DEF SendResponse, Finish, Calls
    <3>2. \A d \in Clients \ {c} : toClient'[d] = toClient[d]
      BY <2>15 DEF SendResponse, Delivered, TypeOK, NetworkTypeOK
    <3>3. QED
      BY <2>15, <3>1, <3>2, <2>102
  <2>16. ASSUME Stop, UNCHANGED client
         PROVE  Goal
    BY <2>16, <2>100 DEF Stop, networkVars, Alive
  <2>17. ASSUME Alive, StopReturns, UNCHANGED client
         PROVE  Goal
    <3>1. CASE kind = "parallel"
      BY <2>17, <3>1, <2>100 DEF StopReturns, networkVars, Alive
    <3>2. CASE kind # "parallel"
      BY <2>17, <3>2, <2>101 DEF StopReturns, networkVars
    <3>3. QED
      BY <3>1, <3>2
  <2>18. ASSUME NEW c \in Clients, Break(c), UNCHANGED <<client, serverVars>>
         PROVE  Goal
    BY <2>18, <2>100 DEF Break, serverVars, Alive
  <2>19. CASE UNCHANGED vars
    BY <2>19, <2>100 DEF vars, networkVars, serverVars, Alive
  <2>20. QED
    BY <2>1, <2>2, <2>3, <2>4, <2>5, <2>6, <2>7, <2>8, <2>9, <2>10, <2>11,
       <2>12, <2>13, <2>14, <2>15, <2>16, <2>17, <2>18, <2>19
       DEF Next, ClientStep, TCPClient, SSLClient, ServerStep, ThreadStep,
           LoopAcceptor, SSLAcceptor, ParallelAcceptor, LoopAccept, SSLAccept,
           ParallelAccept, MainReturns, AcceptThrows, UseAfterDestruction,
           HandlerStep, HandleClient, LoopHandleClient, SSLHandleClient,
           ParallelHandleClient, Alive
<1>3. QED
  BY <1>1, <1>2, TypeCorrect, ThreadsInvariant, ExchangeInvariant, PTL
     DEF Spec, ImplementsConnections, Connections!Spec
=============================================================================
