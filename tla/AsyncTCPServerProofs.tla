------------------------ MODULE AsyncTCPServerProofs ------------------------
(***************************************************************************)
(* Proofs about AsyncTCPServer, for every set of clients, every thread     *)
(* pool and any number of failing accepts.  The parts of the inductive     *)
(* invariant, each a lemma of its own:                                     *)
(*                                                                         *)
(*   TypeOK        types                                                   *)
(*   OneAccept     the chain of accepts: its operation or the one thread   *)
(*                 that is in onAccept, as long as the acceptor is open    *)
(*   OneHandler    a Service is where its operation is, or in one thread   *)
(*   StopPhases    how far Stop has come                                   *)
(*   LateChain     what a late Service leaves of the chain                 *)
(***************************************************************************)
EXTENDS AsyncTCPServer, FiniteSetTheorems, TLAPS

OneAccept ==
  /\ \A v, w \in Workers : Accepting(v) /\ Accepting(w) => v = w
  /\ (\E w \in Workers : Accepting(w)) => accept = "none" /\ acceptorOpen
  /\ accept # "none" => acceptorOpen
  /\ acceptorOpen => accept # "none" \/ \E w \in Workers : Accepting(w)

OneHandler ==
  /\ accept \in Clients => service[accept] = "none"
  /\ \A w \in Workers : At(w, "accept") => service[worker[w].client] = "none"
  /\ \A v, w \in Workers : \A c \in Clients : Serving(v, c) /\ Serving(w, c) => v = w
  /\ \A w \in Workers : \A c \in Clients : Serving(w, c) => op[c] = "none"
  /\ \A c \in Clients :
       service[c] \in {"reading", "writing"}
         <=> op[c] # "none" \/ \E w \in Workers : Serving(w, c)

StopPhases ==
  /\ isStopped <=> server # "running"
  /\ iosStopped <=> server \in {"joining", "stopped"}
  /\ server = "stopped" => AllJoined
  /\ \A c \in answered : service[c] = "deleted"

LateChain ==
  late = 0 \/ (late = 1 /\ isStopped
               /\ (~acceptorOpen \/ \E w \in Workers : At(w, "check")))

-----------------------------------------------------------------------------

\* The variables keep their types: no thread is in onAccept or in a handler of a
\* Service without a client.
THEOREM TypeCorrect == Spec => []TypeOK
<1> USE ServerAssumption
<1>1. Init => TypeOK
  <2> SUFFICES ASSUME Init PROVE TypeOK
    OBVIOUS
  <2>1. \A w \in Workers : /\ worker[w].at = "run"
                          /\ worker[w].client = NoClient /\ worker[w].result = "ok"
    BY DEF Init, IdleWorker
  <2>2. worker \in [Workers ->
          [at : {"run", "accept", "check", "init", "service", "exited"},
           client : Clients \cup {NoClient}, result : {"ok", "failed"}]]
    BY DEF Init, IdleWorker
  <2>3. /\ service \in [Clients -> {"none", "reading", "writing", "deleted"}]
        /\ op \in [Clients -> {"none", "pending", "ok", "failed"}]
    BY DEF Init
  <2>4. acceptErrors \in 0 .. MaxAcceptErrors /\ late \in Nat
    BY DEF Init
  <2>5. QED
    BY <2>1, <2>2, <2>3, <2>4, Zenon DEF Init, TypeOK
<1>2. TypeOK /\ [Next]_vars => TypeOK'
  <2> SUFFICES ASSUME TypeOK, [Next]_vars PROVE TypeOK'
    OBVIOUS
  <2> USE DEF TypeOK, acceptVars, serviceVars, stopVars, At, Goto, Idle, IdleWorker
  <2>1. ASSUME StopAcceptor
        PROVE  TypeOK'
    BY <2>1 DEF StopAcceptor
  <2>2. ASSUME StopIos
        PROVE  TypeOK'
    BY <2>2 DEF StopIos, IosStops
  <2>3. ASSUME StopReturns
        PROVE  TypeOK'
    BY <2>3 DEF StopReturns, AllJoined
  <2>4. ASSUME NEW w \in Workers, DispatchAccept(w)
        PROVE  TypeOK'
    BY <2>4 DEF DispatchAccept, Running, FailureNoted
  <2>5. ASSUME NEW w \in Workers, NEW c \in Clients, DispatchService(w, c)
        PROVE  TypeOK'
    BY <2>5 DEF DispatchService, Running
  <2>6. ASSUME NEW w \in Workers, StartService(w)
        PROVE  TypeOK'
    BY <2>6 DEF StartService
  <2>7. ASSUME NEW w \in Workers, CheckStopped(w)
        PROVE  TypeOK'
    BY <2>7 DEF CheckStopped, StopSeen, Recheck
  <2>8. ASSUME NEW w \in Workers, InitAccept(w)
        PROVE  TypeOK'
    BY <2>8 DEF InitAccept
  <2>9. ASSUME NEW w \in Workers, CloseAcceptor(w)
        PROVE  TypeOK'
    BY <2>9 DEF CloseAcceptor, StopSeen
  <2>10. ASSUME NEW w \in Workers, RequestReceived(w)
         PROVE  TypeOK'
    BY <2>10 DEF RequestReceived, InService
  <2>11. ASSUME NEW w \in Workers, RequestFails(w)
         PROVE  TypeOK'
    BY <2>11 DEF RequestFails, InService, Deleted, OpAfterFinish
  <2>12. ASSUME NEW w \in Workers, ResponseSent(w)
         PROVE  TypeOK'
    BY <2>12 DEF ResponseSent, InService, Deleted
  <2>13. ASSUME NEW w \in Workers, Exit(w)
         PROVE  TypeOK'
    BY <2>13 DEF Exit
  <2>14. ASSUME NEW c \in Clients, ClientConnects(c)
         PROVE  TypeOK'
    BY <2>14 DEF ClientConnects
  <2>15. ASSUME NEW c \in Clients, AcceptSucceeds(c)
         PROVE  TypeOK'
    BY <2>15 DEF AcceptSucceeds
  <2>16. ASSUME AcceptFails
         PROVE  TypeOK'
    BY <2>16 DEF AcceptFails
  <2>17. ASSUME NEW c \in Clients, OpCompletes(c)
         PROVE  TypeOK'
    BY <2>17 DEF OpCompletes
  <2>18. CASE Finished \/ UNCHANGED vars
    BY <2>18 DEF Finished, vars
  <2>19. QED
    BY <2>1, <2>2, <2>3, <2>4, <2>5, <2>6, <2>7, <2>8, <2>9, <2>10, <2>11,
       <2>12, <2>13, <2>14, <2>15, <2>16, <2>17, <2>18
       DEF Next, OwnerStep, WorkerStep
<1>3. QED
  BY <1>1, <1>2, PTL DEF Spec

-----------------------------------------------------------------------------

\* The chain of accepts is in one place, whichever threads run onAccept.
LEMMA OneAcceptInvariant == Spec => []OneAccept
<1> USE ServerAssumption
<1>1. Init => OneAccept
  BY DEF Init, OneAccept, IdleWorker, Accepting
<1>2. TypeOK /\ OneAccept /\ [Next]_vars => OneAccept'
  <2> SUFFICES ASSUME TypeOK, OneAccept, [Next]_vars PROVE OneAccept'
    OBVIOUS
  <2> USE DEF TypeOK, OneAccept, Accepting, acceptVars, serviceVars, stopVars,
              At, Goto, Idle, IdleWorker
  <2>1. ASSUME StopAcceptor
        PROVE  OneAccept'
    BY <2>1 DEF StopAcceptor
  <2>2. ASSUME StopIos
        PROVE  OneAccept'
    BY <2>2 DEF StopIos, IosStops
  <2>3. ASSUME StopReturns
        PROVE  OneAccept'
    BY <2>3 DEF StopReturns, AllJoined
  <2>4. ASSUME NEW w \in Workers, DispatchAccept(w)
        PROVE  OneAccept'
    BY <2>4 DEF DispatchAccept, Running, FailureNoted
  <2>5. ASSUME NEW w \in Workers, NEW c \in Clients, DispatchService(w, c)
        PROVE  OneAccept'
    BY <2>5 DEF DispatchService, Running
  <2>6. ASSUME NEW w \in Workers, StartService(w)
        PROVE  OneAccept'
    BY <2>6 DEF StartService
  <2>7. ASSUME NEW w \in Workers, CheckStopped(w)
        PROVE  OneAccept'
    BY <2>7 DEF CheckStopped, StopSeen, Recheck
  <2>8. ASSUME NEW w \in Workers, InitAccept(w)
        PROVE  OneAccept'
    BY <2>8 DEF InitAccept
  <2>9. ASSUME NEW w \in Workers, CloseAcceptor(w)
        PROVE  OneAccept'
    BY <2>9 DEF CloseAcceptor, StopSeen
  <2>10. ASSUME NEW w \in Workers, RequestReceived(w)
         PROVE  OneAccept'
    BY <2>10 DEF RequestReceived, InService
  <2>11. ASSUME NEW w \in Workers, RequestFails(w)
         PROVE  OneAccept'
    BY <2>11 DEF RequestFails, InService, Deleted, OpAfterFinish
  <2>12. ASSUME NEW w \in Workers, ResponseSent(w)
         PROVE  OneAccept'
    BY <2>12 DEF ResponseSent, InService, Deleted
  <2>13. ASSUME NEW w \in Workers, Exit(w)
         PROVE  OneAccept'
    BY <2>13 DEF Exit
  <2>14. ASSUME NEW c \in Clients, ClientConnects(c)
         PROVE  OneAccept'
    BY <2>14 DEF ClientConnects
  <2>15. ASSUME NEW c \in Clients, AcceptSucceeds(c)
         PROVE  OneAccept'
    BY <2>15 DEF AcceptSucceeds
  <2>16. ASSUME AcceptFails
         PROVE  OneAccept'
    BY <2>16 DEF AcceptFails
  <2>17. ASSUME NEW c \in Clients, OpCompletes(c)
         PROVE  OneAccept'
    BY <2>17 DEF OpCompletes
  <2>18. CASE Finished \/ UNCHANGED vars
    BY <2>18 DEF Finished, vars
  <2>19. QED
    BY <2>1, <2>2, <2>3, <2>4, <2>5, <2>6, <2>7, <2>8, <2>9, <2>10, <2>11,
       <2>12, <2>13, <2>14, <2>15, <2>16, <2>17, <2>18
       DEF Next, OwnerStep, WorkerStep
<1>3. QED
  BY <1>1, <1>2, TypeCorrect, PTL DEF Spec

\* A set that holds at most one element has as many as its members say.
LEMMA CardinalityOfOne ==
  ASSUME NEW S, \A x, y \in S : x = y
  PROVE  Cardinality(S) = IF S = {} THEN 0 ELSE 1
<1>1. CASE S = {}
  BY <1>1, FS_EmptySet
<1>2. CASE S # {}
  <2>1. PICK x \in S : TRUE
    BY <1>2
  <2>2. S = {x}
    BY <2>1
  <2>3. QED
    BY <1>2, <2>2, FS_Singleton
<1>3. QED
  BY <1>1, <1>2

\* Exactly one async_accept is outstanding or in the hands of a thread for as long
\* as the acceptor is open, however onAccept interleaves with Stop.
THEOREM AcceptChainHolds == Spec => []AcceptChain
<1>1. OneAccept => AcceptChain
  <2> SUFFICES ASSUME OneAccept PROVE AcceptChain
    OBVIOUS
  <2> DEFINE S == {w \in Workers : Accepting(w)}
  <2>1. \A x, y \in S : x = y
    BY DEF OneAccept
  <2>2. Cardinality(S) = IF S = {} THEN 0 ELSE 1
    BY <2>1, CardinalityOfOne
  <2>3. /\ S # {} => accept = "none" /\ acceptorOpen
        /\ accept # "none" => acceptorOpen
        /\ acceptorOpen => accept # "none" \/ S # {}
    BY DEF OneAccept
  <2>4. QED
    BY <2>2, <2>3 DEF AcceptChain
<1>2. QED
  BY <1>1, OneAcceptInvariant, PTL

-----------------------------------------------------------------------------

\* A Service that exists is where its operation is or in exactly one thread, and no
\* second Service is ever created for a connection.
LEMMA OneHandlerInvariant == Spec => []OneHandler
<1> USE ServerAssumption
<1>1. Init => OneHandler
  BY DEF Init, OneHandler, IdleWorker, Serving, At
<1>2. TypeOK /\ OneAccept /\ OneHandler /\ [Next]_vars => OneHandler'
  <2> SUFFICES ASSUME TypeOK, OneAccept, OneHandler, [Next]_vars PROVE OneHandler'
    OBVIOUS
  <2> USE DEF TypeOK, OneHandler, Serving, acceptVars, serviceVars, stopVars, At,
              Goto, Idle, IdleWorker
  <2>1. ASSUME StopAcceptor
        PROVE  OneHandler'
    BY <2>1 DEF StopAcceptor
  <2>2. ASSUME StopIos
        PROVE  OneHandler'
    BY <2>2 DEF StopIos, IosStops
  <2>3. ASSUME StopReturns
        PROVE  OneHandler'
    BY <2>3 DEF StopReturns, AllJoined
  <2>4. ASSUME NEW w \in Workers, DispatchAccept(w)
        PROVE  OneHandler'
    BY <2>4 DEF DispatchAccept, Running, FailureNoted, OneAccept, Accepting
  <2>5. ASSUME NEW w \in Workers, NEW c \in Clients, DispatchService(w, c)
        PROVE  OneHandler'
    BY <2>5 DEF DispatchService, Running
  <2>6. ASSUME NEW w \in Workers, StartService(w)
        PROVE  OneHandler'
    BY <2>6 DEF StartService, OneAccept, Accepting
  <2>7. ASSUME NEW w \in Workers, CheckStopped(w)
        PROVE  OneHandler'
    BY <2>7 DEF CheckStopped, StopSeen, Recheck
  <2>8. ASSUME NEW w \in Workers, InitAccept(w)
        PROVE  OneHandler'
    BY <2>8 DEF InitAccept
  <2>9. ASSUME NEW w \in Workers, CloseAcceptor(w)
        PROVE  OneHandler'
    BY <2>9 DEF CloseAcceptor, StopSeen
  <2>10. ASSUME NEW w \in Workers, RequestReceived(w)
         PROVE  OneHandler'
    BY <2>10 DEF RequestReceived, InService
  <2>11. ASSUME NEW w \in Workers, RequestFails(w)
         PROVE  OneHandler'
    BY <2>11 DEF RequestFails, InService, Deleted, OpAfterFinish
  <2>12. ASSUME NEW w \in Workers, ResponseSent(w)
         PROVE  OneHandler'
    BY <2>12 DEF ResponseSent, InService, Deleted
  <2>13. ASSUME NEW w \in Workers, Exit(w)
         PROVE  OneHandler'
    BY <2>13 DEF Exit
  <2>14. ASSUME NEW c \in Clients, ClientConnects(c)
         PROVE  OneHandler'
    BY <2>14 DEF ClientConnects
  <2>15. ASSUME NEW c \in Clients, AcceptSucceeds(c)
         PROVE  OneHandler'
    BY <2>15 DEF AcceptSucceeds
  <2>16. ASSUME AcceptFails
         PROVE  OneHandler'
    BY <2>16 DEF AcceptFails
  <2>17. ASSUME NEW c \in Clients, OpCompletes(c)
         PROVE  OneHandler'
    BY <2>17 DEF OpCompletes
  <2>18. CASE Finished \/ UNCHANGED vars
    BY <2>18 DEF Finished, vars
  <2>19. QED
    BY <2>1, <2>2, <2>3, <2>4, <2>5, <2>6, <2>7, <2>8, <2>9, <2>10, <2>11,
       <2>12, <2>13, <2>14, <2>15, <2>16, <2>17, <2>18
       DEF Next, OwnerStep, WorkerStep
<1>3. QED
  BY <1>1, <1>2, TypeCorrect, OneAcceptInvariant, PTL DEF Spec

\* One operation or handler per Service that exists and none for one that has
\* deleted itself: the raw pointers that the handlers captured are good.
THEOREM ServiceOwnedHolds == Spec => []ServiceOwned
<1>1. OneHandler => ServiceOwned
  <2> SUFFICES ASSUME OneHandler, NEW c \in Clients
               PROVE  Cardinality({w \in Workers : Serving(w, c)})
                        + (IF op[c] = "none" THEN 0 ELSE 1)
                      = IF service[c] \in {"reading", "writing"} THEN 1 ELSE 0
    BY DEF ServiceOwned
  <2> DEFINE S == {w \in Workers : Serving(w, c)}
  <2>1. \A x, y \in S : x = y
    BY DEF OneHandler
  <2>2. Cardinality(S) = IF S = {} THEN 0 ELSE 1
    BY <2>1, CardinalityOfOne
  <2>3. /\ S # {} => op[c] = "none"
        /\ service[c] \in {"reading", "writing"} <=> op[c] # "none" \/ S # {}
    BY DEF OneHandler
  <2>4. QED
    BY <2>2, <2>3
<1>2. QED
  BY <1>1, OneHandlerInvariant, PTL

-----------------------------------------------------------------------------

\* The flags tell how far Stop has come; when it has returned no thread is left.
LEMMA StopPhasesInvariant == Spec => []StopPhases
<1> USE ServerAssumption
<1>1. Init => StopPhases
  BY DEF Init, StopPhases
<1>2. TypeOK /\ StopPhases /\ OneHandler /\ [Next]_vars => StopPhases'
  <2> SUFFICES ASSUME TypeOK, StopPhases, OneHandler, [Next]_vars PROVE StopPhases'
    OBVIOUS
  <2> USE DEF TypeOK, StopPhases, AllJoined, acceptVars, serviceVars, stopVars,
              At, Goto, Idle, IdleWorker
  <2>1. ASSUME StopAcceptor
        PROVE  StopPhases'
    BY <2>1 DEF StopAcceptor
  <2>2. ASSUME StopIos
        PROVE  StopPhases'
    BY <2>2 DEF StopIos, IosStops
  <2>3. ASSUME StopReturns
        PROVE  StopPhases'
    BY <2>3 DEF StopReturns, AllJoined
  <2>4. ASSUME NEW w \in Workers, DispatchAccept(w)
        PROVE  StopPhases'
    BY <2>4 DEF DispatchAccept, Running, FailureNoted
  <2>5. ASSUME NEW w \in Workers, NEW c \in Clients, DispatchService(w, c)
        PROVE  StopPhases'
    BY <2>5 DEF DispatchService, Running
  <2>6. ASSUME NEW w \in Workers, StartService(w)
        PROVE  StopPhases'
    BY <2>6 DEF StartService, OneHandler
  <2>7. ASSUME NEW w \in Workers, CheckStopped(w)
        PROVE  StopPhases'
    BY <2>7 DEF CheckStopped, StopSeen, Recheck
  <2>8. ASSUME NEW w \in Workers, InitAccept(w)
        PROVE  StopPhases'
    BY <2>8 DEF InitAccept
  <2>9. ASSUME NEW w \in Workers, CloseAcceptor(w)
        PROVE  StopPhases'
    BY <2>9 DEF CloseAcceptor, StopSeen
  <2>10. ASSUME NEW w \in Workers, RequestReceived(w)
         PROVE  StopPhases'
    BY <2>10 DEF RequestReceived, InService
  <2>11. ASSUME NEW w \in Workers, RequestFails(w)
         PROVE  StopPhases'
    BY <2>11 DEF RequestFails, InService, Deleted, OpAfterFinish
  <2>12. ASSUME NEW w \in Workers, ResponseSent(w)
         PROVE  StopPhases'
    BY <2>12 DEF ResponseSent, InService, Deleted
  <2>13. ASSUME NEW w \in Workers, Exit(w)
         PROVE  StopPhases'
    BY <2>13 DEF Exit
  <2>14. ASSUME NEW c \in Clients, ClientConnects(c)
         PROVE  StopPhases'
    BY <2>14 DEF ClientConnects
  <2>15. ASSUME NEW c \in Clients, AcceptSucceeds(c)
         PROVE  StopPhases'
    BY <2>15 DEF AcceptSucceeds
  <2>16. ASSUME AcceptFails
         PROVE  StopPhases'
    BY <2>16 DEF AcceptFails
  <2>17. ASSUME NEW c \in Clients, OpCompletes(c)
         PROVE  StopPhases'
    BY <2>17 DEF OpCompletes
  <2>18. CASE Finished \/ UNCHANGED vars
    BY <2>18 DEF Finished, vars
  <2>19. QED
    BY <2>1, <2>2, <2>3, <2>4, <2>5, <2>6, <2>7, <2>8, <2>9, <2>10, <2>11,
       <2>12, <2>13, <2>14, <2>15, <2>16, <2>17, <2>18
       DEF Next, OwnerStep, WorkerStep
<1>3. QED
  BY <1>1, <1>2, TypeCorrect, OneHandlerInvariant, PTL DEF Spec

\* A Service that was created after the flag was set is the last of the chain.
LEMMA LateChainInvariant == Spec => []LateChain
<1> USE ServerAssumption
<1>1. Init => LateChain
  BY DEF Init, LateChain
<1>2. TypeOK /\ OneAccept /\ LateChain /\ [Next]_vars => LateChain'
  <2> SUFFICES ASSUME TypeOK, OneAccept, LateChain, [Next]_vars PROVE LateChain'
    OBVIOUS
  <2> USE DEF TypeOK, LateChain, OneAccept, Accepting, acceptVars, serviceVars,
              stopVars, At, Goto, Idle, IdleWorker
  <2>1. ASSUME StopAcceptor
        PROVE  LateChain'
    BY <2>1 DEF StopAcceptor
  <2>2. ASSUME StopIos
        PROVE  LateChain'
    BY <2>2 DEF StopIos, IosStops
  <2>3. ASSUME StopReturns
        PROVE  LateChain'
    BY <2>3 DEF StopReturns, AllJoined
  <2>4. ASSUME NEW w \in Workers, DispatchAccept(w)
        PROVE  LateChain'
    BY <2>4 DEF DispatchAccept, Running, FailureNoted
  <2>5. ASSUME NEW w \in Workers, NEW c \in Clients, DispatchService(w, c)
        PROVE  LateChain'
    BY <2>5 DEF DispatchService, Running
  <2>6. ASSUME NEW w \in Workers, StartService(w)
        PROVE  LateChain'
    BY <2>6 DEF StartService
  <2>7. ASSUME NEW w \in Workers, CheckStopped(w)
        PROVE  LateChain'
    BY <2>7 DEF CheckStopped, StopSeen, Recheck
  <2>8. ASSUME NEW w \in Workers, InitAccept(w)
        PROVE  LateChain'
    BY <2>8 DEF InitAccept
  <2>9. ASSUME NEW w \in Workers, CloseAcceptor(w)
        PROVE  LateChain'
    BY <2>9 DEF CloseAcceptor, StopSeen
  <2>10. ASSUME NEW w \in Workers, RequestReceived(w)
         PROVE  LateChain'
    BY <2>10 DEF RequestReceived, InService
  <2>11. ASSUME NEW w \in Workers, RequestFails(w)
         PROVE  LateChain'
    BY <2>11 DEF RequestFails, InService, Deleted, OpAfterFinish
  <2>12. ASSUME NEW w \in Workers, ResponseSent(w)
         PROVE  LateChain'
    BY <2>12 DEF ResponseSent, InService, Deleted
  <2>13. ASSUME NEW w \in Workers, Exit(w)
         PROVE  LateChain'
    BY <2>13 DEF Exit
  <2>14. ASSUME NEW c \in Clients, ClientConnects(c)
         PROVE  LateChain'
    BY <2>14 DEF ClientConnects
  <2>15. ASSUME NEW c \in Clients, AcceptSucceeds(c)
         PROVE  LateChain'
    BY <2>15 DEF AcceptSucceeds
  <2>16. ASSUME AcceptFails
         PROVE  LateChain'
    BY <2>16 DEF AcceptFails
  <2>17. ASSUME NEW c \in Clients, OpCompletes(c)
         PROVE  LateChain'
    BY <2>17 DEF OpCompletes
  <2>18. CASE Finished \/ UNCHANGED vars
    BY <2>18 DEF Finished, vars
  <2>19. QED
    BY <2>1, <2>2, <2>3, <2>4, <2>5, <2>6, <2>7, <2>8, <2>9, <2>10, <2>11,
       <2>12, <2>13, <2>14, <2>15, <2>16, <2>17, <2>18
       DEF Next, OwnerStep, WorkerStep
<1>3. QED
  BY <1>1, <1>2, TypeCorrect, OneAcceptInvariant, PTL DEF Spec

\* At most one connection gets a Service after m_isStopped was set, for any number
\* of threads: the one thread that has passed the look at the flag.
THEOREM LateServicesBound == Spec => []LateServices
<1>1. LateChain => LateServices
  BY DEF LateChain, LateServices
<1>2. QED
  BY <1>1, LateChainInvariant, PTL

-----------------------------------------------------------------------------

\* The server implements ConnectionServer: creating a Service, its deletion with or
\* without a response, and the return of Stop are its steps, everything else leaves
\* the connections alone.
THEOREM Implementation == Spec => ImplementsConnections
<1> USE ServerAssumption
<1>1. Init => Connections!Init
  BY DEF Init, Connections!Init, Status
<1>2. TypeOK /\ OneHandler /\ StopPhases /\ [Next]_vars
        => [Connections!Next]_(Connections!vars)
  <2> SUFFICES ASSUME TypeOK, OneHandler, StopPhases, [Next]_vars
               PROVE  [Connections!Next]_(Connections!vars)
    OBVIOUS
  <2> DEFINE Goal == Connections!Next \/ UNCHANGED Connections!vars
  <2>100. ASSUME UNCHANGED <<service, answered>>,
                 (server = "stopped") <=> (server' = "stopped")
          PROVE  Goal
    BY <2>100 DEF Connections!vars, Status
  <2>101. ASSUME NEW w \in Workers, ~At(w, "exited")
          PROVE  server # "stopped"
    BY <2>101 DEF StopPhases, AllJoined
  <2>1. ASSUME StopAcceptor
        PROVE  Goal
    BY <2>1, <2>100 DEF StopAcceptor, serviceVars, stopVars
  <2>2. ASSUME StopIos
        PROVE  Goal
    BY <2>2, <2>100 DEF StopIos, IosStops, serviceVars, stopVars
  <2>3. ASSUME StopReturns
        PROVE  Goal
    BY <2>3 DEF StopReturns, AllJoined, acceptVars, serviceVars, Status,
       Connections!Next, Connections!Stop
  <2>4. ASSUME NEW w \in Workers, DispatchAccept(w)
        PROVE  Goal
    BY <2>4, <2>100
       DEF DispatchAccept, Running, FailureNoted, serviceVars, stopVars
  <2>5. ASSUME NEW w \in Workers, NEW c \in Clients, DispatchService(w, c)
        PROVE  Goal
    BY <2>5, <2>100 DEF DispatchService, Running, serviceVars, stopVars
  <2>6. ASSUME NEW w \in Workers, StartService(w)
        PROVE  Goal
    <3> DEFINE c == worker[w].client
    <3>1. c \in Clients /\ service[c] = "none"
      BY <2>6 DEF StartService, TypeOK, OneHandler, At
    <3>2. server # "stopped" /\ server' = server
      BY <2>6, <2>101 DEF StartService, At, stopVars
    <3>3. /\ service' = [service EXCEPT ![c] = "reading"]
          /\ answered' = answered
      BY <2>6 DEF StartService
    <3>4. [d \in Clients |-> Status(d)]'
            = [[d \in Clients |-> Status(d)] EXCEPT ![c] = "serving"]
      BY <3>1, <3>3 DEF TypeOK, Status
    <3>5. Connections!Take(c)
      BY <3>1, <3>2, <3>4 DEF Connections!Take, Connections!Move, Status
    <3>6. QED
      BY <3>1, <3>5 DEF Connections!Next
  <2>7. ASSUME NEW w \in Workers, CheckStopped(w)
        PROVE  Goal
    BY <2>7, <2>100 DEF CheckStopped, StopSeen, Recheck, serviceVars, stopVars
  <2>8. ASSUME NEW w \in Workers, InitAccept(w)
        PROVE  Goal
    BY <2>8, <2>100 DEF InitAccept, serviceVars, stopVars
  <2>9. ASSUME NEW w \in Workers, CloseAcceptor(w)
        PROVE  Goal
    BY <2>9, <2>100 DEF CloseAcceptor, StopSeen, serviceVars, stopVars
  <2>10. ASSUME NEW w \in Workers, RequestReceived(w)
         PROVE  Goal
    <3> DEFINE c == worker[w].client
    <3>1. /\ c \in Clients /\ service[c] = "reading"
          /\ service' = [service EXCEPT ![c] = "writing"]
          /\ UNCHANGED <<answered, server>>
      BY <2>10 DEF RequestReceived, InService, TypeOK, At, stopVars
    <3>2. \A d \in Clients : Status(d)' = Status(d)
      BY <3>1 DEF TypeOK, Status
    <3>3. QED
      BY <3>1, <3>2 DEF Connections!vars
  <2>11. ASSUME NEW w \in Workers, RequestFails(w)
         PROVE  Goal
    <3> DEFINE c == worker[w].client
    <3>1. /\ c \in Clients /\ service[c] = "reading"
          /\ service' = [service EXCEPT ![c] = "deleted"]
          /\ UNCHANGED <<answered, server>>
      BY <2>11 DEF RequestFails, InService, Deleted, TypeOK, At, stopVars
    <3>2. c \notin answered
      BY <3>1 DEF StopPhases
    <3>3. server # "stopped"
      BY <2>11, <2>101 DEF RequestFails, InService, At
    <3>4. [d \in Clients |-> Status(d)]'
            = [[d \in Clients |-> Status(d)] EXCEPT ![c] = "dropped"]
      BY <3>1, <3>2 DEF TypeOK, Status
    <3>5. Connections!Drop(c)
      BY <3>1, <3>3, <3>4 DEF Connections!Drop, Connections!Move, Status
    <3>6. QED
      BY <3>1, <3>5 DEF Connections!Next
  <2>12. ASSUME NEW w \in Workers, ResponseSent(w)
         PROVE  Goal
    <3> DEFINE c == worker[w].client
               end == IF worker[w].result = "ok" THEN "answered" ELSE "dropped"
    <3>1. /\ c \in Clients /\ service[c] = "writing"
          /\ service' = [service EXCEPT ![c] = "deleted"]
          /\ answered' = IF worker[w].result = "ok" THEN answered \cup {c} ELSE answered
          /\ UNCHANGED server
      BY <2>12 DEF ResponseSent, InService, Deleted, TypeOK, At, stopVars
    <3>2. c \notin answered
      BY <3>1 DEF StopPhases
    <3>3. server # "stopped"
      BY <2>12, <2>101 DEF ResponseSent, InService, At
    <3>4. [d \in Clients |-> Status(d)]'
            = [[d \in Clients |-> Status(d)] EXCEPT ![c] = end]
      BY <3>1, <3>2 DEF TypeOK, Status
    <3>5. Connections!Move(c, "serving", end)
      BY <3>1, <3>3, <3>4 DEF Connections!Move, Status
    <3>6. QED
      BY <3>1, <3>5 DEF Connections!Next, Connections!Answer, Connections!Drop
  <2>13. ASSUME NEW w \in Workers, Exit(w)
         PROVE  Goal
    BY <2>13, <2>100 DEF Exit, serviceVars, stopVars
  <2>14. ASSUME NEW c \in Clients, ClientConnects(c)
         PROVE  Goal
    BY <2>14, <2>100 DEF ClientConnects, serviceVars, stopVars
  <2>15. ASSUME NEW c \in Clients, AcceptSucceeds(c)
         PROVE  Goal
    BY <2>15, <2>100 DEF AcceptSucceeds, serviceVars, stopVars
  <2>16. ASSUME AcceptFails
         PROVE  Goal
    BY <2>16, <2>100 DEF AcceptFails, serviceVars, stopVars
  <2>17. ASSUME NEW c \in Clients, OpCompletes(c)
         PROVE  Goal
    BY <2>17, <2>100 DEF OpCompletes, serviceVars, stopVars
  <2>18. CASE Finished \/ UNCHANGED vars
    BY <2>18, <2>100 DEF Finished, vars, serviceVars, stopVars
  <2>19. QED
    BY <2>1, <2>2, <2>3, <2>4, <2>5, <2>6, <2>7, <2>8, <2>9, <2>10, <2>11,
       <2>12, <2>13, <2>14, <2>15, <2>16, <2>17, <2>18
       DEF Next, OwnerStep, WorkerStep
<1>3. QED
  BY <1>1, <1>2, TypeCorrect, OneHandlerInvariant, StopPhasesInvariant, PTL
     DEF Spec, ImplementsConnections, Connections!Spec
=============================================================================
