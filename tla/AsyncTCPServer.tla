--------------------------- MODULE AsyncTCPServer ---------------------------
(***************************************************************************)
(* The asynchronous TCP server of 04-03-01-async_tcp_server.cpp.  The      *)
(* threads of m_thread_pool run the handlers of one Acceptor, which keeps  *)
(* itself going by a new async_accept from every onAccept, and of the      *)
(* Services, one per connection, which delete themselves when done.  The   *)
(* thread that owns the Server calls Stop.                                 *)
(*                                                                         *)
(* There is no mutex; m_isStopped is atomic.  A step of a thread ends      *)
(* where it has changed something another thread can see.                  *)
(***************************************************************************)
EXTENDS Naturals, FiniteSets

CONSTANTS
  Clients,          \* clients; each connects once
  Workers,          \* the threads of m_thread_pool
  MaxAcceptErrors,  \* bound: failures of async_accept
  NoClient

\* assert(thread_pool_size > 0)
ASSUME ServerAssumption ==
  /\ Workers # {}
  /\ NoClient \notin Clients
  /\ Clients \cap {"none", "pending", "failed"} = {}   \* the values of accept
  /\ MaxAcceptErrors \in Nat

VARIABLES
  accept,        \* async_accept: "none", "pending", "failed" (handler queued)
                 \*   or the client it accepted (handler queued)
  acceptErrors,  \* failures so far (bounded)
  acceptorOpen,  \* m_acceptor has not been closed
  isStopped,     \* m_isStopped
  iosStopped,    \* m_ios.stop() was called
  connected,     \* clients whose connection is in the listen queue or was taken
  service,       \* the Service of a client: "none", "reading", "writing" or
                 \*   "deleted"
  op,            \* its operation: "none", "pending", "ok" or "failed" (queued)
  answered,      \* clients whose response was sent
  late,          \* history: Services created after m_isStopped was set
  server,        \* the owner: "running", in Stop at "stopping" or "joining",
                 \*   "stopped" when Stop has returned
  worker         \* where a thread is, with which client and result

vars == <<accept, acceptErrors, acceptorOpen, isStopped, iosStopped, connected,
          service, op, answered, late, server, worker>>

acceptVars  == <<accept, acceptErrors, acceptorOpen, connected>>
serviceVars == <<service, op, answered, late>>
stopVars    == <<isStopped, iosStopped, server>>

IdleWorker == [at |-> "run", client |-> NoClient, result |-> "ok"]

TypeOK ==
  /\ accept \in {"none", "pending", "failed"} \cup Clients
  /\ acceptErrors \in 0 .. MaxAcceptErrors
  /\ acceptorOpen \in BOOLEAN /\ isStopped \in BOOLEAN /\ iosStopped \in BOOLEAN
  /\ connected \subseteq Clients /\ answered \subseteq Clients
  /\ service \in [Clients -> {"none", "reading", "writing", "deleted"}]
  /\ op \in [Clients -> {"none", "pending", "ok", "failed"}]
  /\ late \in Nat
  /\ server \in {"running", "stopping", "joining", "stopped"}
  /\ worker \in [Workers ->
       [at : {"run", "accept", "check", "init", "service", "exited"},
        client : Clients \cup {NoClient}, result : {"ok", "failed"}]]
  /\ \A w \in Workers :
       worker[w].at \in {"accept", "service"} => worker[w].client \in Clients

\* The state in which Server::Start leaves the server.
Init ==
  /\ accept = "pending" /\ acceptErrors = 0 /\ acceptorOpen = TRUE
  /\ isStopped = FALSE /\ iosStopped = FALSE
  /\ connected = {} /\ answered = {}
  /\ service = [c \in Clients |-> "none"]
  /\ op = [c \in Clients |-> "none"]
  /\ late = 0
  /\ server = "running"
  /\ worker = [w \in Workers |-> IdleWorker]

At(w, place) == worker[w].at = place
Goto(w, place) == worker' = [worker EXCEPT ![w].at = place]
Idle(w) == worker' = [worker EXCEPT ![w] = IdleWorker]

-----------------------------------------------------------------------------
(* Clients, the kernel and m_ios (external)                                *)

ClientConnects(c) ==
  /\ c \notin connected /\ server # "stopped"
  /\ connected' = connected \cup {c}
  /\ UNCHANGED <<accept, acceptErrors, acceptorOpen, serviceVars, stopVars,
                 worker>>

AcceptSucceeds(c) ==
  /\ accept = "pending" /\ server # "stopped"
  /\ c \in connected /\ service[c] = "none"
  /\ accept' = c
  /\ UNCHANGED <<acceptErrors, acceptorOpen, connected, serviceVars, stopVars,
                 worker>>

AcceptFails ==
  /\ accept = "pending" /\ server # "stopped"
  /\ acceptErrors < MaxAcceptErrors
  /\ accept' = "failed"
  /\ acceptErrors' = acceptErrors + 1
  /\ UNCHANGED <<acceptorOpen, connected, serviceVars, stopVars, worker>>

\* The client sent its request, took the response, or is gone.
OpCompletes(c) ==
  /\ op[c] = "pending" /\ server # "stopped"
  /\ \E result \in {"ok", "failed"} : op' = [op EXCEPT ![c] = result]
  /\ UNCHANGED <<acceptVars, service, answered, late, stopVars, worker>>

\* run() starts no handler after stop(), and returns.
Running(w) == At(w, "run") /\ ~iosStopped

\* onAccept(ec) makes no Service when the accept failed; the mutated form does.
FailureIgnored == [IdleWorker EXCEPT !.at = "accept"]
FailureNoted   == [IdleWorker EXCEPT !.at = "check"]

DispatchAccept(w) ==
  /\ Running(w)
  /\ accept \notin {"none", "pending"}
  /\ worker' = [worker EXCEPT ![w] =
       IF accept = "failed" THEN FailureNoted
       ELSE [at |-> "accept", client |-> accept, result |-> "ok"]]
  /\ accept' = "none"
  /\ UNCHANGED <<acceptErrors, acceptorOpen, connected, serviceVars, stopVars>>

DispatchService(w, c) ==
  /\ Running(w)
  /\ op[c] \in {"ok", "failed"}
  /\ worker' = [worker EXCEPT ![w] =
       [at |-> "service", client |-> c, result |-> op[c]]]
  /\ op' = [op EXCEPT ![c] = "none"]
  /\ UNCHANGED <<acceptVars, service, answered, late, stopVars>>

Exit(w) ==
  /\ At(w, "run") /\ iosStopped
  /\ Goto(w, "exited")
  /\ UNCHANGED <<acceptVars, serviceVars, stopVars>>

-----------------------------------------------------------------------------
(* Acceptor::onAccept                                                      *)

\* A Service is created and starts to read; from here on another thread may run
\* its handlers, and may have deleted it before this thread goes on.
StartService(w) ==
  LET c == worker[w].client IN
  /\ At(w, "accept")
  /\ service' = [service EXCEPT ![c] = "reading"]
  /\ op' = [op EXCEPT ![c] = "pending"]
  /\ late' = IF isStopped THEN late + 1 ELSE late
  /\ Goto(w, "check")
  /\ UNCHANGED <<acceptVars, answered, stopVars>>

\* Mutated forms: a failed accept returns at once; the flag is not read.
CheckOnlySuccess(w) ==
  IF worker[w].client = NoClient THEN Idle(w) ELSE Goto(w, "init")
Recheck(w) == Goto(w, "init")
NeverStopped == FALSE

StopSeen == isStopped   \* m_isStopped.load()

\* m_isStopped is read; Stop may set it before InitAccept.
CheckStopped(w) ==
  /\ At(w, "check")
  /\ ~StopSeen
  /\ Recheck(w)
  /\ UNCHANGED <<acceptVars, serviceVars, stopVars>>

InitAccept(w) ==
  /\ At(w, "init")
  /\ accept' = "pending"
  /\ Idle(w)
  /\ UNCHANGED <<acceptErrors, acceptorOpen, connected, serviceVars, stopVars>>

CloseAcceptor(w) ==
  /\ At(w, "check")
  /\ StopSeen
  /\ acceptorOpen' = FALSE
  /\ Idle(w)
  /\ UNCHANGED <<accept, acceptErrors, connected, serviceVars, stopVars>>

-----------------------------------------------------------------------------
(* Service                                                                 *)

InService(w, stage) ==
  At(w, "service") /\ service[worker[w].client] = stage

\* The request is processed (ProcessRequest) and the response is written.
RequestReceived(w) ==
  LET c == worker[w].client IN
  /\ InService(w, "reading") /\ worker[w].result = "ok"
  /\ service' = [service EXCEPT ![c] = "writing"]
  /\ op' = [op EXCEPT ![c] = "pending"]
  /\ Idle(w)
  /\ UNCHANGED <<acceptVars, answered, late, stopVars>>

NotDeleted(w) == service   \* mutated form: onFinish is forgotten

\* onFinish: delete this, and with it the last reference to the socket.
Deleted(w) == [service EXCEPT ![worker[w].client] = "deleted"]

\* Mutated form: the return after onFinish is missing.
OpAfterFinishRunsOn(w) == [op EXCEPT ![worker[w].client] = "pending"]
OpAfterFinish(w) == op

RequestFails(w) ==
  /\ InService(w, "reading") /\ worker[w].result = "failed"
  /\ service' = Deleted(w)
  /\ op' = OpAfterFinish(w)
  /\ Idle(w)
  /\ UNCHANGED <<acceptVars, answered, late, stopVars>>

ResponseSent(w) ==
  LET c == worker[w].client IN
  /\ InService(w, "writing")
  /\ answered' = IF worker[w].result = "ok" THEN answered \cup {c} ELSE answered
  /\ service' = Deleted(w)
  /\ Idle(w)
  /\ UNCHANGED <<acceptVars, op, late, stopVars>>

-----------------------------------------------------------------------------
(* Server::Stop                                                            *)

StopAcceptor ==
  /\ server = "running"
  /\ isStopped' = TRUE
  /\ server' = "stopping"
  /\ UNCHANGED <<acceptVars, serviceVars, iosStopped, worker>>

IosRunsOn == iosStopped   \* mutated form: m_ios.stop() is missing
IosStops == TRUE

StopIos ==
  /\ server = "stopping"
  /\ iosStopped' = IosStops
  /\ server' = "joining"
  /\ UNCHANGED <<acceptVars, serviceVars, isStopped, worker>>

NoneJoined == TRUE        \* mutated form: the threads are not joined
AllJoined == \A w \in Workers : At(w, "exited")

StopReturns ==
  /\ server = "joining" /\ AllJoined
  /\ server' = "stopped"
  /\ UNCHANGED <<acceptVars, serviceVars, isStopped, iosStopped, worker>>

-----------------------------------------------------------------------------

OwnerStep == StopAcceptor \/ StopIos \/ StopReturns

WorkerStep(w) ==
  \/ DispatchAccept(w) \/ \E c \in Clients : DispatchService(w, c)
  \/ StartService(w) \/ CheckStopped(w) \/ InitAccept(w) \/ CloseAcceptor(w)
  \/ RequestReceived(w) \/ RequestFails(w) \/ ResponseSent(w)
  \/ Exit(w)

\* The program goes on without the server.
Finished == server = "stopped" /\ UNCHANGED vars

Next ==
  \/ OwnerStep
  \/ \E w \in Workers : WorkerStep(w)
  \/ \E c \in Clients : ClientConnects(c) \/ AcceptSucceeds(c) \/ OpCompletes(c)
  \/ AcceptFails
  \/ Finished

Spec == Init /\ [][Next]_vars

\* The threads are scheduled, Stop goes on once it was called, and the kernel
\* hands out the connections in its queue.  Clients do nothing in particular.
Scheduling ==
  /\ \A w \in Workers : WF_vars(WorkerStep(w))
  /\ WF_vars(StopIos \/ StopReturns)
  /\ \A c \in Clients : WF_vars(AcceptSucceeds(c))

LiveSpec == Spec /\ Scheduling

\* Every client sends its request and takes the response, or goes away.
ClientsGoOn == \A c \in Clients : WF_vars(OpCompletes(c))

-----------------------------------------------------------------------------
(* Properties                                                              *)

Accepting(w) == worker[w].at \in {"accept", "check", "init"}
Serving(w, c) == At(w, "service") /\ worker[w].client = c

\* While the acceptor is open exactly one async_accept is outstanding or has its
\* handler running: a failed accept does not end the chain, no two threads use
\* m_acceptor at once, and none is started on a closed acceptor.
AcceptChain ==
  Cardinality({w \in Workers : Accepting(w)}) + (IF accept = "none" THEN 0 ELSE 1)
    = IF acceptorOpen THEN 1 ELSE 0

\* At most one operation or handler of a Service exists at any time, and none
\* once it has deleted itself, although every handler captured a raw pointer.
ServiceOwned ==
  \A c \in Clients :
    Cardinality({w \in Workers : Serving(w, c)}) + (IF op[c] = "none" THEN 0 ELSE 1)
      = IF service[c] \in {"reading", "writing"} THEN 1 ELSE 0

\* After m_isStopped was set at most one more connection gets a Service, however
\* the threads interleave with Stop.
LateServices == late <= 1

\* Stop returns, whatever the clients do.
StopTerminates == server = "stopping" ~> server = "stopped"

\* Every connection is taken, unless the server is stopped first.
ConnectedIsTaken ==
  \A c \in Clients : c \in connected ~> service[c] # "none" \/ isStopped

\* If the clients send and read, or leave, every Service deletes itself, unless the
\* server is stopped first.
ServiceEnds ==
  ClientsGoOn =>
    \A c \in Clients : service[c] = "reading" ~> service[c] = "deleted" \/ isStopped

-----------------------------------------------------------------------------
(* The server implements ConnectionServer.                                 *)

Status(c) ==
  CASE service[c] = "none" -> "waiting"
    [] service[c] = "deleted" -> IF c \in answered THEN "answered" ELSE "dropped"
    [] OTHER -> "serving"

Connections == INSTANCE ConnectionServer WITH
  status <- [c \in Clients |-> Status(c)],
  up <- server # "stopped"

ImplementsConnections == Connections!Spec
=============================================================================
