--------------------------- MODULE AsyncTCPClient ---------------------------
(***************************************************************************)
(* The multi-threaded asynchronous TCP client of                           *)
(* 03-03-01-multi_thread_async_tcp_client.cpp: application threads submit  *)
(* and cancel requests, the threads of m_threads run the completion        *)
(* handlers, m_active_sessions maps a request id to its Session, and two   *)
(* kinds of mutex order them: m_active_sessions_guard (one) and            *)
(* m_cancel_guard (one per Session).                                       *)
(*                                                                         *)
(* Granularity.  A thread keeps a mutex over several steps only where it   *)
(* waits for the other mutex meanwhile; a section that takes one mutex,    *)
(* never waits inside it and releases it is one step, enabled while the    *)
(* mutex is free.  Handlers run on any idle thread, in any order.          *)
(***************************************************************************)
EXTENDS Naturals

CONSTANTS
  Requests,     \* Session objects: one per call of emulateLongComputationOp
  Ids,          \* values of request_id
  IdOf,         \* the request_id the caller passes for each Session
  Users,        \* application threads that call the public operations
  Workers,      \* the threads of m_threads
  MaxCancels,   \* bound: calls of cancelRequest per id
  MaxPartials,  \* bound: short transfers of one composed operation
  NoRequest,    \* "no Session": a missing map entry
  Nobody        \* owner of a free mutex

ASSUME ClientAssumption ==
  /\ IdOf \in [Requests -> Ids]
  /\ Workers # {}
  /\ Users \cap Workers = {}
  /\ Nobody \notin Users \cup Workers
  /\ NoRequest \notin Requests
  /\ MaxCancels \in Nat /\ MaxPartials \in Nat

Codes    == {"ok", "aborted", "failed"}      \* error_code, by what handlers test
Stages   == {"registered",                   \* in the map, nothing initiated yet
             "connect", "write", "read"}     \* the operation last initiated
Outcomes == Codes \cup {"none"}

VARIABLES
  active,        \* m_active_sessions
  mapGuard,      \* owner of m_active_sessions_guard
  cancelGuard,   \* owner of every m_cancel_guard
  wasCancelled,  \* m_was_cancelled
  ec,            \* m_ec
  response,      \* m_response has been read
  sock,          \* m_sock: "none", "open" or "shut" (both directions)
  stage,         \* "new", "thrown" or the stage a registered Session is in
  op,            \* the Session's asynchronous operation in m_ios:
                 \*   "pending" in the kernel, "partial" between two transfers
                 \*   of a composed operation, a code: its handler is queued
  partials,      \* short transfers the Session has seen (bounded)
  outcome,       \* the code m_callback was last given
  callbacks,     \* how often m_callback was called
  cancels,       \* calls of cancelRequest so far, per id (bounded)
  work,          \* m_work keeps run() from returning
  user,          \* where an application thread is, and with which Session
  worker         \* where a thread of m_threads is, with which Session and code

vars == <<active, mapGuard, cancelGuard, wasCancelled, ec, response, sock,
          stage, op, partials, outcome, callbacks, cancels, work, user, worker>>

sessionVars == <<ec, response, sock, stage, partials, outcome, callbacks>>

UserAt   == {"idle", "connecting", "marking", "joining", "closed"}
WorkerAt == {"run", "handler", "complete", "report", "exited"}

IdleUser   == [at |-> "idle", req |-> NoRequest]
IdleWorker == [at |-> "run", req |-> NoRequest, code |-> "ok"]

TypeOK ==
  /\ active \in [Ids -> Requests \cup {NoRequest}]
  /\ mapGuard \in Users \cup {Nobody}
  /\ cancelGuard \in [Requests -> Workers \cup {Nobody}]
  /\ wasCancelled \in [Requests -> BOOLEAN]
  /\ ec \in [Requests -> Codes]
  /\ response \in [Requests -> BOOLEAN]
  /\ sock \in [Requests -> {"none", "open", "shut"}]
  /\ stage \in [Requests -> Stages \cup {"new", "thrown"}]
  /\ op \in [Requests -> Codes \cup {"none", "pending", "partial"}]
  /\ partials \in [Requests -> 0 .. MaxPartials]
  /\ outcome \in [Requests -> Outcomes]
  /\ callbacks \in [Requests -> Nat]
  /\ cancels \in [Ids -> 0 .. MaxCancels]
  /\ work \in BOOLEAN
  /\ user \in [Users -> [at : UserAt, req : Requests \cup {NoRequest}]]
  /\ worker \in [Workers -> [at : WorkerAt, code : Codes,
                             req : Requests \cup {NoRequest}]]
  /\ \A u \in Users :
       user[u].at \in {"connecting", "marking"} => user[u].req \in Requests
  /\ \A w \in Workers :
       worker[w].at \in {"handler", "complete", "report"} =>
         worker[w].req \in Requests

Init ==
  /\ active = [i \in Ids |-> NoRequest]
  /\ mapGuard = Nobody
  /\ cancelGuard = [r \in Requests |-> Nobody]
  /\ wasCancelled = [r \in Requests |-> FALSE]
  /\ ec = [r \in Requests |-> "ok"]
  /\ response = [r \in Requests |-> FALSE]
  /\ sock = [r \in Requests |-> "none"]
  /\ stage = [r \in Requests |-> "new"]
  /\ op = [r \in Requests |-> "none"]
  /\ partials = [r \in Requests |-> 0]
  /\ outcome = [r \in Requests |-> "none"]
  /\ callbacks = [r \in Requests |-> 0]
  /\ cancels = [i \in Ids |-> 0]
  /\ work = TRUE
  /\ user = [u \in Users |-> IdleUser]
  /\ worker = [w \in Workers |-> IdleWorker]

-----------------------------------------------------------------------------
(* emulateLongComputationOp                                                *)

Registered(r) == stage[r] \in Stages

\* The Session constructor or m_sock.open throws: nothing was registered.
SubmitThrows(u, r) ==
  /\ user[u].at = "idle" /\ work
  /\ stage[r] = "new"
  /\ stage' = [stage EXCEPT ![r] = "thrown"]
  /\ UNCHANGED <<active, mapGuard, cancelGuard, wasCancelled, ec, response,
                 sock, op, partials, outcome, callbacks, cancels, work, user,
                 worker>>

\* Mutated form: insert() instead of operator[] leaves an older Session in its place.
OlderKept(r) == [active EXCEPT ![IdOf[r]] = IF @ = NoRequest THEN r ELSE @]
Inserted(r) == [active EXCEPT ![IdOf[r]] = r]

\* The Session becomes reachable through the map (operator[] overwrites an
\* older Session of the same id) before its first operation is initiated.
Submit(u, r) ==
  /\ user[u].at = "idle" /\ work
  /\ stage[r] = "new"
  /\ mapGuard = Nobody
  /\ active' = Inserted(r)
  /\ sock' = [sock EXCEPT ![r] = "open"]
  /\ stage' = [stage EXCEPT ![r] = "registered"]
  /\ user' = [user EXCEPT ![u] = [at |-> "connecting", req |-> r]]
  /\ UNCHANGED <<mapGuard, cancelGuard, wasCancelled, ec, response, op,
                 partials, outcome, callbacks, cancels, work, worker>>

\* async_connect is initiated without holding any mutex, and without a look at
\* m_was_cancelled.
Connect(u) ==
  /\ user[u].at = "connecting"
  /\ stage' = [stage EXCEPT ![user[u].req] = "connect"]
  /\ op' = [op EXCEPT ![user[u].req] = "pending"]
  /\ user' = [user EXCEPT ![u] = IdleUser]
  /\ UNCHANGED <<active, mapGuard, cancelGuard, wasCancelled, ec, response, sock,
                 partials, outcome, callbacks, cancels, work, worker>>

-----------------------------------------------------------------------------
(* cancelRequest                                                           *)

\* The id is not in the map (never submitted, or already complete).
CancelMiss(u, i) ==
  /\ user[u].at = "idle" /\ cancels[i] < MaxCancels
  /\ mapGuard = Nobody
  /\ active[i] = NoRequest
  /\ cancels' = [cancels EXCEPT ![i] = @ + 1]
  /\ UNCHANGED <<active, mapGuard, cancelGuard, wasCancelled, sessionVars, op,
                 work, user, worker>>

FoundUnchecked(i) == TRUE           \* mutated form: end() is dereferenced
Found(i) == active[i] # NoRequest   \* it != m_active_sessions.end()

\* The Session is found; the map stays locked while the thread waits for the
\* Session's own mutex.
CancelFind(u, i) ==
  /\ user[u].at = "idle" /\ cancels[i] < MaxCancels
  /\ mapGuard = Nobody
  /\ Found(i)
  /\ mapGuard' = u
  /\ user' = [user EXCEPT ![u] = [at |-> "marking", req |-> active[i]]]
  /\ cancels' = [cancels EXCEPT ![i] = @ + 1]
  /\ UNCHANGED <<active, cancelGuard, wasCancelled, sessionVars, op, work,
                 worker>>

SockCancelForgotten(r) == op        \* mutated form: only the flag is set

\* m_sock.cancel(): a pending operation completes with operation_aborted; one
\* whose handler is already queued, or that is between two transfers, is not
\* affected.
SockCancel(r) == [op EXCEPT ![r] = IF @ = "pending" THEN "aborted" ELSE @]

CancelMark(u) ==
  LET r == user[u].req IN
  /\ user[u].at = "marking"
  /\ cancelGuard[r] = Nobody
  /\ wasCancelled' = [wasCancelled EXCEPT ![r] = TRUE]
  /\ op' = SockCancel(r)
  /\ mapGuard' = Nobody
  /\ user' = [user EXCEPT ![u] = IdleUser]
  /\ UNCHANGED <<active, cancelGuard, sessionVars, cancels, work, worker>>

-----------------------------------------------------------------------------
(* close                                                                   *)

\* m_work.reset(NULL).  As in main, close() is called once and not while a
\* request is being submitted; other threads may still cancel.
Close(u) ==
  /\ user[u].at = "idle" /\ work
  /\ \A v \in Users : user[v].at # "connecting"
  /\ work' = FALSE
  /\ user' = [user EXCEPT ![u] = [IdleUser EXCEPT !.at = "joining"]]
  /\ UNCHANGED <<active, mapGuard, cancelGuard, wasCancelled, sessionVars, op,
                 cancels, worker>>

NoneJoined == TRUE                  \* mutated form: the threads are detached
AllJoined == \A w \in Workers : worker[w].at = "exited"

CloseReturns(u) ==
  /\ user[u].at = "joining"
  /\ AllJoined
  /\ user' = [user EXCEPT ![u].at = "closed"]
  /\ UNCHANGED <<active, mapGuard, cancelGuard, wasCancelled, sessionVars, op,
                 cancels, work, worker>>

-----------------------------------------------------------------------------
(* The peer, the kernel and m_ios (external)                               *)

\* A pending operation ends; its handler is queued.
OpCompletes(r) ==
  /\ op[r] = "pending"
  /\ \E code \in {"ok", "failed"} : op' = [op EXCEPT ![r] = code]
  /\ UNCHANGED <<active, mapGuard, cancelGuard, wasCancelled, sessionVars,
                 cancels, work, user, worker>>

\* async_write and async_read_until are composed: a short transfer queues an
\* intermediate handler of the library's own.
OpPartial(r) ==
  /\ op[r] = "pending" /\ stage[r] \in {"write", "read"}
  /\ partials[r] < MaxPartials
  /\ op' = [op EXCEPT ![r] = "partial"]
  /\ partials' = [partials EXCEPT ![r] = @ + 1]
  /\ UNCHANGED <<active, mapGuard, cancelGuard, wasCancelled, ec, response,
                 sock, stage, outcome, callbacks, cancels, work, user, worker>>

\* That handler starts the next transfer, without a look at m_was_cancelled.
Resume(w, r) ==
  /\ worker[w].at = "run"
  /\ op[r] = "partial"
  /\ op' = [op EXCEPT ![r] = "pending"]
  /\ UNCHANGED <<active, mapGuard, cancelGuard, wasCancelled, sessionVars,
                 cancels, work, user, worker>>

\* A queued completion handler starts on an idle thread.
Dispatch(w, r) ==
  /\ worker[w].at = "run"
  /\ op[r] \in Codes
  /\ worker' = [worker EXCEPT ![w] = [at |-> "handler", req |-> r,
                                      code |-> op[r]]]
  /\ op' = [op EXCEPT ![r] = "none"]
  /\ UNCHANGED <<active, mapGuard, cancelGuard, wasCancelled, sessionVars,
                 cancels, work, user>>

\* run() returns on every thread when m_work is gone and nothing is left to do.
NeverOutOfWork == FALSE             \* mutated form: m_work is not reset
OutOfWork ==
  /\ ~work
  /\ \A r \in Requests : op[r] = "none"
  /\ \A w \in Workers : worker[w].at \in {"run", "exited"}

Exit(w) ==
  /\ worker[w].at = "run"
  /\ OutOfWork
  /\ worker' = [worker EXCEPT ![w].at = "exited"]
  /\ UNCHANGED <<active, mapGuard, cancelGuard, wasCancelled, sessionVars, op,
                 cancels, work, user>>

-----------------------------------------------------------------------------
(* The completion handlers and onRequestComplete                           *)

In(w, at) == worker[w].at = at
Goto(w, at) == worker' = [worker EXCEPT ![w].at = at]

\* Mutated forms: m_ec is not set; onRequestComplete is not called; the return
\* after it is missing.
ErrorDropped(w) == ec
NotCompleted(w) == worker' = [worker EXCEPT ![w] = IdleWorker]
HandlerFailsWithoutReturn(w) ==
  LET r == worker[w].req IN
  /\ In(w, "handler") /\ worker[w].code # "ok"
  /\ ec' = [ec EXCEPT ![r] = worker[w].code]
  /\ op' = [op EXCEPT ![r] = "pending"]
  /\ Goto(w, "complete")
  /\ UNCHANGED <<active, mapGuard, cancelGuard, wasCancelled, response, sock,
                 stage, partials, outcome, callbacks, cancels, work, user>>

\* The handler calls onRequestComplete and returns.
Complete(w) == Goto(w, "complete")

ErrorRecorded(w) == [ec EXCEPT ![worker[w].req] = worker[w].code]

\* Any handler that got an error records it and completes the request.
HandlerFails(w) ==
  /\ In(w, "handler") /\ worker[w].code # "ok"
  /\ ec' = ErrorRecorded(w)
  /\ Complete(w)
  /\ UNCHANGED <<active, mapGuard, cancelGuard, wasCancelled, response, sock,
                 stage, op, partials, outcome, callbacks, cancels, work, user>>

\* Mutated forms: no look at the flag; the test is inverted.
FlagIgnored(r) == FALSE
FlagInverted(r) == ~wasCancelled[r]

SeesCancelled(r) == wasCancelled[r]

\* The connect and write handlers look at m_was_cancelled under
\* m_cancel_guard, and still hold it when they call onRequestComplete.
HandlerFindsCancelled(w) ==
  LET r == worker[w].req IN
  /\ In(w, "handler") /\ worker[w].code = "ok"
  /\ stage[r] \in {"connect", "write"}
  /\ cancelGuard[r] = Nobody
  /\ SeesCancelled(r)
  /\ cancelGuard' = [cancelGuard EXCEPT ![r] = w]
  /\ Complete(w)
  /\ UNCHANGED <<active, mapGuard, wasCancelled, sessionVars, op, cancels,
                 work, user>>

\* Not cancelled: the next operation is initiated under m_cancel_guard.
HandlerContinues(w) ==
  LET r == worker[w].req IN
  /\ In(w, "handler") /\ worker[w].code = "ok"
  /\ stage[r] \in {"connect", "write"}
  /\ cancelGuard[r] = Nobody
  /\ ~SeesCancelled(r)
  /\ stage' = [stage EXCEPT ![r] = IF @ = "connect" THEN "write" ELSE "read"]
  /\ op' = [op EXCEPT ![r] = "pending"]
  /\ worker' = [worker EXCEPT ![w] = IdleWorker]
  /\ UNCHANGED <<active, mapGuard, cancelGuard, wasCancelled, ec, response,
                 sock, partials, outcome, callbacks, cancels, work, user>>

\* The read handler takes the line; it looks at no flag and takes no mutex.
ResponseReceived(w) ==
  LET r == worker[w].req IN
  /\ In(w, "handler") /\ worker[w].code = "ok"
  /\ stage[r] = "read"
  /\ response' = [response EXCEPT ![r] = TRUE]
  /\ Complete(w)
  /\ UNCHANGED <<active, mapGuard, cancelGuard, wasCancelled, ec, sock, stage,
                 op, partials, outcome, callbacks, cancels, work, user>>

SessionErased(r) == [active EXCEPT ![IdOf[r]] = NoRequest]

\* onRequestComplete, up to the release of m_active_sessions_guard: whatever
\* Session the map holds under this id is erased.
CompleteErase(w) ==
  LET r == worker[w].req IN
  /\ In(w, "complete")
  /\ mapGuard = Nobody
  /\ sock' = [sock EXCEPT ![r] = "shut"]
  /\ active' = SessionErased(r)
  /\ Goto(w, "report")
  /\ UNCHANGED <<mapGuard, cancelGuard, wasCancelled, ec, response, stage, op,
                 partials, outcome, callbacks, cancels, work, user>>

\* Mutated forms: the flag is ignored; every error is taken for a cancellation.
FinalCodeOfOperation(r) == ec[r]
FinalCodeAborted(r) == IF ec[r] # "ok" \/ wasCancelled[r] THEN "aborted" ELSE "ok"

FinalCode(r) == IF ec[r] = "ok" /\ wasCancelled[r] THEN "aborted" ELSE ec[r]

\* onRequestComplete, the rest: the callback, called with m_cancel_guard still
\* held if the handler took it; the handler returns and releases it.
Report(w) ==
  LET r == worker[w].req IN
  /\ In(w, "report")
  /\ outcome' = [outcome EXCEPT ![r] = FinalCode(r)]
  /\ callbacks' = [callbacks EXCEPT ![r] = @ + 1]
  /\ cancelGuard' = [cancelGuard EXCEPT ![r] = IF @ = w THEN Nobody ELSE @]
  /\ worker' = [worker EXCEPT ![w] = IdleWorker]
  /\ UNCHANGED <<active, mapGuard, wasCancelled, ec, response, sock, stage, op,
                 partials, cancels, work, user>>

-----------------------------------------------------------------------------

\* close() has returned and no other call is under way: the program goes on
\* without the client.
Finished ==
  /\ \E u \in Users : user[u].at = "closed"
  /\ \A u \in Users : user[u].at \in {"idle", "closed"}
  /\ UNCHANGED vars

UserStep(u) ==
  \/ \E r \in Requests : SubmitThrows(u, r) \/ Submit(u, r)
  \/ \E i \in Ids : CancelMiss(u, i) \/ CancelFind(u, i)
  \/ Connect(u) \/ CancelMark(u) \/ Close(u) \/ CloseReturns(u)

WorkerStep(w) ==
  \/ \E r \in Requests : Resume(w, r) \/ Dispatch(w, r)
  \/ HandlerFails(w) \/ HandlerFindsCancelled(w) \/ HandlerContinues(w)
  \/ ResponseReceived(w) \/ CompleteErase(w) \/ Report(w)
  \/ Exit(w)

Next ==
  \/ \E u \in Users : UserStep(u)
  \/ \E w \in Workers : WorkerStep(w)
  \/ \E r \in Requests : OpCompletes(r) \/ OpPartial(r)
  \/ Finished

Spec == Init /\ [][Next]_vars

\* Threads are scheduled, calls under way go on, and the operating system ends
\* every connection attempt.  Nothing makes the peer read or answer.
Scheduling ==
  /\ \A w \in Workers : WF_vars(WorkerStep(w))
  /\ \A u \in Users : WF_vars(Connect(u) \/ CancelMark(u) \/ CloseReturns(u))
  /\ \A r \in Requests : WF_vars(stage[r] = "connect" /\ OpCompletes(r))

LiveSpec == Spec /\ Scheduling

\* The peer reads, and answers or closes the connection.
PeersAnswer == \A r \in Requests : WF_vars(OpCompletes(r))

-----------------------------------------------------------------------------
(* Properties                                                              *)

\* m_callback is called at most once for a Session, however cancellation,
\* errors and handlers on several threads interleave.
CallbackAtMostOnce == \A r \in Requests : callbacks[r] <= 1

\* Once cancelRequest has marked a Session, that Session never reports success:
\* the flag cannot be set between the read of it in onRequestComplete (which
\* holds no mutex) and the callback.
CancelWins == \A r \in Requests : outcome[r] = "ok" => ~wasCancelled[r]

\* Success is reported only with a response, "cancelled by the user" only for a
\* Session that cancelRequest marked.
OutcomeJustified ==
  \A r \in Requests :
    /\ outcome[r] = "ok" => response[r]
    /\ outcome[r] = "aborted" => wasCancelled[r]

Erased(r) ==
  callbacks[r] > 0 \/ \E w \in Workers : worker[w].req = r /\ In(w, "report")

Outstanding(r) == Registered(r) /\ ~Erased(r)
Reachable(r) == active[IdOf[r]] = r

\* cancelRequest finds a Session from the moment it is registered until
\* onRequestComplete has erased it.  It gets out of reach earlier only in a step in
\* which another Session with the same id is registered or erased.
OrphanOnlyByReuse ==
  [][\A r \in Requests :
       Outstanding(r)' /\ ~Reachable(r)' =>
         \/ Registered(r) /\ ~Reachable(r)
         \/ \E q \in Requests \ {r} :
              /\ IdOf[q] = IdOf[r]
              /\ (~Registered(q) /\ Registered(q)') \/ (~Erased(q) /\ Erased(q)')]_vars

\* When close() returns, every submitted request has had its callback and the
\* map is empty.
CloseDrains ==
  (\E u \in Users : user[u].at = "closed") =>
    /\ \A r \in Requests : Registered(r) => callbacks[r] = 1
    /\ \A i \in Ids : active[i] = NoRequest

\* cancelRequest (map, then Session) waits for a handler that holds the Session's
\* mutex and waits for the map.
CircularWait(u, w) ==
  /\ user[u].at = "marking" /\ In(w, "complete")
  /\ cancelGuard[user[u].req] = w

\* The two mutexes are taken in both orders, but the threads can only wait for
\* each other when cancelRequest is called a second time for the same id.
CircularWaitNeedsRepeat ==
  \A u \in Users, w \in Workers :
    CircularWait(u, w) => cancels[IdOf[user[u].req]] >= 2

\* An operation of a marked Session is pending only where m_sock.cancel() came in
\* one of two windows: between the insertion into the map and async_connect (the
\* connection attempt then runs to its end), or between two transfers of a composed
\* operation.  Wherever else the mark falls, it aborts what is pending and the next
\* stage is not initiated.
RunsOnOnlyInWindows ==
  \A r \in Requests :
    wasCancelled[r] /\ op[r] = "pending" => stage[r] = "connect" \/ partials[r] > 0

\* A marked Session gets its callback although the peer may never answer.
CancelledIsReported == \A r \in Requests : wasCancelled[r] ~> callbacks[r] > 0

\* If the peers answer, every submitted request gets its callback and close()
\* returns.
SubmittedIsReported ==
  PeersAnswer => \A r \in Requests : Registered(r) ~> callbacks[r] > 0
CloseTerminates ==
  PeersAnswer => \A u \in Users : user[u].at = "joining" ~> user[u].at = "closed"

-----------------------------------------------------------------------------
(* The client implements the abstract life cycle of requests; a            *)
(* cancellation is taken note of while the Session is in the map, and is   *)
(* final.                                                                  *)

Status(r) ==
  CASE stage[r] = "new" -> "new"
    [] stage[r] = "thrown" -> "refused"
    [] OTHER -> IF outcome[r] = "none" THEN "active" ELSE outcome[r]

Lifecycle == INSTANCE RequestLifecycle WITH
  Cancellable <- {"active"},
  CancelIsFinal <- TRUE,
  status <- [r \in Requests |-> Status(r)],
  cancelled <- {r \in Requests : wasCancelled[r]},
  closed <- \E u \in Users : user[u].at = "closed"

ImplementsLifecycle == Lifecycle!Spec
=============================================================================
