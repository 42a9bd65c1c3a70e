----------------------------- MODULE HTTPClient -----------------------------
(***************************************************************************)
(* The asynchronous HTTP client of 05-01-01-http_client.cpp.  Application  *)
(* threads execute and cancel HTTPRequests, the one thread of HTTPClient   *)
(* runs their completion handlers, which walk a request through its        *)
(* stages: resolve, connect, write, status line, headers, body.            *)
(*                                                                         *)
(* Granularity.  m_cancel_mux is the only mutex of a request and no thread *)
(* waits for anything while it holds it: a section under it is one step.   *)
(* on_finish runs after the mutex was released, as a step of its own.      *)
(***************************************************************************)
EXTENDS Naturals, Sequences

CONSTANTS
  Requests,      \* the HTTPRequests; execute() is called once for each
  Users,         \* application threads
  Composed,      \* stages whose operation may need more than one transfer
  HeaderBlocks,  \* what servers send behind the status line, as far as it has
                 \*   arrived with the header block
  MaxCancels,    \* bound: calls of cancel() per request
  MaxPartials,   \* bound: intermediate transfers per request
  NoRequest

NetStages == {"connect", "write", "status", "headers", "body"}

ASSUME HTTPAssumption ==
  /\ NoRequest \notin Requests
  /\ Composed \subseteq NetStages
  /\ HeaderBlocks \subseteq Seq({"text", "\r", "\n"}) \ {<<>>}
  /\ MaxCancels \in Nat /\ MaxPartials \in Nat

Codes    == {"ok", "eof", "failed", "aborted", "invalid"}
Outcomes == {"none", "ok", "aborted", "failed"}

VARIABLES
  wasCancelled,  \* m_was_cancelled
  stage,         \* "new", "skipped" (cancelled before execute) or the stage
                 \*   whose operation was initiated last
  op,            \* that operation: "pending", "partial" between two transfers,
                 \*   a code once its handler is queued, "none" afterwards
  partials,      \* intermediate transfers so far (bounded)
  statusLine,    \* what on_status_line_received made of the status line
  block,         \* the header block that on_headers_received was given, or <<>>
  outcome,       \* what m_callback was told
  callbacks,     \* how often it was called
  cancels,       \* calls of cancel() so far (bounded)
  client,        \* "open" while m_work exists, then "closing", then "closed"
  user,          \* the request a thread reports from within execute(), if any
  io             \* where the thread of m_ios is, with which request and code

texts == <<statusLine, block>>
vars == <<wasCancelled, stage, op, partials, texts, outcome, callbacks,
          cancels, client, user, io>>

callerVars == <<wasCancelled, cancels, client, user>>
resultVars == <<outcome, callbacks>>

IdleIo == [at |-> "run", req |-> NoRequest, code |-> "ok"]

TypeOK ==
  /\ wasCancelled \in [Requests -> BOOLEAN]
  /\ stage \in [Requests -> NetStages \cup {"new", "skipped", "resolve"}]
  /\ op \in [Requests -> Codes \cup {"none", "pending", "partial"}]
  /\ partials \in [Requests -> 0 .. MaxPartials]
  /\ statusLine \in [Requests -> {"none", "valid", "invalid"}]
  /\ block \in [Requests -> HeaderBlocks \cup {<<>>}]
  /\ outcome \in [Requests -> Outcomes]
  /\ callbacks \in [Requests -> 0 .. 1]
  /\ cancels \in [Requests -> 0 .. MaxCancels]
  /\ client \in {"open", "closing", "closed"}
  /\ user \in [Users -> Requests \cup {NoRequest}]
  /\ io \in [at : {"run", "handler", "finish", "parsing", "exited", "crashed"},
             req : Requests \cup {NoRequest}, code : Codes]
  /\ io.at \in {"handler", "finish", "parsing"} => io.req \in Requests

Init ==
  /\ wasCancelled = [r \in Requests |-> FALSE]
  /\ stage = [r \in Requests |-> "new"]
  /\ op = [r \in Requests |-> "none"]
  /\ partials = [r \in Requests |-> 0]
  /\ statusLine = [r \in Requests |-> "none"]
  /\ block = [r \in Requests |-> <<>>]
  /\ outcome = [r \in Requests |-> "none"]
  /\ callbacks = [r \in Requests |-> 0]
  /\ cancels = [r \in Requests |-> 0]
  /\ client = "open"
  /\ user = [u \in Users |-> NoRequest]
  /\ io = IdleIo

\* An exception that leaves a handler terminates the process.
Alive == io.at # "crashed"

OutcomeOf(code) == IF code \in {"ok", "aborted"} THEN code ELSE "failed"

\* on_finish: m_callback is called with the request and the code.
Tell(r, code) ==
  /\ outcome' = [outcome EXCEPT ![r] = OutcomeOf(code)]
  /\ callbacks' = [callbacks EXCEPT ![r] = @ + 1]

-----------------------------------------------------------------------------
(* execute and cancel, on an application thread                            *)

Execute(u, r) ==
  /\ user[u] = NoRequest /\ client = "open"
  /\ stage[r] = "new" /\ ~wasCancelled[r]
  /\ stage' = [stage EXCEPT ![r] = "resolve"]
  /\ op' = [op EXCEPT ![r] = "pending"]
  /\ UNCHANGED <<partials, texts, resultVars, callerVars, io>>

\* cancel() came first: execute() itself reports operation_aborted.
ExecuteCancelled(u, r) ==
  /\ user[u] = NoRequest /\ client = "open"
  /\ stage[r] = "new" /\ wasCancelled[r]
  /\ stage' = [stage EXCEPT ![r] = "skipped"]
  /\ user' = [user EXCEPT ![u] = r]
  /\ UNCHANGED <<wasCancelled, op, partials, texts, resultVars, cancels,
                 client, io>>

ReportFromExecute(u) ==
  /\ user[u] # NoRequest
  /\ Tell(user[u], "aborted")
  /\ user' = [user EXCEPT ![u] = NoRequest]
  /\ UNCHANGED <<wasCancelled, stage, op, partials, texts, cancels, client,
                 io>>

CanSplit(r) == stage[r] \in Composed /\ partials[r] < MaxPartials

AfterCancelForgotten(r) == {op[r]}   \* mutated form: only the flag is set

\* m_resolver.cancel() and m_sock.cancel(): what the operation of r may become.
\* A resolution under way may run to its end; async_connect goes on with the
\* next endpoint if there is one; a transfer is aborted.  An operation whose
\* handler is queued, or that is between two transfers, is not affected.
AfterCancel(r) ==
  IF op[r] # "pending" THEN {op[r]}
  ELSE {"aborted"}
       \cup {c \in {"pending"} : stage[r] = "resolve"}
       \cup {c \in {"partial"} : stage[r] = "connect" /\ CanSplit(r)}

Cancel(u, r) ==
  /\ user[u] = NoRequest /\ cancels[r] < MaxCancels
  /\ wasCancelled' = [wasCancelled EXCEPT ![r] = TRUE]
  /\ cancels' = [cancels EXCEPT ![r] = @ + 1]
  /\ \E c \in AfterCancel(r) :
       /\ op' = [op EXCEPT ![r] = c]
       /\ partials' = [partials EXCEPT ![r] =
                         IF c = "partial" /\ op[r] = "pending" THEN @ + 1 ELSE @]
  /\ UNCHANGED <<stage, texts, resultVars, client, user, io>>

-----------------------------------------------------------------------------
(* HTTPClient::close, called once and not while an execute() is under way  *)

Close ==
  /\ client = "open"
  /\ \A u \in Users : user[u] = NoRequest
  /\ client' = "closing"
  /\ UNCHANGED <<wasCancelled, stage, op, partials, texts, resultVars,
                 cancels, user, io>>

Joined == io.at = "exited"

CloseReturns ==
  /\ client = "closing" /\ Joined
  /\ client' = "closed"
  /\ UNCHANGED <<wasCancelled, stage, op, partials, texts, resultVars,
                 cancels, user, io>>

-----------------------------------------------------------------------------
(* The servers, the kernel and m_ios (external)                            *)

Completions(r) ==
  IF stage[r] = "body" THEN {"eof", "failed"} ELSE {"ok", "failed"}

\* A pending operation ends; its handler is queued.
OpCompletes(r) ==
  /\ op[r] = "pending"
  /\ \E code \in Completions(r) : op' = [op EXCEPT ![r] = code]
  /\ UNCHANGED <<stage, partials, texts, resultVars, callerVars, io>>

\* One transfer of a composed operation ends (or one endpoint refuses): an
\* intermediate handler of the library's own is queued, ...
OpPartial(r) ==
  /\ op[r] = "pending" /\ CanSplit(r)
  /\ op' = [op EXCEPT ![r] = "partial"]
  /\ partials' = [partials EXCEPT ![r] = @ + 1]
  /\ UNCHANGED <<stage, texts, resultVars, callerVars, io>>

\* ... which starts the next transfer without a look at m_was_cancelled.
Resume(r) ==
  /\ io.at = "run" /\ op[r] = "partial"
  /\ op' = [op EXCEPT ![r] = "pending"]
  /\ UNCHANGED <<stage, partials, texts, resultVars, callerVars, io>>

Dispatch(r) ==
  /\ io.at = "run" /\ op[r] \in Codes
  /\ io' = [at |-> "handler", req |-> r, code |-> op[r]]
  /\ op' = [op EXCEPT ![r] = "none"]
  /\ UNCHANGED <<stage, partials, texts, resultVars, callerVars>>

OutOfWork == client # "open" /\ \A r \in Requests : op[r] = "none"

\* run() returns.
Exit ==
  /\ io.at = "run" /\ OutOfWork
  /\ io' = [io EXCEPT !.at = "exited"]
  /\ UNCHANGED <<stage, op, partials, texts, resultVars, callerVars>>

-----------------------------------------------------------------------------
(* The completion handlers: the thread is in the handler of r's stage      *)

InHandler(r) == io.at = "handler" /\ io.req = r
Succeeded(r) == InHandler(r) /\ io.code = "ok" /\ stage[r] # "body"

\* The handler leaves for on_finish(code) and initiates nothing.
GiveUp(r, code) ==
  /\ io' = [at |-> "finish", req |-> r, code |-> code]
  /\ UNCHANGED <<stage, op, partials, resultVars, callerVars>>

\* Mutated forms: the return after on_finish is missing; a failure is reported as
\* a cancellation.
FailureRunsOn(r) ==
  /\ io' = [at |-> "finish", req |-> r, code |-> io.code]
  /\ op' = [op EXCEPT ![r] = "pending"]
  /\ UNCHANGED <<stage, partials, resultVars, callerVars>>
FailureTakenForCancel(r) == GiveUp(r, "aborted")

Failure(r) == GiveUp(r, io.code)

HandlerFails(r) ==
  /\ InHandler(r) /\ io.code # "ok" /\ stage[r] # "body"
  /\ Failure(r)
  /\ UNCHANGED texts

\* on_request_sent: m_sock.shutdown throws when the server has already reset
\* the connection; nothing between run() and the thread's start catches it.
ShutdownThrows(r) ==
  /\ Succeeded(r) /\ stage[r] = "write"
  /\ io' = [io EXCEPT !.at = "crashed"]
  /\ UNCHANGED <<stage, op, partials, texts, resultVars, callerVars>>

RejectionRunsOn(r) ==                \* mutated form: the return is missing
  /\ stage' = [stage EXCEPT ![r] = "headers"]
  /\ op' = [op EXCEPT ![r] = "pending"]
  /\ io' = IdleIo
  /\ UNCHANGED <<partials, resultVars, callerVars>>
Rejection(r) == GiveUp(r, "invalid")

\* on_status_line_received: neither "HTTP/1.1" nor a number is recognised.
StatusLineRejected(r) ==
  /\ Succeeded(r) /\ stage[r] = "status"
  /\ statusLine' = [statusLine EXCEPT ![r] = "invalid"]
  /\ UNCHANGED block
  /\ Rejection(r)

\* Mutated form: no get() behind getline, the "\n" is left in the stream.
NextLineKeepsFeed(cr) == cr + 1

\* getline took the "\r", get() takes the character behind it, whatever it is.
NextLine(cr) == cr + 2

\* The loop of on_headers_received leaves at an empty line, or where nothing is
\* left.  If the text ends within a line, or get() finds nothing, the stream fails:
\* from then on getline leaves the last line in header, and the loop never ends.
LoopEnds(text) ==
  LET ends[p \in 1 .. Len(text) + 1] ==
        LET crs == {q \in p .. Len(text) : text[q] = "\r"}
            cr == CHOOSE q \in crs : \A other \in crs : q <= other
        IN IF crs = {} THEN p > Len(text)
           ELSE cr = p \/ (cr < Len(text) /\ ends[NextLine(cr)])
  IN ends[1]

ParsesHeaders(r, b) ==
  /\ Succeeded(r) /\ stage[r] = "headers"
  /\ block' = [block EXCEPT ![r] = b]

HeadersLoop(r) ==
  /\ \E b \in HeaderBlocks : ParsesHeaders(r, b) /\ ~LoopEnds(b)
  /\ io' = [io EXCEPT !.at = "parsing"]
  /\ UNCHANGED <<stage, op, partials, statusLine, resultVars, callerVars>>

\* What the handler of a successful stage does before it takes m_cancel_mux.
Prepared(r) ==
  /\ Succeeded(r)
  /\ \/ \E b \in HeaderBlocks : ParsesHeaders(r, b) /\ LoopEnds(b)
     \/ stage[r] # "headers" /\ UNCHANGED block
  /\ statusLine' = IF stage[r] = "status"
                     THEN [statusLine EXCEPT ![r] = "valid"] ELSE statusLine

HandlerFindsCancelled(r) ==
  /\ Prepared(r)
  /\ wasCancelled[r]
  /\ GiveUp(r, "aborted")

NextStage == [resolve |-> "connect", connect |-> "write", write |-> "status",
              status |-> "headers", headers |-> "body"]

MayContinue(r) == ~wasCancelled[r]

\* Not cancelled: the next operation is initiated under m_cancel_mux.
HandlerContinues(r) ==
  /\ Prepared(r)
  /\ MayContinue(r)
  /\ stage' = [stage EXCEPT ![r] = NextStage[@]]
  /\ op' = [op EXCEPT ![r] = "pending"]
  /\ io' = IdleIo
  /\ UNCHANGED <<partials, resultVars, callerVars>>

\* on_response_body_received: the end of the stream is the end of the body.
\* No look at m_was_cancelled.
BodyReceived(r) ==
  /\ InHandler(r) /\ stage[r] = "body"
  /\ GiveUp(r, IF io.code = "eof" THEN "ok" ELSE io.code)
  /\ UNCHANGED texts

Finish ==
  /\ io.at = "finish"
  /\ Tell(io.req, io.code)
  /\ io' = IdleIo
  /\ UNCHANGED <<stage, op, partials, texts, callerVars>>

-----------------------------------------------------------------------------

UserStep(u) ==
  /\ Alive
  /\ \/ \E r \in Requests : Execute(u, r) \/ ExecuteCancelled(u, r) \/ Cancel(u, r)
     \/ ReportFromExecute(u)

Handler(r) ==
  \/ HandlerFails(r) \/ ShutdownThrows(r) \/ StatusLineRejected(r)
  \/ HeadersLoop(r) \/ HandlerFindsCancelled(r) \/ HandlerContinues(r)
  \/ BodyReceived(r)

IoStep ==
  \/ \E r \in Requests : Resume(r) \/ Dispatch(r) \/ Handler(r)
  \/ Finish \/ Exit

\* The program goes on without the client, has been terminated, or its thread
\* spins in the header loop for ever.
Finished ==
  /\ client = "closed" \/ ~Alive \/ io.at = "parsing"
  /\ UNCHANGED vars

Next ==
  \/ \E u \in Users : UserStep(u)
  \/ IoStep
  \/ Alive /\ \E r \in Requests : OpCompletes(r) \/ OpPartial(r)
  \/ Alive /\ (Close \/ CloseReturns)
  \/ Finished

Spec == Init /\ [][Next]_vars

\* The threads are scheduled, and the operating system ends every resolution and
\* every connection attempt.  Nothing makes a server read or answer.
Scheduling ==
  /\ WF_vars(IoStep)
  /\ WF_vars(Alive /\ CloseReturns)
  /\ \A u \in Users : WF_vars(Alive /\ ReportFromExecute(u))
  /\ \A r \in Requests :
       WF_vars(Alive /\ stage[r] \in {"resolve", "connect"} /\ OpCompletes(r))

LiveSpec == Spec /\ Scheduling

\* Every server reads the request, and answers or closes the connection.
ServersAnswer == \A r \in Requests : WF_vars(Alive /\ OpCompletes(r))

-----------------------------------------------------------------------------
(* Properties                                                              *)

\* Success is reported only for a response read to the end of the stream behind a
\* valid status line and parsed headers; "cancelled by the user" only if cancel()
\* was called.
OutcomeJustified ==
  \A r \in Requests :
    /\ outcome[r] = "ok" =>
         statusLine[r] = "valid" /\ block[r] # <<>> /\ stage[r] = "body"
    /\ outcome[r] = "aborted" => wasCancelled[r]

Executed(r) == stage[r] # "new"

\* Once m_callback has been called, no operation, handler or thread refers to
\* the request any more, although every handler captured a raw pointer to it:
\* the callback may drop the last shared_ptr.
NothingAfterCallback ==
  \A r \in Requests :
    callbacks[r] > 0 =>
      /\ op[r] = "none" /\ io.req # r
      /\ \A u \in Users : user[u] # r

\* The header block is well formed: lines that are not empty, each ended by "\r\n",
\* and then an empty one.
WellFormed(text) ==
  \E e \in 1 .. Len(text) - 1 :
    /\ text[e] = "\r" /\ text[e + 1] = "\n"
    /\ \A i \in 1 .. e - 1 : text[i] = "\r" <=> text[i + 1] = "\n"
    /\ \A i \in 1 .. e - 1 : text[i] = "\r" => i > 1 /\ text[i - 1] = "text"

\* No exception has terminated the process, and no server has sent a malformed
\* header block, which may hold the one thread for ever.
Serving ==
  Alive /\ \A r \in Requests : block[r] # <<>> => WellFormed(block[r])

\* A cancelled request gets its callback although its server may never answer,
\* as long as the thread goes on and no transfer of the request was split.
CancelledIsReported ==
  \A r \in Requests :
    wasCancelled[r] /\ Executed(r)
      ~> callbacks[r] > 0 \/ ~Serving \/ (partials[r] > 0 /\ stage[r] # "connect")

\* If the servers answer, every executed request gets its callback, and close()
\* returns, as long as the thread goes on.
ExecutedIsReported ==
  ServersAnswer =>
    /\ \A r \in Requests : Executed(r) ~> callbacks[r] > 0 \/ ~Serving
    /\ client = "closing" ~> client = "closed" \/ ~Serving

\* The callback tells the caller of every failure, whatever the server does with
\* the connection.
FailureIsReported ==
  ServersAnswer => \A r \in Requests : Executed(r) ~> callbacks[r] > 0

-----------------------------------------------------------------------------
(* The client implements the abstract life cycle of requests.  A           *)
(* cancellation is noted at any time, and is not final: in the last stage  *)
(* it may come too late.                                                   *)

Status(r) ==
  CASE stage[r] = "new" -> "new"
    [] outcome[r] # "none" -> outcome[r]
    [] OTHER -> "active"

Lifecycle == INSTANCE RequestLifecycle WITH
  Cancellable <- {"new", "active", "ok", "aborted", "failed"},
  CancelIsFinal <- FALSE,
  status <- [r \in Requests |-> Status(r)],
  cancelled <- {r \in Requests : wasCancelled[r]},
  closed <- client = "closed"

ImplementsLifecycle == Lifecycle!Spec
=============================================================================
