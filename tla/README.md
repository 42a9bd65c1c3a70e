# A verification of the Boost.Asio study programs

The repository is a collection of about forty small programs, one per topic of
Boost.Asio, each in a namespace of its own with its own `main`. Most of them are
straight-line uses of one call. The programs with a logic of their own are the
clients and servers of chapters 3 to 5: threads, completion handlers, mutexes,
cancellation and shutdown. This directory holds TLA+ models of them, TLC
configurations that check the models on small instances, and proofs that TLAPS
checks for every value of the constants.

All source files are under `src/Boost.Asio Study/`; they are named here by their
number (03-03-01 is `03-03-01-multi_thread_async_tcp_client.cpp`).

## 1. Inventory

| Component | File | State it keeps | Operations | Hard behaviour |
|---|---|---|---|---|
| Asynchronous TCP client | 03-03-01 | `m_active_sessions` (id to Session), per Session `m_was_cancelled`, `m_ec`, `m_sock`; `m_work`, thread pool | `emulateLongComputationOp`, `cancelRequest`, `close`, three completion handlers, `onRequestComplete` | two kinds of mutexes in both orders, cancellation against completion, composed operations, draining |
| HTTP client | 05-01-01 | per request `m_was_cancelled`, socket, resolver, response; `m_work`, one I/O thread | `execute`, `cancel`, `close`, six completion handlers, `on_finish` | cancellation at every stage, raw `this` in handlers, exceptions in the I/O thread, parsing loops |
| Asynchronous TCP server | 04-03-01 | accept chain, `m_isStopped`, one self-deleting `Service` per connection, thread pool | `Start`, `Stop`, `onAccept`, `onRequestReceived`, `onResponseSent` | chain of accepts, lifetime of Services, Stop against queued handlers |
| HTTP server | 05-02-01 | as above, plus status code and resource of a request | as above, with a request line, headers, `process_request`, `send_response` | error paths that answer, exceptions in pool threads, agreement with the HTTP client |
| Iterative servers | 04-01-01, 05-04-01 (TLS) | `m_stop`, one thread | `Run`, `HandleClient`, `Stop` | Stop while blocked in accept or read |
| Parallel server | 04-02-01 | `m_stop`, a detached thread per connection | the same | threads that outlive the Server |
| Synchronous clients | 03-01-01, 05-03-01 (TLS), 03-02-01 (UDP) | a socket | one request, one response | what a server that stops or breaks off does to them; the UDP client shuts its socket down after the first response |
| Half-close pair | 02-08-01, 02-08-02 | two ends of a connection | send, shutdown, read to the end | end of stream as end of message, a peer that breaks off |
| Chunked transfers | 02-03 to 02-06 | buffer and count | a loop, or a chain of handlers | every byte once, however the chunks are cut; the fixed size |
| Cancellation, timers | 02-07-01, 06-02-01, 06-05-01 | one or two operations | cancel | cancel against completion |
| The rest | chapters 1, 2 (02-01, 02-02), 6 (06-01, 06-03, 06-04), `main.cpp` | none | single calls | none |

How they interact: an application thread calls a client's public operations; the
threads that run `m_ios.run()` call the completion handlers; handlers start the
next operation and finally call the application's callback. Shared state is
protected by `m_active_sessions_guard` and `m_cancel_guard` (03-03-01), by
`m_cancel_mux` (05-01-01), or by the rule that a `Service` has one operation at a
time (04-03-01, 05-02-01). A client program and a server program meet only
through a connection.

What makes each correct: *clients* - one callback per request, never success
after a cancellation that was noted in time, "cancelled" only when somebody
cancelled, nothing left behind by `close()`, every request reported in the end;
*servers* - exactly one outstanding accept, a Service that is used by one thread
at a time and never after it deleted itself, every connection ended, a `Stop`
that returns and after which nothing runs; *transfers* - every byte once and in
order, an end of the stream that means the end of the message, and no program that
waits for an end that does not come.

The hazards, each at its line, are in `PROJECT.json` with the properties that
watch them.

## 2. Modules

| Module | What it is |
|---|---|
| `RequestLifecycle` | abstract: what an asynchronous client promises about a request |
| `AsyncTCPClient` | 03-03-01, with its properties and the refinement of `RequestLifecycle` |
| `AsyncTCPClientProofs` | theorems about `AsyncTCPClient` |
| `HTTPClient` | 05-01-01, likewise |
| `HTTPClientProofs` | theorems about `HTTPClient` |
| `ConnectionServer` | abstract: what a server promises about a connection |
| `AsyncTCPServer` | 04-03-01, with its properties and the refinement of `ConnectionServer` |
| `AsyncTCPServerProofs` | theorems about `AsyncTCPServer` |
| `HTTPServer` | 05-02-01: the Services, and the status line against the parser of 05-01-01 |
| `HTTPServerProofs` | theorems about `HTTPServer` |
| `SyncConnection` | TCP connections as blocking calls see them (external) |
| `SyncTCPClient` | 03-01-01 and 05-03-01 |
| `SyncTCPServer` | 04-01-01, 05-04-01 and 04-02-01 |
| `SyncExchange` | the composition of the three, with its properties and the refinement of `ConnectionServer` |
| `SyncExchangeProofs` | theorems about `SyncExchange` |
| `StreamExchange` | 02-03-01, 02-04-01, 02-05-01, 02-06-01, 02-08-01, 02-08-02 |
| `StreamExchangeProofs` | theorems about `StreamExchange` |
| `SyncUDPClient` | 03-02-01 |
| `MCAsyncTCPClient`, `MCHTTPClient`, `MCAsyncTCPServer`, `MCHTTPServer`, `MCSyncExchange` | values of constants for TLC |

Operators whose comment says *mutated form* are not used by any specification.
Each is a variant of the definition that follows it, with a plausible mistake;
substituted for it, the property named in `PROJECT.json` fails. They document
which mistake each property guards against.

### AsyncTCPClient

A request is a Session object, i.e. one call of `emulateLongComputationOp`; `IdOf`
gives the id the caller passed, and ids may coincide. `stage` is `"registered"` once
the Session is in the map, and then the operation last initiated; `op` is what
became of it in `m_ios`: pending in the kernel, queued with a code, or `partial`,
when a composed operation (`async_write`, `async_read_until`) is between two
transfers. `user` and `worker` are program counters.

| Code | Actions |
|---|---|
| `emulateLongComputationOp` | `SubmitThrows`, or `Submit` (constructor, `open`, map insertion) then `Connect` (`async_connect`, unlocked) |
| `cancelRequest` | `CancelMiss`, or `CancelFind` (map locked) then `CancelMark` (Session locked, flag and `m_sock.cancel()`) |
| `close` | `Close` (`m_work.reset`) then `CloseReturns` (joins) |
| completion handlers | `Dispatch`, then `HandlerFails`, `HandlerFindsCancelled`, `HandlerContinues` or `ResponseReceived` |
| `onRequestComplete` | `CompleteErase` (shutdown, erase), then `Report` (final code, callback, release of `m_cancel_guard` if held) |
| library, peer | `OpCompletes`, `OpPartial`, `Resume`, `Exit` |

*Granularity.* A mutex is a variable only for as long as its owner waits for the
other one. A section that takes a mutex, waits for nothing and releases it is
one step, enabled while the mutex is free. The socket is used without a mutex in
`async_connect` (line 94) and `shutdown` (168) while `cancelRequest` may call
`cancel` on it; both orders are behaviours of the model. `m_was_cancelled` is
read unlocked at line 180; `CancelWins` says that this is harmless, because by
then the Session is out of the map and `cancelRequest` holds the map's mutex for
as long as it uses what it found there.

*What a cancellation can miss.* `m_sock.cancel()` aborts what is pending and nothing
else. `RunsOnOnlyInWindows` says where a marked Session still has an operation pending:
where it connects, because the mark came between the map insertion and the unlocked
`async_connect` (91, 94), or where a transfer was split. Both states are reached.
`OrphanOnlyByReuse` is an action property for the same reason that the run has one id
for both requests: with it a Session does get out of reach of `cancelRequest`, when a
later one overwrites its entry (91) or when the completion of the other erases it
(174), and the property ties the loss to that very step. `OlderKept`, an insertion that
keeps the entry of the earlier Session, breaks it in a step in which the new Session
is the one that cannot be found.

*Assumptions about the caller*, all met by `main`: `close()` is called once, not
while a request is being submitted, and nothing is submitted afterwards.
Cancelling is allowed at any time.

### HTTPClient

A request goes through the stages resolve, connect, write, status, headers, body;
`NextStage` is the chain of the handlers. `execute` is `Execute`, or
`ExecuteCancelled` and `ReportFromExecute` when `cancel()` came first. `Cancel`
sets the flag and changes the pending operation as `AfterCancel` says: a
resolution under way may still finish, `async_connect` goes on with the next
endpoint, a transfer is aborted, anything else is not affected. The handlers
are `HandlerFails`, `HandlerFindsCancelled`, `HandlerContinues`, and what is
particular to a stage: `ShutdownThrows` (line 265), `StatusLineRejected` (297,
309), `HeadersLoop` (343), `BodyReceived` (379). `Finish` is `on_finish`, a step
of its own because the mutex has been released.

`m_cancel_mux` needs no variable: no thread waits for anything while it holds it.
The status line is abstracted to the decision it leads to. An exception that
leaves a handler terminates the process (`crashed`), which stops every other
action.

The header block is kept as the sequence of its lines' parts: `"text"`, `"\r"` and
`"\n"`, since the loop of `on_headers_received` (343) depends on nothing else.
`LoopEnds` is what that loop does: `getline` up to `"\r"`, `get()` of whatever
follows, until a line is empty or nothing is left. Where `getline` or `get()` meets
the end of the text the stream fails, `header` keeps its last value and the loop
never ends; the one thread of the client is then lost to every request
(`parsing`). `WellFormed` is the reference, what a header block is meant to be, and
`ExecutedIsReported` connects the two: only a block that is not well formed may
keep the thread.

### AsyncTCPServer

`accept` is the one `async_accept`; `service` and `op` are a connection's Service
and its operation; `worker` says where a pool thread is: at the run loop, in
`onAccept` before the new Service (`accept`), before the look at `m_isStopped`
(`check`), before `InitAccept` (`init`), or in a handler of a Service. The load of
`m_isStopped` and `InitAccept` are separate steps because `Stop` may come
between. `Stop` is three steps: the flag, `m_ios.stop()`, the joins. After
`stop()` a thread finishes the handler it is in and starts no other. `late` is a
history variable for `LateServices`.

### HTTPServer

The Acceptor and Server of 05-02-01 are the code of 04-03-01, so here `Accept` and
`Stop` are single steps, and so is a handler: two Services share nothing but the
process. `service` is the handler a Service waits for, `reading` and `writing` are
its two kinds of operations, kept apart so that a Service with both at once would
show. `error_check` is `Drop` and `TooLarge`, the request line is `NotGet`,
`WrongVersion` or `ReadHeaders`, `process_request` is `ResourceStatus` within
`HeadersReceived`, and `ResponseSent` is the handler of the write.

An exception that leaves a handler ends the process: `shutdown` throws once the
client has reset the connection (123, 154), `at` for a code without
an entry, and `exists` (101) for a path that cannot be looked up, whose target is
`"erroneous"` (`ResourceFatal`). Line 117 reads into `m_resource_buffer`, which is
null: undefined behaviour, modelled as the two outcomes of the builds, a fault
(`ResourceFatal`, too) or a response whose write fails (`NoBuffer`). `CrashExplained`
names all causes, and that a request must have passed every check to be one.

A request has some headers, none, or more than fit. Behind a request line without
headers one CRLF is left when lines 41-43 have taken the other, and the
`read_until` of line 68 waits for two: the read never completes unless the client
leaves (`EndTaken`). `RequestIsAnswered` excepts this client, while it waits, and
the one that asked for a resource with content; every other one is answered, or has
left, and its Service has ended.

`StatusLine` keeps blanks as texts of their own; `FirstWord` and `VersionRecognised`
are the beginning of the client's `on_status_line_received`.

### SyncConnection, SyncTCPClient, SyncTCPServer, SyncExchange

Here every blocking call is a step: it is enabled when the call returns, and how it
returns is `ReadResults` or `WriteResults` of the connection. A read fails when the
connection is broken, or the peer has closed it and what is waited for will not
come; a write to a connection that is broken or closed may fail or go unnoticed.
`kind` is the server that runs; both TLS programs belong together, and so do the
others.

| Code | Actions |
|---|---|
| clients' `main` | `Connect`, `SendHello` and `ClientHandshake` (TLS), `SendRequest`, `ReceiveResponse`, `TCPClose` or `SSLClose`; whatever throws ends the client, "refused" before it was connected, "failed" afterwards |
| `Acceptor` | `LoopAcceptor`, `SSLAcceptor`, `ParallelAcceptor`: the constructor, or its exception |
| `Run` | `Test` of `m_stop`, `LoopAccept`, `SSLAccept`, `ParallelAccept`, `AcceptThrows`, `LeaveRun` |
| `HandleClient` | `ServerHandshake`, `ReadRequest`, `SendResponse`, on the accepting thread or (parallel) a detached one; `Catch` |
| `Stop`, `~Server`, end of `main` | `Stop`, `StopReturns`, `UseAfterDestruction`, `MainReturns` |
| network | `Break` |

Nothing catches an exception in the thread's function, so one of the constructor or
of `accept` ends the process (`Over`). The parallel server's `Stop` joins the
accepting thread only; between its return and the end of `main`, detached threads
use an `io_service` that has been destroyed. That is undefined behaviour:
`UseAfterDestruction` is a crash, and a handler that just goes on is the other
outcome. For the same reason `ConnectionServer!Stop` is mapped to the return of `Stop`
for the two iterative servers and to the end of the process for the parallel one;
the promise that nothing touches a connection after `Stop` is not kept by it.

### StreamExchange

The writers (02-03-01, 02-05-01) and the readers of a fixed size (02-04-01,
02-06-01) all connect: they are clients, and `kind` says which of them runs, against a
server that is not in the repository. `PeerReads` and `PeerFinishes` are the server of
a writer, which reads to the end of the stream; `PeerWrites` is that of a reader, which
writes a message of some size and closes. The sixth kind is the half-close pair
(02-08), two programs that belong together and whose readers wait for `error::eof`.

A byte is its number in the message. A stream is `written`, `wire`, `buffer` and
`read`, with `putting` and `getting` for bytes that a `write_some` or `read_some` has
moved and that the program has not yet added to its total; that is the step between
the call and `total_bytes_... +=` of a loop, or between the operation and its
handler of a chain. Chunks are cut anywhere. `main` of 02-05-01 never calls
`run()`: its write is initiated, the client ends, no handler runs, and what arrived by
then is all that arrives (`AsyncMainReturns`). `Kill` ends a program at any point,
`Break` breaks the connection; a socket closed with bytes left to read resets it.

The readers want exactly `MESSAGE_SIZE` bytes (7) and nothing says how long the message
of their server is, so sizes below, at and above 7 are all inputs.

### SyncUDPClient

Both calls of `main` through its one socket, datagrams that may be lost, and
`shutdown`, which on some systems refuses a socket that is not connected.

## 3. Runs

Each run asks one kind of question of one program, or of the programs of one
exchange.

| Run | Instance | Shows |
|---|---|---|
| `client_safety` | 2 requests under one id, 2 application threads, 2 workers, 2 cancellations per id, 1 short transfer per request | `TypeOK`, `CallbackAtMostOnce`, `CancelWins`, `OutcomeJustified`, `CloseDrains`, `CircularWaitNeedsRepeat`, `RunsOnOnlyInWindows`, `OrphanOnlyByReuse`, `ImplementsLifecycle` |
| `client_live` | 2 requests with ids of their own, 1 application thread, 2 workers, 1 cancellation per id, no short transfers | `CancelledIsReported`, `SubmittedIsReported`, `CloseTerminates`, no deadlock |
| `client_cancel_twice` | the same with 2 cancellations per id | violates `CancelledIsReported` |
| `client_cancel_partial` | the same with 1 cancellation and 1 short transfer | violates `CancelledIsReported` |
| `http_client` | 2 requests, 2 application threads, every operation may be split, 1 cancellation and 1 split per request; a well-formed header block and two spoiled ones, one of which the loop survives | `TypeOK`, `OutcomeJustified`, `NothingAfterCallback`, `ImplementsLifecycle`, `CancelledIsReported`, `ExecutedIsReported`, no deadlock |
| `http_shutdown_throws` | the same with 1 application thread and the well-formed block | violates `FailureIsReported` |
| `server` | 2 clients, 3 workers, 1 failing accept | `TypeOK`, `AcceptChain`, `ServiceOwned`, `LateServices`, `ImplementsConnections`, `StopTerminates`, `ConnectedIsTaken`, `ServiceEnds`, no deadlock |
| `http_server` | 2 clients, 11 kinds of requests: faultless ones, each fault, faults behind others, no headers, a path on which `exists` throws | `TypeOK`, `ServiceOwned`, `StatusExplained`, `CrashExplained`, `RequestIsAnswered`, no deadlock |
| `http_server_response` | the same | violates `ResponseUnderstood` |
| `sync_exchange` | 2 clients against each of the 3 servers, TLS with and without a common version | `TypeOK`, `FailureExplained`, `ImplementsConnections`, `StopTerminates`, `ClientIsServed` |
| `stream_exchange` | messages of 5, 6, 7 and 9 bytes, a response of 3, `MESSAGE_SIZE` 7, 4 bytes under way | `TypeOK`, `BytesInOrder`, `EofMeansWhole`, `ExchangeEnds`, no deadlock |
| `udp_second_call` | 2 servers | violates `EveryServerAnswers` |

*Deadlock* is checked where the system never stops. In `client_safety` the two
mutexes really can deadlock (see the findings), so there the deadlock is
characterised by `CircularWaitNeedsRepeat`, and `client_live` shows there is none
without a repeated cancellation. `sync_exchange` ends: with every program over, or
with a thread in `accept` that nobody will connect to, which `StopTerminates` names
as the one way in which `Stop` hangs. The other runs without the check are those
that look for one violation.

*Why the bounds are enough.* Requests meet only in the map, through a shared id, and
in the choice of a thread: two of them show every such meeting. A deadlock needs one
application thread and one worker; a second application thread adds concurrent
submission, cancellation and `close()`. Two cancellations are the least that can
deadlock; in the HTTP client, where no thread waits for another while it holds a
mutex, a second one repeats the first. `MaxPartials` counts how often an operation
is between two transfers; once is what a lost cancellation needs. `MaxAcceptErrors`
bounds only the environment. Two clients of the HTTP server show that an exception
in one Service ends the other, the only way they meet; of two clients of a
synchronous server one is served, or silent, while the other waits or has a thread
of its own. Messages of `stream_exchange` are shorter than what the reader wants,
just as long, and longer; a window smaller than a message makes the writer wait for
the reader. All safety properties of the passing runs, and the refinements, are also
proved without any bound (section 4). `client_safety` uses one id for both requests
because that is the more general caller; `client_live` uses an id per request, as
`main` does.

*Fairness.* Weak fairness of every thread that runs `m_ios.run()` (the operating
system schedules it, and no handler in these programs waits for an event other than
the two mutexes), of calls under way, and of name resolution and connection
attempts, which the operating system ends by itself. Nothing is assumed of a peer:
that it answers, or leaves, is the premise of the properties that need it
(`PeersAnswer` of the TCP client, `ServersAnswer` of the HTTP client, `ClientsGoOn`
of both asynchronous servers, `GoesOn` of one client in `SyncExchange`). Submitting,
cancelling, `close()` and `Stop()` are never assumed to happen. In `SyncExchange`
the accepting thread and every handler's thread are scheduled; that `accept` throws,
the network breaks a connection or a destroyed `io_service` is noticed is never
assumed. In `StreamExchange` the programs and the servers of the four clients run,
and a write to an end that was closed is answered by a reset, as TCP demands; there
the programs need no other premise, because a program that is killed closes its
socket. `SyncUDPClient` assumes that servers answer what they get, and its property
that nothing was lost.

`CancelledIsReported` of the HTTP client excuses a request whose transfers were
split, and both its liveness properties excuse an I/O thread that was lost to an
exception, or a server that has sent a malformed header block (`Serving`); the
first excuse corresponds to `client_cancel_partial`, the exception to
`http_shutdown_throws`.

### What the violation runs found

* `client_cancel_twice`: `cancelRequest` locks the map, then the Session (142,
  147); a handler that finds the flag set calls `onRequestComplete` with the
  Session locked, which locks the map (102, 105, 170). If `cancelRequest` is
  called again for the id between the handler's lock and the erasure, both wait
  for ever and, as the map stays locked, so does every other request. The
  handler "has been cancelled by the user." (205) is never told. `main` cancels
  once, so it does not meet this.
* `client_cancel_partial`: `m_sock.cancel()` aborts pending operations only.
  Between two transfers of a composed operation none is pending; the library
  starts the next one and, with a silent peer, no callback ever comes.
* `http_shutdown_throws`: `m_sock.shutdown(shutdown_send)` at line 265 is the
  throwing overload. If the server has reset the connection by then, the
  exception leaves the thread's function and the process is terminated; the
  " failed!" branch of the callback (455) is not reached.
* `http_server_response`: the server's status line is `HTTP/1.1` directly followed
  by the code (05-02-01, 127), the client wants the version as a word of its own
  (05-01-01, 296) and reports "Server response cannot be parsed." (35).
* `udp_second_call`: `receiveResponse` shuts the socket down (03-02-01, 32), so the
  second `send_to` of `main` (25) throws, and where the system refuses to shut down an
  unconnected socket already the first call does; "Response from the server #2
  received" (63) is never printed, although both servers answer.

## 4. Proofs

Every invariant, the action property and every refinement that a passing run checks
is also proved, for all values of the constants that satisfy the modules'
assumptions: any sets of requests, ids, clients and threads, any bounds on the
environment, messages and chunks of any size. There is a module of proofs for each
of the six systems. `ClientAssumption`, `HTTPAssumption`, `ServerAssumption`,
`HTTPServerAssumption` and `StreamAssumption` only say that the constants have their
types and that the values used for "none" name no request or client.

Each proof has the same shape: parts of an inductive invariant, each a lemma of its
own that uses the parts before it; one step per action; and the properties as
consequences. The parts are needed because no property is inductive as it stands.

### AsyncTCPClientProofs

* `OneThread`: a registered, unreported Session is in exactly one place - the
  application thread that is about to connect it, its operation in `m_ios`, or
  one worker. It gives `CallbackAtMostOnce`, and is what makes handlers of one
  Session exclude each other without a mutex. `Continues`: until it is reported it is in
  one of them.
* `LockOwners`: a worker owns a Session's mutex only while it completes that
  Session, after it saw the flag.
* `MapSound`: an entry of the map is a registered Session that has not been
  erased; the owner of the map's mutex in `cancelRequest` still finds its
  Session there. This is why `CancelMark` cannot come after the unlocked read of
  the flag, and gives `CancelWins`. `CancelWins` by itself says nothing of a Session
  that is marked while its handler is between the erasure and the callback;
  `MapSound` rules that state out.
* `NoOrphan` is proved step by step: only `Submit` and `CompleteErase` write to the
  map, and each names the other Session that the property asks for.
* `Windows`: `RunsOnOnlyInWindows`, with what it takes to keep it: an operation between
  two transfers has been split before. Every other operation is initiated by a handler
  that saw the flag unset, or aborted by the step that sets it: `RunsOn`.
* `CodesSound`: which codes a Session may have recorded, for `OutcomeJustified`.
* `CancelsCounted`: a handler holds the mutex only after a first cancellation, so
  a `cancelRequest` that waits for it is the second: `CircularWaitNeedsRepeat`.
* `Stopped`: once the threads have exited there is nothing left in `m_ios`, for
  `CloseDrains`.

### HTTPClientProofs

* `OneHolder`: a request is held by its operation, by the thread of `m_ios` or by an
  `execute()` that reports it; by none of them before it was executed or after it was
  reported. `TypeOK` and `OneHolder` are inductive only together: `callbacks` stays
  at most 1 because only the holder reports, and `NextStage` is applied only to a
  stage it is defined for because a held request is not new. It contains
  `NothingAfterCallback`.
* `CodesSound`: a handler that comes with `operation_aborted`, and a report of it, was
  preceded by `cancel()`; the body is read only behind a valid status line and parsed
  headers. It gives `OutcomeJustified`. `OneHolder` keeps the request's texts from
  changing after the report.
* `Continues`: an executed request that was not reported has a holder. `Closing`: the
  thread has exited only when nothing is left, and `close()` has returned only then.
  Together they give `CloseDrainsAll` - when `close()` has returned every executed
  request has been reported, which no run checks by itself - and the `Close` step of
  `Implementation`.

### AsyncTCPServerProofs

* `OneAccept`: while the acceptor is open the accept chain has exactly one link, the
  `async_accept` with its queued handler or one thread between two of them; none
  once it is closed. `AcceptChain` counts the same links, for which the proof needs
  `CardinalityOfOne`.
* `OneHandler`: a client whose socket is still in the accept chain has no Service;
  a Service that has not deleted itself has an operation or one thread in a handler,
  never both: `ServiceOwned`, for any number of threads. The first part keeps a
  Service from being created twice.
* `StopPhases`: what the flag, `m_ios.stop()` and the joins have set when, and that who
  was answered has a Service that deleted itself. With it nothing happens to a
  connection after the joins, and a Service is answered or dropped but once, as
  `Implementation` needs.
* `LateChain`: a Service created after the flag was set leaves its thread before the
  look at the flag, which ends the chain: `LateServices`.

`ServerAssumption` asks that no client is called "none", "pending" or "failed", the
values of `accept` that stand for no client.

### HTTPServerProofs

* `StatusTableComplete`: every code the handlers pass to `send_response` has an entry
  in `http_status_table`, so that `at()` never throws.
* `FaultsOfRequest`: what `Faults` contains, fault by fault.
* `Passed`: which checks the request of a Service has passed where the Service is -
  one that reads headers has a short, proper request line, one whose buffer is full
  is too large, a response that is being or was sent has a status that names a
  fault, or is 200 when there is none. It gives `StatusExplained` and `CrashExplained`
  for all combinations of faults, not only those of `MCRequests`. `ServiceOwned` is
  needed to know that a Service that answers has not answered before.

### SyncExchangeProofs

* `Threads`: the accepting thread is through when `Stop` returns; an iterative server
  has one client at a time. This places every end of a Service before the end of
  the server (`Implementation`); for the parallel server it holds up to the end of
  the process only, as said above.
* `Exchange`: an end of a connection is closed only by who is through with it, a
  response has only been sent to a request, and a Service that ended without one
  had a reason (`Excused`) that excuses the client as well; or the connection was
  never taken, and never will be (`Missed`). `FailureExplained` alone does not say why
  a server that closed its end has answered, nor that a queued connection stays
  queued once the acceptor is gone.

### StreamExchangeProofs

* `NumbersConcat`, `NumbersSplit`: adjacent stretches of the message make one, and one
  is cut into two. They rest on the sequence theorems of the library.
* `Counted`: what is stored is the stretch up to the bytes taken, what is under way
  the stretch from there to the bytes put, also between a transfer and its
  being counted. It gives `TypeOK` and `BytesInOrder`.
* `Phases`: a program that has shut down, or ended well, has written everything; a
  stream that is at its end was ended by such a program, by one that was killed, or
  the connection is broken. With `Counted` it gives `EofMeansWhole`.

### What stays with TLC

Liveness (`CancelledIsReported`, `SubmittedIsReported`, `ExecutedIsReported`,
`CloseTerminates`, `StopTerminates`, `ConnectedIsTaken`, `ServiceEnds`,
`RequestIsAnswered`, `ClientIsServed`, `ExchangeEnds`) and absence of deadlock, which
need fairness and ENABLED. What `LoopEnds` computes for every header block would take
induction over a recursive function; `HTTPClientProofs` holds whatever it is, and
TLC evaluates it for the blocks of `http_client`.

## 5. Not modelled

* In 03-03-01: the loop that creates the threads (its `unsigned char` counter
  never exceeds 255; `main` asks for 4), a pool of no threads, exceptions that unwind
  `main` past joinable threads, calls after `close()`.
* In 05-01-01: the texts of requests, status lines and bodies; `execute` called
  twice; an application that drops a request before its callback.
* In 04-03-01: exceptions of `listen`, of the thread constructor and of
  `m_acceptor.close()`; the Services that `Stop` abandons are visible as Services
  that stay where they are, and no property claims that they are deleted.
* In 05-02-01: `m_request_headers`, which nothing reads, the texts, and a file that
  changes while it is read. Its Acceptor and thread pool are single steps, which is
  why the component counts as partly modelled.
* In 04-01-01, 04-02-01, 05-04-01: the 60 seconds `main` waits (`Stop` comes at any
  time), and what a certificate says.
* In 02-03 to 02-06: `readFromSocketDelim` (no `main` calls it) and the enhanced
  variants, whose loops are the library's.
* In 03-02-01: duplicated datagrams and the size of a response.
* 02-07-01, 06-02-01, 06-05-01: one operation or two timers, and `cancel()`. The race of
  a cancellation with a completion is in both asynchronous clients, with locks and
  threads around it.
* Chapter 1 (endpoints, sockets, DNS, acceptors), 02-01 and 02-02 (buffers), the rest
  of chapter 6 (streams, options) and the menu in `main.cpp`: calls on local data, no
  state of their own.

## 6. Plan

1. Done: the models and runs of sections 2 and 3.
2. Done: the proofs of section 4, all safety properties and refinements.
3. Left: what follows for callers from the abstract specifications themselves
   (`RequestLifecycle`: outcomes are final; `ConnectionServer`: a connection ends
   once), proved there and carried over by the `Implementation` theorems.
