----------------------------- MODULE HTTPServer -----------------------------
(***************************************************************************)
(* The Services of the HTTP server of 05-02-01-http_server.cpp, one per    *)
(* connection.  Its Acceptor, thread pool and Stop are those of 04-03-01,  *)
(* which AsyncTCPServer models thread by thread.  Here a handler is one    *)
(* step: Services share nothing but the process, which an exception in any *)
(* handler terminates.                                                     *)
(*                                                                         *)
(* A request is abstracted to what the handlers decide about it.           *)
(***************************************************************************)
EXTENDS Naturals, SequencesExt, TLC

CONSTANTS
  Clients,   \* clients; each connects once
  Requests   \* the requests they may send

\* A long line, or long headers, fill m_request (4096 bytes) before they end.  The
\* target is a path for which exists(path) throws, one where there is no file, a
\* file that cannot be opened, or one without or with content.
RequestKinds ==
  [longLine : BOOLEAN, get : BOOLEAN, version11 : BOOLEAN,
   headers : {"some", "none", "long"},
   target : {"erroneous", "missing", "unreadable", "empty", "filled"}]

ASSUME HTTPServerAssumption == Requests \subseteq RequestKinds

\* Mutated form: the last entry is missing.
StatusTableShort ==
  [code \in {200, 404, 413, 500, 501} |-> <<ToString(code), " ", "reason">>]

\* http_status_table: code and reason phrase, whose wording does not matter.
StatusTable ==
  [code \in {200, 404, 413, 500, 501, 505} |-> <<ToString(code), " ", "reason">>]

VARIABLES
  request,   \* the request a client sends
  peer,      \* its end of the connection: "there", "closed" or "reset"
  service,   \* its Service: "none", at the request "line", the "headers" or the
             \*   "response", "deleted"
  reading,   \* async_read_until: "none", "pending", or queued with "ok", "full"
             \*   (asio::error::not_found) or "failed"
  writing,   \* async_write: "none", "pending", or queued with "ok" or "failed"
  status,    \* m_response_status_code
  sent,      \* clients whose response was sent
  process    \* "running", "stopped" by Stop or "crashed"

vars == <<request, peer, service, reading, writing, status, sent, process>>

TypeOK ==
  /\ request \in [Clients -> Requests]
  /\ peer \in [Clients -> {"there", "closed", "reset"}]
  /\ service \in [Clients -> {"none", "line", "headers", "response", "deleted"}]
  /\ reading \in [Clients -> {"none", "pending", "ok", "full", "failed"}]
  /\ writing \in [Clients -> {"none", "pending", "ok", "failed"}]
  /\ status \in [Clients -> DOMAIN StatusTable]
  /\ sent \subseteq Clients
  /\ process \in {"running", "stopped", "crashed"}

Init ==
  /\ request \in [Clients -> Requests]
  /\ peer = [c \in Clients |-> "there"]
  /\ service = [c \in Clients |-> "none"]
  /\ reading = [c \in Clients |-> "none"]
  /\ writing = [c \in Clients |-> "none"]
  /\ status = [c \in Clients |-> 200]
  /\ sent = {}
  /\ process = "running"

Running == process = "running"

\* The response has a content, in m_resource_buffer, which nothing ever allocates.
NoBuffer(c) ==
  service[c] = "response" /\ status[c] = 200 /\ request[c].target = "filled"

-----------------------------------------------------------------------------
(* The clients and m_ios (external)                                        *)

\* A client closes its end, or resets the connection, possibly after closing.
Leave(c) ==
  /\ service[c] # "none"
  /\ \E how \in {"closed", "reset"} :
       /\ peer[c] \notin {how, "reset"}
       /\ peer' = [peer EXCEPT ![c] = how]
  /\ UNCHANGED <<request, service, reading, writing, status, sent, process>>

FillsUp(c) ==
  \/ service[c] = "line" /\ request[c].longLine
  \/ service[c] = "headers" /\ request[c].headers = "long"

\* on_request_line_received has taken the line with its CRLF.  Without headers one
\* CRLF is left, and read_until waits for two.
EndTaken(c) == service[c] = "headers" /\ request[c].headers = "none"

\* What was asked for arrives, or the client left before that.
ReadCompletes(c) ==
  /\ reading[c] = "pending"
  /\ \E result \in {"ok", "full", "failed"} :
       /\ result = "ok" => ~FillsUp(c) /\ ~EndTaken(c)
       /\ result = "full" => FillsUp(c)
       /\ result = "failed" => peer[c] # "there"
       /\ reading' = [reading EXCEPT ![c] = result]
  /\ UNCHANGED <<request, peer, service, writing, status, sent, process>>

\* A write fails if the client has left, or if a buffer of it is null.
WriteCompletes(c) ==
  /\ writing[c] = "pending"
  /\ \E result \in {"ok", "failed"} :
       /\ result = "ok" => ~NoBuffer(c)
       /\ result = "failed" => NoBuffer(c) \/ peer[c] # "there"
       /\ writing' = [writing EXCEPT ![c] = result]
  /\ UNCHANGED <<request, peer, service, reading, status, sent, process>>

-----------------------------------------------------------------------------
(* Acceptor and Server                                                     *)

Accept(c) ==
  /\ service[c] = "none"
  /\ service' = [service EXCEPT ![c] = "line"]
  /\ reading' = [reading EXCEPT ![c] = "pending"]
  /\ UNCHANGED <<request, peer, writing, status, sent, process>>

Stop ==
  /\ process' = "stopped"
  /\ UNCHANGED <<request, peer, service, reading, writing, status, sent>>

-----------------------------------------------------------------------------
(* What the handlers of a Service do                                       *)

\* send_response: shutdown throws if the client has reset the connection, at()
\* if the code has no entry; nothing catches what leaves m_ios.run().
SendResponse(c, code) ==
  /\ status' = [status EXCEPT ![c] = code]
  /\ reading' = [reading EXCEPT ![c] = "none"]
  /\ \/ /\ peer[c] = "reset" \/ code \notin DOMAIN StatusTable
        /\ process' = "crashed"
        /\ UNCHANGED <<service, writing>>
     \/ /\ code \in DOMAIN StatusTable
        /\ service' = [service EXCEPT ![c] = "response"]
        /\ writing' = [writing EXCEPT ![c] = "pending"]
        /\ UNCHANGED process
  /\ UNCHANGED <<request, peer, sent>>

\* error_check, any other error: on_finish, i.e. delete this.
ReadFailed(c) ==
  /\ reading' = [reading EXCEPT ![c] = "none"]
  /\ service' = [service EXCEPT ![c] = "deleted"]
  /\ UNCHANGED <<request, peer, writing, status, sent, process>>

Drop(c) ==
  /\ reading[c] = "failed"
  /\ ReadFailed(c)

\* Mutated form: not_found is treated like any other error.
RequestFullDropped(c) == ReadFailed(c)

RequestFull(c) == SendResponse(c, 413)

TooLarge(c) ==
  /\ reading[c] = "full"
  /\ RequestFull(c)

-----------------------------------------------------------------------------
(* The handlers                                                            *)

RequestLine(c) == service[c] = "line" /\ reading[c] = "ok"

\* Mutated form: the return is missing, the headers are read as well.
RejectRunsOn(c, code) ==
  /\ status' = [status EXCEPT ![c] = code]
  /\ service' = [service EXCEPT ![c] = "headers"]
  /\ writing' = [writing EXCEPT ![c] = "pending"]
  /\ reading' = [reading EXCEPT ![c] = "pending"]
  /\ UNCHANGED <<request, peer, sent, process>>

Reject(c, code) == SendResponse(c, code)

NotGet(c) ==
  /\ RequestLine(c)
  /\ ~request[c].get
  /\ Reject(c, 501)

WrongVersion(c) ==
  /\ RequestLine(c)
  /\ request[c].get /\ ~request[c].version11
  /\ Reject(c, 505)

ReadHeaders(c) ==
  /\ RequestLine(c)
  /\ request[c].get /\ request[c].version11
  /\ service' = [service EXCEPT ![c] = "headers"]
  /\ reading' = [reading EXCEPT ![c] = "pending"]
  /\ UNCHANGED <<request, peer, writing, status, sent, process>>

\* Mutated form: the first return is missing, a missing file cannot be opened.
ResourceStatusRunsOn(c) ==
  IF request[c].target \in {"missing", "unreadable"} THEN 500 ELSE 200

\* process_request, where it returns.
ResourceStatus(c) ==
  CASE request[c].target = "missing" -> 404
    [] request[c].target = "unreadable" -> 500
    [] request[c].target \in {"empty", "filled"} -> 200

Headers(c) == service[c] = "headers" /\ reading[c] = "ok"

HeadersReceived(c) ==
  /\ Headers(c)
  /\ request[c].target # "erroneous"
  /\ SendResponse(c, ResourceStatus(c))

\* process_request, where it does not return.  exists(path) throws on any error but
\* "not found", and nothing catches that; reading the content into the null
\* m_resource_buffer may end the process, too.
ResourceFatal(c) ==
  /\ Headers(c)
  /\ request[c].target \in {"erroneous", "filled"}
  /\ process' = "crashed"
  /\ UNCHANGED <<request, peer, service, reading, writing, status, sent>>

\* on_response_sent: shutdown may throw; then delete this.
ResponseSent(c) ==
  /\ writing[c] \in {"ok", "failed"}
  /\ \/ peer[c] = "reset" /\ process' = "crashed" /\ UNCHANGED <<service, writing, sent>>
     \/ /\ service' = [service EXCEPT ![c] = "deleted"]
        /\ sent' = IF writing[c] = "ok" THEN sent \cup {c} ELSE sent
        /\ writing' = [writing EXCEPT ![c] = "none"]
        /\ UNCHANGED process
  /\ UNCHANGED <<request, peer, reading, status>>

-----------------------------------------------------------------------------

Handler(c) ==
  \/ Drop(c) \/ TooLarge(c) \/ NotGet(c) \/ WrongVersion(c) \/ ReadHeaders(c)
  \/ HeadersReceived(c) \/ ResourceFatal(c) \/ ResponseSent(c)

PoolStep(c) == Running /\ Handler(c)
ClientStep(c) == Running /\ (ReadCompletes(c) \/ WriteCompletes(c))

Finished == ~Running /\ UNCHANGED vars

Next ==
  \/ Running /\ Stop
  \/ Running /\ \E c \in Clients : Accept(c) \/ Leave(c)
  \/ \E c \in Clients : PoolStep(c) \/ ClientStep(c)
  \/ Finished

Spec == Init /\ [][Next]_vars

\* The threads of the pool are scheduled.  Clients do nothing in particular.
LiveSpec == Spec /\ \A c \in Clients : WF_vars(PoolStep(c))

\* Every client sends its request and takes the response, or leaves.
ClientsGoOn == \A c \in Clients : WF_vars(ClientStep(c))

-----------------------------------------------------------------------------
(* Properties                                                              *)

\* While a Service exists exactly one operation of it is outstanding or has its
\* handler queued, on every path through the error branches; none is left when
\* it has deleted itself.
ServiceOwned ==
  process # "crashed" =>
    \A c \in Clients :
      /\ reading[c] # "none" <=> service[c] \in {"line", "headers"}
      /\ writing[c] # "none" <=> service[c] = "response"

\* What is wrong with a request.
Faults(q) ==
  {code \in {404, 413, 500, 501, 505} :
     CASE code = 404 -> q.target = "missing"
       [] code = 413 -> q.longLine \/ q.headers = "long"
       [] code = 500 -> q.target = "unreadable"
       [] code = 501 -> ~q.get
       [] code = 505 -> ~q.version11}

\* The status of a response that was sent names a fault of the request it
\* answers, and is 200 only if there is none.
StatusExplained ==
  \A c \in sent :
    IF Faults(request[c]) = {} THEN status[c] = 200
    ELSE status[c] \in Faults(request[c])

\* The checks of request line and headers let the request pass.
Passes(q) == ~q.longLine /\ q.get /\ q.version11 /\ q.headers = "some"

\* The process is terminated only if a client reset its connection, or if a request
\* that passed every check asked for a path on which exists() throws or for a
\* resource with content; a request that is rejected never is the cause.
CrashExplained ==
  process = "crashed" =>
    \E c \in Clients :
      \/ peer[c] = "reset"
      \/ Passes(request[c]) /\ request[c].target \in {"erroneous", "filled"}

\* The Service has deleted itself, and has sent its response before if the client
\* stayed; a resource with content is never sent.
Answered(c) ==
  /\ service[c] = "deleted"
  /\ \/ c \in sent \/ peer[c] # "there"
     \/ status[c] = 200 /\ request[c].target = "filled"

\* The client has sent all of a request that has no headers, and stays.
WaitsForMore(c) == EndTaken(c) /\ reading[c] = "pending" /\ peer[c] = "there"

\* If the clients send and read, or leave, every request is answered, a faulty one
\* too, and the Service ends.  Unless the server has ended before; and unless the
\* request has no headers and the client waits for the answer: the Service then
\* waits for ever.
RequestIsAnswered ==
  ClientsGoOn =>
    \A c \in Clients :
      service[c] = "line" ~> Answered(c) \/ ~Running \/ []WaitsForMore(c)

-----------------------------------------------------------------------------
(* The responses against the parser of the HTTP client, 05-01-01           *)

\* The status line, as a sequence of texts; blanks are texts of their own.
StatusLine(code) == <<"HTTP/1.1">> \o StatusTable[code] \o <<"\r\n">>

\* operator>>: the texts before the first blank.
FirstWord(line) ==
  SubSeq(line, 1, SelectInSeq(line, LAMBDA text : text = " ") - 1)

\* on_status_line_received rejects any other first word.
VersionRecognised(line) == FirstWord(line) = <<"HTTP/1.1">>

\* Every response that this server sends has a status line that the client of this
\* repository can parse.
ResponseUnderstood == \A c \in sent : VersionRecognised(StatusLine(status[c]))
=============================================================================
