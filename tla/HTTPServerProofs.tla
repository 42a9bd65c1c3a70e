-------------------------- MODULE HTTPServerProofs --------------------------
(***************************************************************************)
(* Proofs about HTTPServer, for every set of clients and whatever requests *)
(* they may send.  The parts of the inductive invariant:                   *)
(*                                                                         *)
(*   TypeOK        types                                                   *)
(*   ServiceOwned  one operation per Service, on every path                *)
(*   Passed        which checks the request of a Service has passed, or    *)
(*                 failed, where the Service is                            *)
(***************************************************************************)
EXTENDS HTTPServer, TLAPS

\* code names a fault of the request of c, or is 200 and there is none.
Explains(code, c) ==
  IF Faults(request[c]) = {} THEN code = 200 ELSE code \in Faults(request[c])

PassedBy(c) ==
  /\ reading[c] = "full" => 413 \in Faults(request[c])
  /\ service[c] = "line" /\ reading[c] = "ok" => ~request[c].longLine
  /\ service[c] = "headers" =>
       ~request[c].longLine /\ request[c].get /\ request[c].version11
  /\ Headers(c) => request[c].headers = "some"
  /\ service[c] = "response" => Explains(status[c], c)
  /\ c \in sent => service[c] = "deleted" /\ Explains(status[c], c)

Passed == (\A c \in Clients : PassedBy(c)) /\ CrashExplained

-----------------------------------------------------------------------------
(* What the operators of the model return                                  *)

\* Every status that a handler passes to send_response has an entry in
\* http_status_table: at() never throws.
LEMMA StatusTableComplete ==
  /\ DOMAIN StatusTable = {200, 404, 413, 500, 501, 505}
  /\ \A c \in Clients :
       request[c] \in RequestKinds /\ request[c].target # "erroneous" =>
         ResourceStatus(c) \in {200, 404, 500}
<1>1. DOMAIN StatusTable = {200, 404, 413, 500, 501, 505}
  BY DEF StatusTable
<1>2. ASSUME NEW c \in Clients,
             request[c] \in RequestKinds, request[c].target # "erroneous"
      PROVE  ResourceStatus(c) \in {200, 404, 500}
  BY <1>2 DEF ResourceStatus, RequestKinds
<1>3. QED
  BY <1>1, <1>2

\* The faults of a request one by one.
LEMMA FaultsOfRequest ==
  ASSUME NEW q \in RequestKinds
  PROVE  /\ Faults(q) \subseteq {404, 413, 500, 501, 505}
         /\ 404 \in Faults(q) <=> q.target = "missing"
         /\ 413 \in Faults(q) <=> q.longLine \/ q.headers = "long"
         /\ 500 \in Faults(q) <=> q.target = "unreadable"
         /\ 501 \in Faults(q) <=> ~q.get
         /\ 505 \in Faults(q) <=> ~q.version11
<1>1. Faults(q) \subseteq {404, 413, 500, 501, 505}
  <2> DEFINE IsFault(code) ==
        CASE code = 404 -> q.target = "missing"
          [] code = 413 -> q.longLine \/ q.headers = "long"
          [] code = 500 -> q.target = "unreadable"
          [] code = 501 -> ~q.get
          [] code = 505 -> ~q.version11
  <2>1. Faults(q) = {code \in {404, 413, 500, 501, 505} : IsFault(code)}
    BY DEF Faults
  <2> HIDE DEF IsFault
  <2>2. QED
    BY <2>1
<1> USE DEF RequestKinds
<1>2. 404 \in Faults(q) <=> q.target = "missing"
  BY DEF Faults
<1>3. 413 \in Faults(q) <=> q.longLine \/ q.headers = "long"
  BY DEF Faults
<1>4. 500 \in Faults(q) <=> q.target = "unreadable"
  BY DEF Faults
<1>5. 501 \in Faults(q) <=> ~q.get
  BY DEF Faults
<1>6. 505 \in Faults(q) <=> ~q.version11
  BY DEF Faults
<1>7. QED
  BY <1>1, <1>2, <1>3, <1>4, <1>5, <1>6

-----------------------------------------------------------------------------

\* Types: every status has an entry in the table, and every Service is in one of
\* its stages.
THEOREM TypeCorrect == Spec => []TypeOK
<1>1. Init => TypeOK
  BY StatusTableComplete DEF Init, TypeOK
<1>2. TypeOK /\ [Next]_vars => TypeOK'
  <2> SUFFICES ASSUME TypeOK, [Next]_vars PROVE TypeOK'
    OBVIOUS
  <2> USE StatusTableComplete DEF TypeOK
  <2>1. ASSUME Running, Stop
        PROVE  TypeOK'
    BY <2>1 DEF Stop
  <2>2. ASSUME NEW c \in Clients, Running, Accept(c)
        PROVE  TypeOK'
    BY <2>2 DEF Accept
  <2>3. ASSUME NEW c \in Clients, Running, Leave(c)
        PROVE  TypeOK'
    BY <2>3 DEF Leave
  <2>4. ASSUME NEW c \in Clients, Running, ReadCompletes(c)
        PROVE  TypeOK'
    BY <2>4 DEF ReadCompletes
  <2>5. ASSUME NEW c \in Clients, Running, WriteCompletes(c)
        PROVE  TypeOK'
    BY <2>5 DEF WriteCompletes
  <2>6. ASSUME NEW c \in Clients, Running, Drop(c)
        PROVE  TypeOK'
    BY <2>6 DEF Drop, ReadFailed
  <2>7. ASSUME NEW c \in Clients, Running, TooLarge(c)
        PROVE  TypeOK'
    BY <2>7 DEF TooLarge, RequestFull, SendResponse
  <2>8. ASSUME NEW c \in Clients, Running, NotGet(c)
        PROVE  TypeOK'
    BY <2>8 DEF NotGet, RequestLine, Reject, SendResponse
  <2>9. ASSUME NEW c \in Clients, Running, WrongVersion(c)
        PROVE  TypeOK'
    BY <2>9 DEF WrongVersion, RequestLine, Reject, SendResponse
  <2>10. ASSUME NEW c \in Clients, Running, ReadHeaders(c)
         PROVE  TypeOK'
    BY <2>10 DEF ReadHeaders, RequestLine
  <2>11. ASSUME NEW c \in Clients, Running, HeadersReceived(c)
         PROVE  TypeOK'
    <3>1. request[c] \in RequestKinds /\ request[c].target # "erroneous"
      BY <2>11, HTTPServerAssumption DEF HeadersReceived
    <3>2. ResourceStatus(c) \in {200, 404, 500}
      BY <3>1, StatusTableComplete
    <3>3. QED
      BY <2>11, <3>2 DEF HeadersReceived, Headers, SendResponse
  <2>12. ASSUME NEW c \in Clients, Running, ResourceFatal(c)
         PROVE  TypeOK'
    BY <2>12 DEF ResourceFatal, Headers
  <2>13. ASSUME NEW c \in Clients, Running, ResponseSent(c)
         PROVE  TypeOK'
    BY <2>13 DEF ResponseSent
  <2>14. CASE Finished \/ UNCHANGED vars
    BY <2>14 DEF Finished, vars
  <2>15. QED
    BY <2>1, <2>2, <2>3, <2>4, <2>5, <2>6, <2>7, <2>8, <2>9, <2>10, <2>11,
       <2>12, <2>13, <2>14
       DEF Next, PoolStep, ClientStep, Handler
<1>3. QED
  BY <1>1, <1>2, PTL DEF Spec

\* While a Service exists exactly one operation of it is outstanding or has its
\* handler queued, on every path through the error branches, and none is left when
\* it has deleted itself.
THEOREM ServiceOwnedHolds == Spec => []ServiceOwned
<1>1. Init => ServiceOwned
  BY DEF Init, ServiceOwned
<1>2. TypeOK /\ ServiceOwned /\ [Next]_vars => ServiceOwned'
  <2> SUFFICES ASSUME TypeOK, ServiceOwned, [Next]_vars PROVE ServiceOwned'
    OBVIOUS
  <2> USE DEF TypeOK, ServiceOwned, Running
  <2>1. ASSUME Running, Stop
        PROVE  ServiceOwned'
    BY <2>1 DEF Stop
  <2>2. ASSUME NEW c \in Clients, Running, Accept(c)
        PROVE  ServiceOwned'
    BY <2>2 DEF Accept
  <2>3. ASSUME NEW c \in Clients, Running, Leave(c)
        PROVE  ServiceOwned'
    BY <2>3 DEF Leave
  <2>4. ASSUME NEW c \in Clients, Running, ReadCompletes(c)
        PROVE  ServiceOwned'
    BY <2>4 DEF ReadCompletes
  <2>5. ASSUME NEW c \in Clients, Running, WriteCompletes(c)
        PROVE  ServiceOwned'
    BY <2>5 DEF WriteCompletes
  <2>6. ASSUME NEW c \in Clients, Running, Drop(c)
        PROVE  ServiceOwned'
    BY <2>6 DEF Drop, ReadFailed
  <2>7. ASSUME NEW c \in Clients, Running, TooLarge(c)
        PROVE  ServiceOwned'
    BY <2>7 DEF TooLarge, RequestFull, SendResponse
  <2>8. ASSUME NEW c \in Clients, Running, NotGet(c)
        PROVE  ServiceOwned'
    BY <2>8 DEF NotGet, RequestLine, Reject, SendResponse
  <2>9. ASSUME NEW c \in Clients, Running, WrongVersion(c)
        PROVE  ServiceOwned'
    BY <2>9 DEF WrongVersion, RequestLine, Reject, SendResponse
  <2>10. ASSUME NEW c \in Clients, Running, ReadHeaders(c)
         PROVE  ServiceOwned'
    BY <2>10 DEF ReadHeaders, RequestLine
  <2>11. ASSUME NEW c \in Clients, Running, HeadersReceived(c)
         PROVE  ServiceOwned'
    BY <2>11 DEF HeadersReceived, Headers, SendResponse
  <2>12. ASSUME NEW c \in Clients, Running, ResourceFatal(c)
         PROVE  ServiceOwned'
    BY <2>12 DEF ResourceFatal, Headers
  <2>13. ASSUME NEW c \in Clients, Running, ResponseSent(c)
         PROVE  ServiceOwned'
    BY <2>13 DEF ResponseSent
  <2>14. CASE Finished \/ UNCHANGED vars
    BY <2>14 DEF Finished, vars
  <2>15. QED
    BY <2>1, <2>2, <2>3, <2>4, <2>5, <2>6, <2>7, <2>8, <2>9, <2>10, <2>11,
       <2>12, <2>13, <2>14
       DEF Next, PoolStep, ClientStep, Handler
<1>3. QED
  BY TypeCorrect, <1>1, <1>2, PTL DEF Spec

\* A Service has checked what it decides on by the time it decides.
LEMMA PassedInvariant == Spec => []Passed
<1> USE HTTPServerAssumption
<1>1. Init => Passed
  BY DEF Init, Passed, PassedBy, Headers, CrashExplained
<1>2. TypeOK /\ ServiceOwned /\ Passed /\ [Next]_vars => Passed'
  <2> SUFFICES ASSUME TypeOK, ServiceOwned, Passed, [Next]_vars PROVE Passed'
    OBVIOUS
  <2>100. ASSUME NEW c \in Clients
          PROVE  /\ Faults(request[c]) \subseteq {404, 413, 500, 501, 505}
                 /\ 404 \in Faults(request[c]) <=> request[c].target = "missing"
                 /\ 413 \in Faults(request[c]) <=>
                      request[c].longLine \/ request[c].headers = "long"
                 /\ 500 \in Faults(request[c]) <=> request[c].target = "unreadable"
                 /\ 501 \in Faults(request[c]) <=> ~request[c].get
                 /\ 505 \in Faults(request[c]) <=> ~request[c].version11
    <3>1. request[c] \in RequestKinds
      BY DEF TypeOK
    <3>2. QED
      BY <3>1, FaultsOfRequest
  <2>101. ASSUME NEW c \in Clients, NEW code \in DOMAIN StatusTable, Running,
                 reading[c] # "none", Explains(code, c), SendResponse(c, code)
          PROVE  Passed'
    <3>1. request' = request /\ peer' = peer /\ sent' = sent
      BY <2>101 DEF SendResponse
    <3>2. CrashExplained'
      BY <2>101, <3>1 DEF SendResponse, Running, TypeOK, CrashExplained
    <3>3. ASSUME NEW d \in Clients PROVE PassedBy(d)'
      <4>1. PassedBy(d) /\ PassedBy(c)
        BY DEF Passed
      <4>2. service[c] \in {"line", "headers"} /\ c \notin sent
        BY <2>101, <4>1 DEF ServiceOwned, Running, PassedBy
      <4>3. CASE d = c
        BY <2>101, <3>1, <4>1, <4>2, <4>3
           DEF SendResponse, TypeOK, PassedBy, Headers, Explains
      <4>4. CASE d # c
        BY <2>101, <3>1, <4>1, <4>4
           DEF SendResponse, TypeOK, PassedBy, Headers, Explains
      <4>5. QED
        BY <4>3, <4>4
    <3>4. QED
      BY <3>2, <3>3 DEF Passed
  <2>102. ASSUME NEW c \in Clients, Headers(c)
          PROVE  Passes(request[c]) /\ Faults(request[c]) \subseteq {404, 500}
    <3>1. /\ service[c] = "headers" /\ request[c].headers = "some"
          /\ ~request[c].longLine /\ request[c].get /\ request[c].version11
      BY <2>102 DEF Headers, Passed, PassedBy
    <3>2. QED
      BY <2>100, <3>1 DEF Passes
  <2>1. ASSUME Running, Stop
        PROVE  Passed'
    BY <2>1
       DEF Stop, TypeOK, ServiceOwned, Running, Passed, PassedBy, Headers,
           Explains, CrashExplained
  <2>2. ASSUME NEW c \in Clients, Running, Accept(c)
        PROVE  Passed'
    BY <2>2
       DEF Accept, TypeOK, ServiceOwned, Running, Passed, PassedBy, Headers,
           Explains, CrashExplained
  <2>3. ASSUME NEW c \in Clients, Running, Leave(c)
        PROVE  Passed'
    BY <2>3
       DEF Leave, TypeOK, ServiceOwned, Running, Passed, PassedBy, Headers,
           Explains, CrashExplained
  <2>4. ASSUME NEW c \in Clients, Running, ReadCompletes(c)
        PROVE  Passed'
    BY <2>4, <2>100
       DEF ReadCompletes, TypeOK, ServiceOwned, Running, Passed, PassedBy,
           Headers, Explains, CrashExplained, FillsUp, EndTaken, RequestKinds
  <2>5. ASSUME NEW c \in Clients, Running, WriteCompletes(c)
        PROVE  Passed'
    BY <2>5
       DEF WriteCompletes, TypeOK, ServiceOwned, Running, Passed, PassedBy,
           Headers, Explains, CrashExplained
  <2>6. ASSUME NEW c \in Clients, Running, Drop(c)
        PROVE  Passed'
    BY <2>6
       DEF Drop, ReadFailed, TypeOK, ServiceOwned, Running, Passed, PassedBy,
           Headers, Explains, CrashExplained
  <2>7. ASSUME NEW c \in Clients, Running, TooLarge(c)
        PROVE  Passed'
    <3>1. Explains(413, c)
      BY <2>7 DEF TooLarge, Passed, PassedBy, Explains
    <3>2. QED
      BY <2>7, <2>101, <3>1, StatusTableComplete DEF TooLarge, RequestFull
  <2>8. ASSUME NEW c \in Clients, Running, NotGet(c)
        PROVE  Passed'
    <3>1. Explains(501, c)
      BY <2>8, <2>100 DEF NotGet, Explains
    <3>2. QED
      BY <2>8, <2>101, <3>1, StatusTableComplete DEF NotGet, RequestLine, Reject
  <2>9. ASSUME NEW c \in Clients, Running, WrongVersion(c)
        PROVE  Passed'
    <3>1. Explains(505, c)
      BY <2>9, <2>100 DEF WrongVersion, Explains
    <3>2. QED
      BY <2>9, <2>101, <3>1, StatusTableComplete
         DEF WrongVersion, RequestLine, Reject
  <2>10. ASSUME NEW c \in Clients, Running, ReadHeaders(c)
         PROVE  Passed'
    BY <2>10
       DEF ReadHeaders, RequestLine, TypeOK, ServiceOwned, Running, Passed,
           PassedBy, Headers, Explains, CrashExplained
  <2>11. ASSUME NEW c \in Clients, Running, HeadersReceived(c)
         PROVE  Passed'
    <3>1. request[c] \in RequestKinds /\ request[c].target # "erroneous"
      BY <2>11 DEF HeadersReceived, TypeOK
    <3>2. Explains(ResourceStatus(c), c)
      BY <2>11, <2>100, <2>102, <3>1
         DEF HeadersReceived, ResourceStatus, Explains, RequestKinds
    <3>3. ResourceStatus(c) \in DOMAIN StatusTable /\ reading[c] # "none"
      BY <2>11, <3>1, StatusTableComplete DEF HeadersReceived, Headers
    <3>4. QED
      BY <2>11, <2>101, <3>2, <3>3 DEF HeadersReceived
  <2>12. ASSUME NEW c \in Clients, Running, ResourceFatal(c)
         PROVE  Passed'
    <3>1. Passes(request[c]) /\ request[c].target \in {"erroneous", "filled"}
      BY <2>12, <2>102 DEF ResourceFatal
    <3>2. CrashExplained'
      BY <2>12, <3>1 DEF ResourceFatal, CrashExplained
    <3>3. QED
      BY <2>12, <3>2 DEF ResourceFatal, Passed, PassedBy, Headers, Explains
  <2>13. ASSUME NEW c \in Clients, Running, ResponseSent(c)
         PROVE  Passed'
    BY <2>13
       DEF ResponseSent, TypeOK, ServiceOwned, Running, Passed, PassedBy,
           Headers, Explains, CrashExplained
  <2>14. CASE Finished \/ UNCHANGED vars
    BY <2>14
       DEF Finished, vars, TypeOK, ServiceOwned, Running, Passed, PassedBy,
           Headers, Explains, CrashExplained
  <2>15. QED
    BY <2>1, <2>2, <2>3, <2>4, <2>5, <2>6, <2>7, <2>8, <2>9, <2>10, <2>11,
       <2>12, <2>13, <2>14
       DEF Next, PoolStep, ClientStep, Handler
<1>3. QED
  BY TypeCorrect, ServiceOwnedHolds, <1>1, <1>2, PTL DEF Spec

\* The status of a response that was sent names a fault of the request it answers,
\* and is 200 only if there is none.
THEOREM StatusExplainedHolds == Spec => []StatusExplained
<1>1. TypeOK /\ Passed => StatusExplained
  BY DEF TypeOK, Passed, PassedBy, Explains, StatusExplained
<1>2. QED
  BY TypeCorrect, PassedInvariant, <1>1, PTL

\* The process is terminated only if a client reset its connection, or if a request
\* that passed every check asked for a path on which exists() throws or for a
\* resource with content; a request that is rejected never is the cause.
THEOREM CrashExplainedHolds == Spec => []CrashExplained
<1>1. Passed => CrashExplained
  BY DEF Passed
<1>2. QED
  BY PassedInvariant, <1>1, PTL
=============================================================================
