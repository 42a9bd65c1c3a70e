-------------------------- MODULE HTTPClientProofs --------------------------
(***************************************************************************)
(* Proofs about HTTPClient, for every set of requests and application      *)
(* threads, whatever header blocks the servers send and for any bounds.    *)
(* The parts of the inductive invariant:                                   *)
(*                                                                         *)
(*   TypeOK      types; that a request is reported once needs OneHolder    *)
(*   OneHolder   a request is held by its operation, by the thread of      *)
(*               m_ios or by an execute() that reports it, and by none of  *)
(*               them once it was reported                                 *)
(*   Continues   ... and until then by one of them                         *)
(*   Closing     what is left to do when close() goes on                   *)
(*   CodesSound  where the code of a report comes from                     *)
(***************************************************************************)
EXTENDS HTTPClient, TLAPS

OneHolder ==
  /\ \A r \in Requests : op[r] # "none" =>
       stage[r] \notin {"new", "skipped"} /\ callbacks[r] = 0 /\ io.req # r
  /\ io.req \in Requests =>
       stage[io.req] \notin {"new", "skipped"} /\ callbacks[io.req] = 0
  /\ io.at \in {"run", "exited"} => io.req = NoRequest
  /\ \A u \in Users : user[u] # NoRequest =>
       stage[user[u]] = "skipped" /\ callbacks[user[u]] = 0 /\ wasCancelled[user[u]]
  /\ \A u, v \in Users : user[u] = user[v] /\ user[u] # NoRequest => u = v
  /\ \A r \in Requests : stage[r] = "new" => callbacks[r] = 0
  /\ \A r \in Requests : outcome[r] # "none" <=> callbacks[r] > 0

Continues ==
  \A r \in Requests : Executed(r) /\ callbacks[r] = 0 =>
    op[r] # "none" \/ io.req = r \/ \E u \in Users : user[u] = r

Closing ==
  /\ client # "open" => \A u \in Users : user[u] = NoRequest
  /\ io.at = "exited" => OutOfWork
  /\ client = "closed" => io.at = "exited"

CodesSound ==
  /\ OutcomeJustified
  /\ \A r \in Requests : stage[r] \in {"headers", "body"} => statusLine[r] = "valid"
  /\ \A r \in Requests : stage[r] = "body" => block[r] # <<>>
  /\ \A r \in Requests : op[r] = "aborted" => wasCancelled[r]
  /\ io.at \in {"handler", "finish"} /\ io.code = "aborted" => wasCancelled[io.req]
  /\ io.at = "finish" /\ io.code = "ok" => stage[io.req] = "body"

-----------------------------------------------------------------------------

\* Types, and who holds a request.  The two go together: a callback is counted once
\* because only the holder calls it, and a handler has a next stage because a
\* request that is held is not new.
LEMMA HolderInvariant == Spec => [](TypeOK /\ OneHolder)
<1> USE HTTPAssumption
<1>1. Init => TypeOK /\ OneHolder
  <2> SUFFICES ASSUME Init PROVE TypeOK /\ OneHolder
    OBVIOUS
  <2>1. io.at = "run" /\ io.req = NoRequest
    BY DEF Init, IdleIo
  <2>2. io \in [at : {"run", "handler", "finish", "parsing", "exited", "crashed"},
                req : Requests \cup {NoRequest}, code : Codes]
    BY DEF Init, IdleIo, Codes
  <2>3. TypeOK
    BY <2>1, <2>2 DEF Init, TypeOK, Codes, Outcomes
  <2>4. QED
    BY <2>1, <2>3 DEF Init, OneHolder
<1>2. TypeOK /\ OneHolder /\ [Next]_vars => TypeOK'
  <2> SUFFICES ASSUME TypeOK, OneHolder, [Next]_vars PROVE TypeOK'
    OBVIOUS
  <2> USE DEF TypeOK, Codes, Outcomes, NetStages, texts, callerVars, resultVars
  <2>100. ASSUME NEW r \in Requests, Prepared(r)
          PROVE  /\ block' \in [Requests -> HeaderBlocks \cup {<<>>}]
                 /\ statusLine' \in [Requests -> {"none", "valid", "invalid"}]
    <3>1. statusLine' = IF stage[r] = "status"
                          THEN [statusLine EXCEPT ![r] = "valid"] ELSE statusLine
      BY <2>100 DEF Prepared
    <3>2. block' = block \/ \E b \in HeaderBlocks : block' = [block EXCEPT ![r] = b]
      BY <2>100 DEF Prepared, ParsesHeaders
    <3>3. statusLine' \in [Requests -> {"none", "valid", "invalid"}]
      <4>1. CASE stage[r] = "status"
        BY <3>1, <4>1
      <4>2. CASE stage[r] # "status"
        BY <3>1, <4>2
      <4>3. QED
        BY <4>1, <4>2
    <3>4. block' \in [Requests -> HeaderBlocks \cup {<<>>}]
      <4>1. block \in [Requests -> HeaderBlocks \cup {<<>>}]
        OBVIOUS
      <4>2. CASE block' = block
        BY <4>1, <4>2
      <4>3. ASSUME NEW b \in HeaderBlocks, block' = [block EXCEPT ![r] = b]
            PROVE  block' \in [Requests -> HeaderBlocks \cup {<<>>}]
        BY <4>1, <4>3, Zenon
      <4>4. QED
        BY <3>2, <4>2, <4>3
    <3>5. QED
      BY <3>3, <3>4
  <2>1. ASSUME NEW u \in Users, NEW r \in Requests, Execute(u, r)
        PROVE  TypeOK'
    BY <2>1 DEF Execute
  <2>2. ASSUME NEW u \in Users, NEW r \in Requests, ExecuteCancelled(u, r)
        PROVE  TypeOK'
    BY <2>2 DEF ExecuteCancelled
  <2>3. ASSUME NEW u \in Users, ReportFromExecute(u)
        PROVE  TypeOK'
    BY <2>3 DEF ReportFromExecute, Tell, OneHolder, OutcomeOf
  <2>4. ASSUME NEW u \in Users, NEW r \in Requests, Cancel(u, r)
        PROVE  TypeOK'
    <3>1. PICK c \in AfterCancel(r) :
            /\ op' = [op EXCEPT ![r] = c]
            /\ partials' = [partials EXCEPT ![r] =
                IF c = "partial" /\ op[r] = "pending" THEN @ + 1 ELSE @]
      BY <2>4 DEF Cancel
    <3>2. c \in Codes \cup {"none", "pending", "partial"}
      <4>1. c \in {op[r], "aborted", "pending", "partial"}
        BY DEF AfterCancel
      <4>2. op[r] \in Codes \cup {"none", "pending", "partial"}
        OBVIOUS
      <4>3. QED
        BY <4>1, <4>2, Zenon
    <3>3. c = "partial" /\ op[r] = "pending" => partials[r] + 1 \in 0 .. MaxPartials
      BY DEF AfterCancel, CanSplit
    <3>4. op' \in [Requests -> Codes \cup {"none", "pending", "partial"}]
      BY <3>1, <3>2
    <3>5. partials' \in [Requests -> 0 .. MaxPartials]
      BY <3>1, <3>3
    <3>6. /\ wasCancelled' \in [Requests -> BOOLEAN]
          /\ cancels' \in [Requests -> 0 .. MaxCancels]
      BY <2>4 DEF Cancel
    <3>7. QED
      BY <2>4, <3>4, <3>5, <3>6 DEF Cancel
  <2>5. ASSUME Close
        PROVE  TypeOK'
    BY <2>5 DEF Close
  <2>6. ASSUME CloseReturns
        PROVE  TypeOK'
    BY <2>6 DEF CloseReturns, Joined
  <2>7. ASSUME NEW r \in Requests, OpCompletes(r)
        PROVE  TypeOK'
    BY <2>7 DEF OpCompletes, Completions
  <2>8. ASSUME NEW r \in Requests, OpPartial(r)
        PROVE  TypeOK'
    BY <2>8 DEF OpPartial, CanSplit
  <2>9. ASSUME NEW r \in Requests, Resume(r)
        PROVE  TypeOK'
    BY <2>9 DEF Resume
  <2>10. ASSUME NEW r \in Requests, Dispatch(r)
         PROVE  TypeOK'
    BY <2>10 DEF Dispatch
  <2>11. ASSUME Exit
         PROVE  TypeOK'
    BY <2>11 DEF Exit, OutOfWork
  <2>12. ASSUME NEW r \in Requests, HandlerFails(r)
         PROVE  TypeOK'
    BY <2>12 DEF HandlerFails, Failure, GiveUp, InHandler
  <2>13. ASSUME NEW r \in Requests, ShutdownThrows(r)
         PROVE  TypeOK'
    BY <2>13 DEF ShutdownThrows, Succeeded, InHandler
  <2>14. ASSUME NEW r \in Requests, StatusLineRejected(r)
         PROVE  TypeOK'
    BY <2>14 DEF StatusLineRejected, Rejection, GiveUp, Succeeded, InHandler
  <2>15. ASSUME NEW r \in Requests, HeadersLoop(r)
         PROVE  TypeOK'
    <3>1. PICK b \in HeaderBlocks : block' = [block EXCEPT ![r] = b]
      BY <2>15 DEF HeadersLoop, ParsesHeaders
    <3>2. block' \in [Requests -> HeaderBlocks \cup {<<>>}]
      BY <3>1
    <3>3. io.req = r /\ io' = [at |-> "parsing", req |-> r, code |-> io.code]
      BY <2>15 DEF HeadersLoop, ParsesHeaders, Succeeded, InHandler
    <3>4. QED
      BY <2>15, <3>2, <3>3 DEF HeadersLoop
  <2>16. ASSUME NEW r \in Requests, HandlerFindsCancelled(r)
         PROVE  TypeOK'
    <3>1. Prepared(r)
      BY <2>16 DEF HandlerFindsCancelled
    <3>2. /\ block' \in [Requests -> HeaderBlocks \cup {<<>>}]
          /\ statusLine' \in [Requests -> {"none", "valid", "invalid"}]
      BY <3>1, <2>100
    <3>3. io' = [at |-> "finish", req |-> r, code |-> "aborted"]
      BY <2>16 DEF HandlerFindsCancelled, GiveUp
    <3>4. UNCHANGED <<stage, op, partials, resultVars, callerVars>>
      BY <2>16 DEF HandlerFindsCancelled, GiveUp
    <3>5. QED
      BY <3>2, <3>3, <3>4
  <2>17. ASSUME NEW r \in Requests, HandlerContinues(r)
         PROVE  TypeOK'
    <3>1. Prepared(r)
      BY <2>17 DEF HandlerContinues
    <3>2. /\ block' \in [Requests -> HeaderBlocks \cup {<<>>}]
          /\ statusLine' \in [Requests -> {"none", "valid", "invalid"}]
      BY <3>1, <2>100
    <3>3. stage[r] \in {"resolve", "connect", "write", "status", "headers"}
      BY <2>17 DEF HandlerContinues, Prepared, Succeeded, InHandler, OneHolder
    <3>4. NextStage[stage[r]] \in NetStages
      BY <3>3 DEF NextStage
    <3>5. stage' \in [Requests -> NetStages \cup {"new", "skipped", "resolve"}]
      BY <2>17, <3>4 DEF HandlerContinues
    <3>6. QED
      BY <2>17, <3>2, <3>5 DEF HandlerContinues, IdleIo
  <2>18. ASSUME NEW r \in Requests, BodyReceived(r)
         PROVE  TypeOK'
    BY <2>18 DEF BodyReceived, GiveUp, InHandler
  <2>19. ASSUME Finish
         PROVE  TypeOK'
    BY <2>19 DEF Finish, Tell, OneHolder, OutcomeOf, IdleIo
  <2>20. CASE Finished \/ UNCHANGED vars
    BY <2>20 DEF Finished, vars
  <2>21. QED
    BY <2>1, <2>2, <2>3, <2>4, <2>5, <2>6, <2>7, <2>8, <2>9, <2>10, <2>11,
       <2>12, <2>13, <2>14, <2>15, <2>16, <2>17, <2>18, <2>19, <2>20
       DEF Next, UserStep, IoStep, Handler
<1>3. TypeOK /\ OneHolder /\ [Next]_vars => OneHolder'
  <2> SUFFICES ASSUME TypeOK, OneHolder, [Next]_vars PROVE OneHolder'
    OBVIOUS
  <2> USE DEF TypeOK, OneHolder, Codes, Outcomes, texts, callerVars, resultVars
  <2>1. ASSUME NEW u \in Users, NEW r \in Requests, Execute(u, r)
        PROVE  OneHolder'
    BY <2>1 DEF Execute
  <2>2. ASSUME NEW u \in Users, NEW r \in Requests, ExecuteCancelled(u, r)
        PROVE  OneHolder'
    BY <2>2 DEF ExecuteCancelled
  <2>3. ASSUME NEW u \in Users, ReportFromExecute(u)
        PROVE  OneHolder'
    BY <2>3 DEF ReportFromExecute, Tell, OutcomeOf
  <2>4. ASSUME NEW u \in Users, NEW r \in Requests, Cancel(u, r)
        PROVE  OneHolder'
    BY <2>4 DEF Cancel, AfterCancel, CanSplit
  <2>5. ASSUME Close
        PROVE  OneHolder'
    BY <2>5 DEF Close
  <2>6. ASSUME CloseReturns
        PROVE  OneHolder'
    BY <2>6 DEF CloseReturns, Joined
  <2>7. ASSUME NEW r \in Requests, OpCompletes(r)
        PROVE  OneHolder'
    BY <2>7 DEF OpCompletes, Completions
  <2>8. ASSUME NEW r \in Requests, OpPartial(r)
        PROVE  OneHolder'
    BY <2>8 DEF OpPartial, CanSplit
  <2>9. ASSUME NEW r \in Requests, Resume(r)
        PROVE  OneHolder'
    BY <2>9 DEF Resume
  <2>10. ASSUME NEW r \in Requests, Dispatch(r)
         PROVE  OneHolder'
    BY <2>10 DEF Dispatch
  <2>11. ASSUME Exit
         PROVE  OneHolder'
    BY <2>11 DEF Exit, OutOfWork
  <2>12. ASSUME NEW r \in Requests, HandlerFails(r)
         PROVE  OneHolder'
    BY <2>12 DEF HandlerFails, Failure, GiveUp, InHandler
  <2>13. ASSUME NEW r \in Requests, ShutdownThrows(r)
         PROVE  OneHolder'
    BY <2>13 DEF ShutdownThrows, Succeeded, InHandler
  <2>14. ASSUME NEW r \in Requests, StatusLineRejected(r)
         PROVE  OneHolder'
    BY <2>14 DEF StatusLineRejected, Rejection, GiveUp, Succeeded, InHandler
  <2>15. ASSUME NEW r \in Requests, HeadersLoop(r)
         PROVE  OneHolder'
    BY <2>15 DEF HeadersLoop, ParsesHeaders, Succeeded, InHandler
  <2>16. ASSUME NEW r \in Requests, HandlerFindsCancelled(r)
         PROVE  OneHolder'
    BY <2>16
       DEF HandlerFindsCancelled, Prepared, ParsesHeaders, GiveUp, Succeeded,
           InHandler
  <2>17. ASSUME NEW r \in Requests, HandlerContinues(r)
         PROVE  OneHolder'
    BY <2>17
       DEF HandlerContinues, Prepared, ParsesHeaders, MayContinue, NextStage,
           Succeeded, InHandler, IdleIo, NetStages
  <2>18. ASSUME NEW r \in Requests, BodyReceived(r)
         PROVE  OneHolder'
    BY <2>18 DEF BodyReceived, GiveUp, InHandler
  <2>19. ASSUME Finish
         PROVE  OneHolder'
    BY <2>19 DEF Finish, Tell, OutcomeOf, IdleIo
  <2>20. CASE Finished \/ UNCHANGED vars
    BY <2>20 DEF Finished, vars
  <2>21. QED
    BY <2>1, <2>2, <2>3, <2>4, <2>5, <2>6, <2>7, <2>8, <2>9, <2>10, <2>11,
       <2>12, <2>13, <2>14, <2>15, <2>16, <2>17, <2>18, <2>19, <2>20
       DEF Next, UserStep, IoStep, Handler
<1>4. QED
  BY <1>1, <1>2, <1>3, PTL DEF Spec

\* The variables keep their types; among them is the number of callbacks, which no
\* request gets more than once.
THEOREM TypeCorrect == Spec => []TypeOK
  BY HolderInvariant, PTL

\* Once m_callback was called nothing refers to the request any more: the raw
\* pointers that the handlers captured are good although the callback may drop the
\* last shared_ptr.
THEOREM NothingAfterCallbackHolds == Spec => []NothingAfterCallback
<1>1. TypeOK /\ OneHolder => NothingAfterCallback
  BY HTTPAssumption DEF TypeOK, OneHolder, NothingAfterCallback
<1>2. QED
  BY <1>1, HolderInvariant, PTL

-----------------------------------------------------------------------------

\* Success only behind a valid status line and a header block that was parsed,
\* operation_aborted only if cancel() was called.
LEMMA CodesInvariant == Spec => []CodesSound
<1> USE HTTPAssumption
<1>1. Init => CodesSound
  BY DEF Init, CodesSound, OutcomeJustified, IdleIo
<1>2. TypeOK /\ OneHolder /\ CodesSound /\ [Next]_vars => CodesSound'
  <2> SUFFICES ASSUME TypeOK, OneHolder, CodesSound, [Next]_vars PROVE CodesSound'
    OBVIOUS
  <2> USE DEF TypeOK, CodesSound, OutcomeJustified, texts, callerVars, resultVars
  <2>1. ASSUME NEW u \in Users, NEW r \in Requests, Execute(u, r)
        PROVE  CodesSound'
    BY <2>1 DEF Execute
  <2>2. ASSUME NEW u \in Users, NEW r \in Requests, ExecuteCancelled(u, r)
        PROVE  CodesSound'
    BY <2>2 DEF ExecuteCancelled
  <2>3. ASSUME NEW u \in Users, ReportFromExecute(u)
        PROVE  CodesSound'
    BY <2>3 DEF ReportFromExecute, Tell, OneHolder, OutcomeOf
  <2>4. ASSUME NEW u \in Users, NEW r \in Requests, Cancel(u, r)
        PROVE  CodesSound'
    BY <2>4 DEF Cancel, AfterCancel, CanSplit
  <2>5. ASSUME Close
        PROVE  CodesSound'
    BY <2>5 DEF Close
  <2>6. ASSUME CloseReturns
        PROVE  CodesSound'
    BY <2>6 DEF CloseReturns, Joined
  <2>7. ASSUME NEW r \in Requests, OpCompletes(r)
        PROVE  CodesSound'
    BY <2>7 DEF OpCompletes, Completions
  <2>8. ASSUME NEW r \in Requests, OpPartial(r)
        PROVE  CodesSound'
    BY <2>8 DEF OpPartial, CanSplit
  <2>9. ASSUME NEW r \in Requests, Resume(r)
        PROVE  CodesSound'
    BY <2>9 DEF Resume
  <2>10. ASSUME NEW r \in Requests, Dispatch(r)
         PROVE  CodesSound'
    BY <2>10 DEF Dispatch
  <2>11. ASSUME Exit
         PROVE  CodesSound'
    BY <2>11 DEF Exit, OutOfWork
  <2>12. ASSUME NEW r \in Requests, HandlerFails(r)
         PROVE  CodesSound'
    BY <2>12 DEF HandlerFails, Failure, GiveUp, InHandler
  <2>13. ASSUME NEW r \in Requests, ShutdownThrows(r)
         PROVE  CodesSound'
    BY <2>13 DEF ShutdownThrows, Succeeded, InHandler
  <2>14. ASSUME NEW r \in Requests, StatusLineRejected(r)
         PROVE  CodesSound'
    BY <2>14
       DEF StatusLineRejected, Rejection, GiveUp, Succeeded, InHandler,
           OneHolder
  <2>15. ASSUME NEW r \in Requests, HeadersLoop(r)
         PROVE  CodesSound'
    BY <2>15 DEF HeadersLoop, ParsesHeaders, Succeeded, InHandler, OneHolder
  <2>16. ASSUME NEW r \in Requests, HandlerFindsCancelled(r)
         PROVE  CodesSound'
    BY <2>16
       DEF HandlerFindsCancelled, Prepared, ParsesHeaders, GiveUp, Succeeded,
           InHandler, OneHolder
  <2>17. ASSUME NEW r \in Requests, HandlerContinues(r)
         PROVE  CodesSound'
    BY <2>17
       DEF HandlerContinues, Prepared, ParsesHeaders, MayContinue, NextStage,
           Succeeded, InHandler, OneHolder, IdleIo, NetStages
  <2>18. ASSUME NEW r \in Requests, BodyReceived(r)
         PROVE  CodesSound'
    BY <2>18 DEF BodyReceived, GiveUp, InHandler
  <2>19. ASSUME Finish
         PROVE  CodesSound'
    BY <2>19 DEF Finish, Tell, OneHolder, OutcomeOf, IdleIo
  <2>20. CASE Finished \/ UNCHANGED vars
    BY <2>20 DEF Finished, vars
  <2>21. QED
    BY <2>1, <2>2, <2>3, <2>4, <2>5, <2>6, <2>7, <2>8, <2>9, <2>10, <2>11,
       <2>12, <2>13, <2>14, <2>15, <2>16, <2>17, <2>18, <2>19, <2>20
       DEF Next, UserStep, IoStep, Handler
<1>3. QED
  BY <1>1, <1>2, HolderInvariant, PTL DEF Spec

\* What the callback is told is true, whatever the servers send and whenever the
\* request is cancelled.
THEOREM OutcomeIsJustified == Spec => []OutcomeJustified
<1>1. CodesSound => OutcomeJustified
  BY DEF CodesSound
<1>2. QED
  BY <1>1, CodesInvariant, PTL

-----------------------------------------------------------------------------

\* A request that was executed and is not reported has somebody to go on with it.
LEMMA ContinuesInvariant == Spec => []Continues
<1> USE HTTPAssumption
<1>1. Init => Continues
  BY DEF Init, Continues, Executed
<1>2. TypeOK /\ OneHolder /\ Continues /\ [Next]_vars => Continues'
  <2> SUFFICES ASSUME TypeOK, OneHolder, Continues, [Next]_vars PROVE Continues'
    OBVIOUS
  <2> USE DEF texts, callerVars, resultVars
  <2>1. ASSUME NEW u \in Users, NEW r \in Requests, Execute(u, r)
        PROVE  Continues'
    BY <2>1 DEF Execute, TypeOK, OneHolder, Continues, Executed
  <2>2. ASSUME NEW u \in Users, NEW r \in Requests, ExecuteCancelled(u, r)
        PROVE  Continues'
    BY <2>2 DEF ExecuteCancelled, TypeOK, OneHolder, Continues, Executed
  <2>3. ASSUME NEW u \in Users, ReportFromExecute(u)
        PROVE  Continues'
    BY <2>3 DEF ReportFromExecute, Tell, TypeOK, OneHolder, Continues, Executed
  <2>4. ASSUME NEW u \in Users, NEW r \in Requests, Cancel(u, r)
        PROVE  Continues'
    BY <2>4
       DEF Cancel, AfterCancel, CanSplit, TypeOK, OneHolder, Continues, Executed
  <2>5. ASSUME Close
        PROVE  Continues'
    BY <2>5 DEF Close, TypeOK, OneHolder, Continues, Executed
  <2>6. ASSUME CloseReturns
        PROVE  Continues'
    BY <2>6 DEF CloseReturns, Joined, TypeOK, OneHolder, Continues, Executed
  <2>7. ASSUME NEW r \in Requests, OpCompletes(r)
        PROVE  Continues'
    BY <2>7 DEF OpCompletes, Completions, TypeOK, OneHolder, Continues, Executed
  <2>8. ASSUME NEW r \in Requests, OpPartial(r)
        PROVE  Continues'
    BY <2>8 DEF OpPartial, CanSplit, TypeOK, OneHolder, Continues, Executed
  <2>9. ASSUME NEW r \in Requests, Resume(r)
        PROVE  Continues'
    BY <2>9 DEF Resume, TypeOK, OneHolder, Continues, Executed
  <2>10. ASSUME NEW r \in Requests, Dispatch(r)
         PROVE  Continues'
    <3>1. io.req = NoRequest /\ io'.req = r /\ op' = [op EXCEPT ![r] = "none"]
      BY <2>10 DEF Dispatch, OneHolder
    <3>2. UNCHANGED <<stage, callbacks, user>>
      BY <2>10 DEF Dispatch
    <3>3. ASSUME NEW q \in Requests, Executed(q), callbacks[q] = 0
          PROVE  op'[q] # "none" \/ io'.req = q \/ \E u \in Users : user[u] = q
      <4>1. CASE q = r
        BY <3>1, <4>1
      <4>2. CASE q # r
        BY <3>1, <3>3, <4>2, HTTPAssumption DEF TypeOK, Continues
      <4>3. QED
        BY <4>1, <4>2
    <3>4. QED
      BY <3>2, <3>3 DEF Continues, Executed
  <2>11. ASSUME Exit
         PROVE  Continues'
    BY <2>11 DEF Exit, OutOfWork, TypeOK, OneHolder, Continues, Executed
  <2>12. ASSUME NEW r \in Requests, HandlerFails(r)
         PROVE  Continues'
    BY <2>12
       DEF HandlerFails, Failure, GiveUp, InHandler, TypeOK, OneHolder,
           Continues, Executed
  <2>13. ASSUME NEW r \in Requests, ShutdownThrows(r)
         PROVE  Continues'
    BY <2>13
       DEF ShutdownThrows, Succeeded, InHandler, TypeOK, OneHolder, Continues,
           Executed
  <2>14. ASSUME NEW r \in Requests, StatusLineRejected(r)
         PROVE  Continues'
    BY <2>14
       DEF StatusLineRejected, Rejection, GiveUp, Succeeded, InHandler, TypeOK,
           OneHolder, Continues, Executed
  <2>15. ASSUME NEW r \in Requests, HeadersLoop(r)
         PROVE  Continues'
    BY <2>15
       DEF HeadersLoop, ParsesHeaders, Succeeded, InHandler, TypeOK, OneHolder,
           Continues, Executed
  <2>16. ASSUME NEW r \in Requests, HandlerFindsCancelled(r)
         PROVE  Continues'
    BY <2>16
       DEF HandlerFindsCancelled, Prepared, ParsesHeaders, GiveUp, Succeeded,
           InHandler, TypeOK, OneHolder, Continues, Executed
  <2>17. ASSUME NEW r \in Requests, HandlerContinues(r)
         PROVE  Continues'
    BY <2>17
       DEF HandlerContinues, Prepared, ParsesHeaders, MayContinue, NextStage,
           Succeeded, InHandler, TypeOK, OneHolder, Continues, Executed, IdleIo,
           NetStages
  <2>18. ASSUME NEW r \in Requests, BodyReceived(r)
         PROVE  Continues'
    BY <2>18
       DEF BodyReceived, GiveUp, InHandler, TypeOK, OneHolder, Continues,
           Executed
  <2>19. ASSUME Finish
         PROVE  Continues'
    BY <2>19 DEF Finish, Tell, TypeOK, OneHolder, Continues, Executed, IdleIo
  <2>20. CASE Finished \/ UNCHANGED vars
    BY <2>20 DEF Finished, vars, TypeOK, OneHolder, Continues, Executed
  <2>21. QED
    BY <2>1, <2>2, <2>3, <2>4, <2>5, <2>6, <2>7, <2>8, <2>9, <2>10, <2>11,
       <2>12, <2>13, <2>14, <2>15, <2>16, <2>17, <2>18, <2>19, <2>20
       DEF Next, UserStep, IoStep, Handler
<1>3. QED
  BY <1>1, <1>2, HolderInvariant, PTL DEF Spec

\* The thread of m_ios leaves run() only when nothing is left to do, and close()
\* returns only then.
LEMMA ClosingInvariant == Spec => []Closing
<1> USE HTTPAssumption
<1>1. Init => Closing
  BY DEF Init, Closing, IdleIo
<1>2. TypeOK /\ OneHolder /\ Closing /\ [Next]_vars => Closing'
  <2> SUFFICES ASSUME TypeOK, OneHolder, Closing, [Next]_vars PROVE Closing'
    OBVIOUS
  <2> USE DEF TypeOK, OneHolder, Closing, OutOfWork, texts, callerVars, resultVars
  <2>1. ASSUME NEW u \in Users, NEW r \in Requests, Execute(u, r)
        PROVE  Closing'
    BY <2>1 DEF Execute
  <2>2. ASSUME NEW u \in Users, NEW r \in Requests, ExecuteCancelled(u, r)
        PROVE  Closing'
    BY <2>2 DEF ExecuteCancelled
  <2>3. ASSUME NEW u \in Users, ReportFromExecute(u)
        PROVE  Closing'
    BY <2>3 DEF ReportFromExecute, Tell
  <2>4. ASSUME NEW u \in Users, NEW r \in Requests, Cancel(u, r)
        PROVE  Closing'
    BY <2>4 DEF Cancel, AfterCancel, CanSplit
  <2>5. ASSUME Close
        PROVE  Closing'
    BY <2>5 DEF Close
  <2>6. ASSUME CloseReturns
        PROVE  Closing'
    BY <2>6 DEF CloseReturns, Joined
  <2>7. ASSUME NEW r \in Requests, OpCompletes(r)
        PROVE  Closing'
    BY <2>7 DEF OpCompletes, Completions
  <2>8. ASSUME NEW r \in Requests, OpPartial(r)
        PROVE  Closing'
    BY <2>8 DEF OpPartial, CanSplit
  <2>9. ASSUME NEW r \in Requests, Resume(r)
        PROVE  Closing'
    BY <2>9 DEF Resume
  <2>10. ASSUME NEW r \in Requests, Dispatch(r)
         PROVE  Closing'
    BY <2>10 DEF Dispatch
  <2>11. ASSUME Exit
         PROVE  Closing'
    BY <2>11 DEF Exit, OutOfWork
  <2>12. ASSUME NEW r \in Requests, HandlerFails(r)
         PROVE  Closing'
    BY <2>12 DEF HandlerFails, Failure, GiveUp, InHandler
  <2>13. ASSUME NEW r \in Requests, ShutdownThrows(r)
         PROVE  Closing'
    BY <2>13 DEF ShutdownThrows, Succeeded, InHandler
  <2>14. ASSUME NEW r \in Requests, StatusLineRejected(r)
         PROVE  Closing'
    BY <2>14 DEF StatusLineRejected, Rejection, GiveUp, Succeeded, InHandler
  <2>15. ASSUME NEW r \in Requests, HeadersLoop(r)
         PROVE  Closing'
    BY <2>15 DEF HeadersLoop, ParsesHeaders, Succeeded, InHandler
  <2>16. ASSUME NEW r \in Requests, HandlerFindsCancelled(r)
         PROVE  Closing'
    BY <2>16
       DEF HandlerFindsCancelled, Prepared, ParsesHeaders, GiveUp, Succeeded,
           InHandler
  <2>17. ASSUME NEW r \in Requests, HandlerContinues(r)
         PROVE  Closing'
    BY <2>17
       DEF HandlerContinues, Prepared, ParsesHeaders, MayContinue, NextStage,
           Succeeded, InHandler, IdleIo
  <2>18. ASSUME NEW r \in Requests, BodyReceived(r)
         PROVE  Closing'
    BY <2>18 DEF BodyReceived, GiveUp, InHandler
  <2>19. ASSUME Finish
         PROVE  Closing'
    BY <2>19 DEF Finish, Tell, IdleIo
  <2>20. CASE Finished \/ UNCHANGED vars
    BY <2>20 DEF Finished, vars
  <2>21. QED
    BY <2>1, <2>2, <2>3, <2>4, <2>5, <2>6, <2>7, <2>8, <2>9, <2>10, <2>11,
       <2>12, <2>13, <2>14, <2>15, <2>16, <2>17, <2>18, <2>19, <2>20
       DEF Next, UserStep, IoStep, Handler
<1>3. QED
  BY <1>1, <1>2, HolderInvariant, PTL DEF Spec

-----------------------------------------------------------------------------

\* When close() has returned, every request that was executed has had its callback.
ClosedIsQuiet ==
  client = "closed" =>
    \A r \in Requests : Executed(r) => callbacks[r] = 1 /\ outcome[r] # "none"

\* close() abandons no request, whatever it finds under way: m_ios.run() returns
\* only when there is nothing left to do.
THEOREM CloseDrainsAll == Spec => []ClosedIsQuiet
<1>1. TypeOK /\ OneHolder /\ Continues /\ Closing => ClosedIsQuiet
  <2> SUFFICES ASSUME TypeOK, OneHolder, Continues, Closing, client = "closed",
                      NEW r \in Requests, Executed(r)
               PROVE  callbacks[r] = 1 /\ outcome[r] # "none"
    BY DEF ClosedIsQuiet
  <2>1. io.at = "exited" /\ OutOfWork /\ \A u \in Users : user[u] = NoRequest
    BY DEF Closing
  <2>2. io.req = NoRequest /\ op[r] = "none"
    BY <2>1 DEF OneHolder, OutOfWork
  <2>3. callbacks[r] # 0
    BY HTTPAssumption, <2>1, <2>2 DEF Continues
  <2>4. callbacks[r] = 1
    BY <2>3 DEF TypeOK
  <2>5. QED
    BY <2>4 DEF OneHolder
<1>2. QED
  BY HolderInvariant, ContinuesInvariant, ClosingInvariant, <1>1, PTL

\* The client implements RequestLifecycle: execute, cancel, the callback and the
\* return of close() are its steps, everything else leaves status, cancellations
\* and closed alone.
THEOREM Implementation == Spec => ImplementsLifecycle
<1> USE HTTPAssumption
<1>1. Init => Lifecycle!Init
  BY DEF Init, Lifecycle!Init, Status
<1>2. /\ TypeOK /\ OneHolder /\ Continues /\ Closing /\ CodesSound /\ [Next]_vars
      => [Lifecycle!Next]_(Lifecycle!vars)
  <2> SUFFICES ASSUME TypeOK, OneHolder, Continues, Closing, CodesSound, [Next]_vars
               PROVE  [Lifecycle!Next]_(Lifecycle!vars)
    OBVIOUS
  <2> DEFINE Goal == Lifecycle!Next \/ UNCHANGED Lifecycle!vars
  <2>100. ASSUME \A r \in Requests : (stage[r] = "new") <=> (stage'[r] = "new"),
                 UNCHANGED <<outcome, wasCancelled>>,
                 (client = "closed") <=> (client' = "closed")
          PROVE  Goal
    <3>1. \A r \in Requests : Status(r)' = Status(r)
      BY <2>100 DEF Status
    <3>2. QED
      BY <2>100, <3>1 DEF Lifecycle!vars
  <2>101. ASSUME NEW r \in Requests, NEW first, first # "new", stage[r] = "new",
                 client = "open", stage' = [stage EXCEPT ![r] = first],
                 UNCHANGED <<outcome, wasCancelled, client>>
          PROVE  Goal
    <3>1. outcome[r] = "none"
      BY <2>101 DEF TypeOK, OneHolder
    <3>2. Status(r) = "new" /\ Status(r)' = "active"
      BY <2>101, <3>1 DEF TypeOK, Status
    <3>3. \A q \in Requests \ {r} : Status(q)' = Status(q)
      BY <2>101 DEF TypeOK, Status
    <3>4. Lifecycle!Submit(r)
      BY <2>101, <3>2, <3>3 DEF Lifecycle!Submit, Lifecycle!Move
    <3>5. QED
      BY <3>4 DEF Lifecycle!Next
  <2>102. ASSUME NEW r \in Requests, NEW end \in {"ok", "aborted", "failed"},
                 stage[r] # "new", outcome[r] = "none",
                 end = "aborted" => wasCancelled[r],
                 outcome' = [outcome EXCEPT ![r] = end],
                 UNCHANGED <<stage, wasCancelled, client>>
          PROVE  Goal
    <3>1. Status(r) = "active" /\ Status(r)' = end
      BY <2>102 DEF TypeOK, Status
    <3>2. \A q \in Requests \ {r} : Status(q)' = Status(q)
      BY <2>102 DEF TypeOK, Status
    <3>3. Lifecycle!Finish(r, end)
      BY <2>102, <3>1, <3>2 DEF Lifecycle!Finish, Lifecycle!Move
    <3>4. QED
      BY <3>3 DEF Lifecycle!Next, Lifecycle!Outcomes
  <2> USE DEF callerVars, resultVars
  <2>1. ASSUME NEW u \in Users, NEW r \in Requests, Execute(u, r)
        PROVE  Goal
    BY <2>1, <2>101 DEF Execute
  <2>2. ASSUME NEW u \in Users, NEW r \in Requests, ExecuteCancelled(u, r)
        PROVE  Goal
    BY <2>2, <2>101 DEF ExecuteCancelled
  <2>3. ASSUME NEW u \in Users, ReportFromExecute(u)
        PROVE  Goal
    <3>1. /\ user[u] \in Requests /\ stage[user[u]] = "skipped"
          /\ wasCancelled[user[u]] /\ outcome[user[u]] = "none"
      BY <2>3 DEF ReportFromExecute, TypeOK, OneHolder
    <3>2. QED
      BY <2>3, <2>102, <3>1 DEF ReportFromExecute, Tell, OutcomeOf
  <2>4. ASSUME NEW u \in Users, NEW r \in Requests, Cancel(u, r)
        PROVE  Goal
    <3>1. /\ wasCancelled' = [wasCancelled EXCEPT ![r] = TRUE]
          /\ UNCHANGED <<stage, outcome, client>>
      BY <2>4 DEF Cancel
    <3>2. Status(r) \in {"new", "active", "ok", "aborted", "failed"}
      BY DEF TypeOK, Status, Outcomes
    <3>3. \A q \in Requests : Status(q)' = Status(q)
      BY <3>1 DEF Status
    <3>4. Lifecycle!Cancel(r)
      BY <3>1, <3>2, <3>3 DEF TypeOK, Lifecycle!Cancel
    <3>5. QED
      BY <3>4 DEF Lifecycle!Next
  <2>5. ASSUME Close
        PROVE  Goal
    BY <2>5, <2>100 DEF Close
  <2>6. ASSUME CloseReturns
        PROVE  Goal
    <3>1. /\ client' = "closed" /\ io.at = "exited" /\ client # "open"
          /\ UNCHANGED <<stage, outcome, wasCancelled>>
      BY <2>6 DEF CloseReturns, Joined
    <3>2. ASSUME NEW q \in Requests
          PROVE  Status(q) # "active"
      <4>1. op[q] = "none" /\ io.req # q /\ \A u \in Users : user[u] # q
        BY <3>1 DEF Closing, OutOfWork, OneHolder
      <4>2. stage[q] = "new" \/ callbacks[q] # 0
        BY <4>1 DEF Continues, Executed
      <4>3. callbacks[q] # 0 => outcome[q] # "none"
        BY DEF OneHolder, TypeOK
      <4>4. QED
        BY <4>2, <4>3 DEF Status, TypeOK, Outcomes
    <3>3. Lifecycle!Close
      BY <3>1, <3>2 DEF Lifecycle!Close, Status
    <3>4. QED
      BY <3>3 DEF Lifecycle!Next
  <2>7. ASSUME NEW r \in Requests, OpCompletes(r)
        PROVE  Goal
    BY <2>7, <2>100 DEF OpCompletes, Completions
  <2>8. ASSUME NEW r \in Requests, OpPartial(r)
        PROVE  Goal
    BY <2>8, <2>100 DEF OpPartial, CanSplit
  <2>9. ASSUME NEW r \in Requests, Resume(r)
        PROVE  Goal
    BY <2>9, <2>100 DEF Resume
  <2>10. ASSUME NEW r \in Requests, Dispatch(r)
         PROVE  Goal
    BY <2>10, <2>100 DEF Dispatch
  <2>11. ASSUME Exit
         PROVE  Goal
    BY <2>11, <2>100 DEF Exit, OutOfWork
  <2>12. ASSUME NEW r \in Requests, HandlerFails(r)
         PROVE  Goal
    BY <2>12, <2>100 DEF HandlerFails, Failure, GiveUp, InHandler
  <2>13. ASSUME NEW r \in Requests, ShutdownThrows(r)
         PROVE  Goal
    BY <2>13, <2>100 DEF ShutdownThrows, Succeeded, InHandler
  <2>14. ASSUME NEW r \in Requests, StatusLineRejected(r)
         PROVE  Goal
    BY <2>14, <2>100
       DEF StatusLineRejected, Rejection, GiveUp, Succeeded, InHandler
  <2>15. ASSUME NEW r \in Requests, HeadersLoop(r)
         PROVE  Goal
    BY <2>15, <2>100 DEF HeadersLoop, ParsesHeaders, Succeeded, InHandler
  <2>16. ASSUME NEW r \in Requests, HandlerFindsCancelled(r)
         PROVE  Goal
    BY <2>16, <2>100
       DEF HandlerFindsCancelled, Prepared, ParsesHeaders, GiveUp, Succeeded,
           InHandler
  <2>17. ASSUME NEW r \in Requests, HandlerContinues(r)
         PROVE  Goal
    <3>1. stage[r] \in {"resolve", "connect", "write", "status", "headers"}
      BY <2>17 DEF HandlerContinues, Prepared, Succeeded, InHandler, TypeOK,
         OneHolder, NetStages
    <3>2. stage' = [stage EXCEPT ![r] = NextStage[stage[r]]]
      BY <2>17 DEF HandlerContinues
    <3>3. NextStage[stage[r]] \in NetStages
      BY <3>1 DEF NextStage, NetStages
    <3>4. \A q \in Requests : (stage[q] = "new") <=> (stage'[q] = "new")
      BY <3>1, <3>2, <3>3 DEF TypeOK, NetStages
    <3>5. QED
      BY <2>17, <3>4, <2>100 DEF HandlerContinues
  <2>18. ASSUME NEW r \in Requests, BodyReceived(r)
         PROVE  Goal
    BY <2>18, <2>100 DEF BodyReceived, GiveUp, InHandler
  <2>19. ASSUME Finish
         PROVE  Goal
    <3>1. io.req \in Requests /\ stage[io.req] # "new" /\ outcome[io.req] = "none"
      BY <2>19 DEF Finish, TypeOK, OneHolder
    <3>2. /\ OutcomeOf(io.code) \in {"ok", "aborted", "failed"}
          /\ OutcomeOf(io.code) = "aborted" => wasCancelled[io.req]
      BY <2>19 DEF Finish, OutcomeOf, CodesSound
    <3>3. QED
      BY <2>19, <2>102, <3>1, <3>2 DEF Finish, Tell
  <2>20. CASE Finished \/ UNCHANGED vars
    BY <2>20, <2>100 DEF Finished, vars
  <2>21. QED
    BY <2>1, <2>2, <2>3, <2>4, <2>5, <2>6, <2>7, <2>8, <2>9, <2>10, <2>11,
       <2>12, <2>13, <2>14, <2>15, <2>16, <2>17, <2>18, <2>19, <2>20
       DEF Next, UserStep, IoStep, Handler
<1>3. QED
  BY <1>1, <1>2, HolderInvariant, ContinuesInvariant, ClosingInvariant,
     CodesInvariant, PTL DEF Spec, ImplementsLifecycle, Lifecycle!Spec
=============================================================================
