------------------------ MODULE AsyncTCPClientProofs ------------------------
(***************************************************************************)
(* Proofs about AsyncTCPClient, for every set of requests, ids, threads    *)
(* and every bound.  The inductive invariant is built in layers, each a    *)
(* lemma of its own that uses the ones above it:                           *)
(*                                                                         *)
(*   TypeOK       types                                                    *)
(*   OneThread    a Session's continuation is in one place: its operation, *)
(*                the thread that submits it or one handler                *)
(*   Continues    ... and it is lost only when the callback was called     *)
(*   LockOwners   who holds a mutex, and where                             *)
(*   MapSound     the map holds only Sessions that are not yet erased      *)
(*   CodesSound   where codes and responses come from                      *)
(*   CancelsCounted   what a set flag and a waiting cancelRequest cost     *)
(*   Windows      where an operation runs on although its Session is       *)
(*                marked                                                   *)
(*   Stopped      the threads leave run() only when nothing is left        *)
(***************************************************************************)
EXTENDS AsyncTCPClient, TLAPS

\* A thread of the pool runs a handler of its Session.
Busy(w) == worker[w].at \in {"handler", "complete", "report"}

OneThread ==
  /\ \A r \in Requests :
       /\ op[r] # "none" \/ callbacks[r] > 0 => Registered(r)
       /\ op[r] # "none" => callbacks[r] = 0
       /\ callbacks[r] <= 1
       /\ outcome[r] # "none" <=> callbacks[r] > 0
  /\ \A w \in Workers : Busy(w) =>
       /\ Registered(worker[w].req)
       /\ op[worker[w].req] = "none" /\ callbacks[worker[w].req] = 0
  /\ \A u \in Users : user[u].at = "connecting" =>
       /\ Registered(user[u].req)
       /\ op[user[u].req] = "none" /\ callbacks[user[u].req] = 0
  /\ \A v, w \in Workers :
       Busy(v) /\ Busy(w) /\ worker[v].req = worker[w].req => v = w
  /\ \A u, v \in Users :
       /\ user[u].at = "connecting" /\ user[v].at = "connecting"
       /\ user[u].req = user[v].req
       => u = v
  /\ \A u \in Users, w \in Workers :
       user[u].at = "connecting" /\ Busy(w) => user[u].req # worker[w].req

Continues ==
  \A r \in Requests : Registered(r) /\ callbacks[r] = 0 /\ op[r] = "none" =>
    \/ \E w \in Workers : Busy(w) /\ worker[w].req = r
    \/ \E u \in Users : user[u].at = "connecting" /\ user[u].req = r

LockOwners ==
  /\ \A u \in Users : user[u].at = "marking" <=> mapGuard = u
  /\ \A r \in Requests : cancelGuard[r] # Nobody =>
       LET w == cancelGuard[r] IN
       /\ worker[w].at \in {"complete", "report"}
       /\ worker[w].req = r
       /\ wasCancelled[r]

MapSound ==
  /\ \A i \in Ids : active[i] # NoRequest =>
       /\ IdOf[active[i]] = i
       /\ Registered(active[i])
       /\ ~Erased(active[i])
  /\ \A u \in Users :
       user[u].at = "marking" => active[IdOf[user[u].req]] = user[u].req
  /\ \A r \in Requests : wasCancelled[r] => Registered(r)

CodesSound ==
  /\ OutcomeJustified
  /\ \A r \in Requests :
       op[r] = "aborted" \/ ec[r] = "aborted" => wasCancelled[r]
  /\ \A w \in Workers : Busy(w) =>
       /\ worker[w].code = "aborted" => wasCancelled[worker[w].req]
       /\ \/ In(w, "handler") \/ ec[worker[w].req] # "ok"
          \/ response[worker[w].req] \/ wasCancelled[worker[w].req]

CancelsCounted ==
  /\ \A r \in Requests : wasCancelled[r] => cancels[IdOf[r]] >= 1
  /\ \A u \in Users : user[u].at = "marking" =>
       /\ cancels[IdOf[user[u].req]] >= 1
       /\ wasCancelled[user[u].req] => cancels[IdOf[user[u].req]] >= 2

Windows ==
  /\ RunsOnOnlyInWindows
  /\ \A r \in Requests : op[r] = "partial" => partials[r] > 0

Stopped ==
  /\ ~work => \A u \in Users : user[u].at # "connecting"
  /\ (\E w \in Workers : worker[w].at = "exited") => OutOfWork
  /\ \A u \in Users : user[u].at = "closed" => AllJoined

-----------------------------------------------------------------------------

\* The variables keep their types: no handler runs, and no cancelRequest waits,
\* without a Session.
THEOREM TypeCorrect == Spec => []TypeOK
<1> USE ClientAssumption
<1>1. Init => TypeOK
  BY SMTT(30)
     DEF Init, TypeOK, IdleUser, IdleWorker, UserAt, WorkerAt, Codes, Stages,
         Outcomes
<1>2. TypeOK /\ [Next]_vars => TypeOK'
  <2> SUFFICES ASSUME TypeOK, [Next]_vars PROVE TypeOK'
    OBVIOUS
  <2> USE DEF TypeOK, UserAt, WorkerAt, Codes, Stages, Outcomes, sessionVars
  <2>1. ASSUME NEW u \in Users, NEW r \in Requests, SubmitThrows(u, r)
       PROVE  TypeOK'
    BY <2>1 DEF SubmitThrows
  <2>2. ASSUME NEW u \in Users, NEW r \in Requests, Submit(u, r)
       PROVE  TypeOK'
    BY <2>2 DEF Submit, Inserted
  <2>3. ASSUME NEW u \in Users, Connect(u)
       PROVE  TypeOK'
    BY <2>3 DEF Connect, IdleUser
  <2>4. ASSUME NEW u \in Users, NEW i \in Ids, CancelMiss(u, i)
       PROVE  TypeOK'
    BY <2>4 DEF CancelMiss
  <2>5. ASSUME NEW u \in Users, NEW i \in Ids, CancelFind(u, i)
       PROVE  TypeOK'
    BY <2>5 DEF CancelFind, Found
  <2>6. ASSUME NEW u \in Users, CancelMark(u)
       PROVE  TypeOK'
    BY <2>6 DEF CancelMark, IdleUser, SockCancel
  <2>7. ASSUME NEW u \in Users, Close(u)
       PROVE  TypeOK'
    BY <2>7 DEF Close, IdleUser
  <2>8. ASSUME NEW u \in Users, CloseReturns(u)
       PROVE  TypeOK'
    BY <2>8 DEF CloseReturns
  <2>9. ASSUME NEW w \in Workers, NEW r \in Requests, Resume(w, r)
       PROVE  TypeOK'
    BY <2>9 DEF Resume
  <2>10. ASSUME NEW w \in Workers, NEW r \in Requests, Dispatch(w, r)
       PROVE  TypeOK'
    BY <2>10 DEF Dispatch
  <2>11. ASSUME NEW w \in Workers, HandlerFails(w)
       PROVE  TypeOK'
    BY SMTT(30), <2>11 DEF HandlerFails, Complete, In, Goto, ErrorRecorded
  <2>12. ASSUME NEW w \in Workers, HandlerFindsCancelled(w)
       PROVE  TypeOK'
    BY <2>12 DEF HandlerFindsCancelled, Complete, SeesCancelled, In, Goto
  <2>13. ASSUME NEW w \in Workers, HandlerContinues(w)
       PROVE  TypeOK'
    BY <2>13 DEF HandlerContinues, In, SeesCancelled, IdleWorker
  <2>14. ASSUME NEW w \in Workers, ResponseReceived(w)
       PROVE  TypeOK'
    BY <2>14 DEF ResponseReceived, Complete, In, Goto
  <2>15. ASSUME NEW w \in Workers, CompleteErase(w)
       PROVE  TypeOK'
    <3>1. worker[w].req \in Requests
      BY <2>15 DEF CompleteErase, In
    <3>2. /\ sock' \in [Requests -> {"none", "open", "shut"}]
          /\ active' \in [Ids -> Requests \cup {NoRequest}]
      BY <2>15, <3>1 DEF CompleteErase, SessionErased
    <3>3. worker' = [worker EXCEPT ![w].at = "report"]
      BY <2>15 DEF CompleteErase, Goto
    <3>4. /\ worker' \in [Workers -> [at : WorkerAt, code : Codes,
                                     req : Requests \cup {NoRequest}]]
          /\ \A v \in Workers :
               worker'[v].at \in {"handler", "complete", "report"} =>
                 worker'[v].req \in Requests
      BY <3>1, <3>3
    <3>5. QED
      BY <2>15, <3>2, <3>4 DEF CompleteErase
  <2>16. ASSUME NEW w \in Workers, Report(w)
       PROVE  TypeOK'
    BY <2>16 DEF Report, In, FinalCode, IdleWorker
  <2>17. ASSUME NEW w \in Workers, Exit(w)
       PROVE  TypeOK'
    BY SMTT(30), <2>17 DEF Exit, OutOfWork
  <2>18. ASSUME NEW r \in Requests, OpCompletes(r)
       PROVE  TypeOK'
    BY <2>18 DEF OpCompletes
  <2>19. ASSUME NEW r \in Requests, OpPartial(r)
       PROVE  TypeOK'
    BY <2>19 DEF OpPartial
  <2>20. CASE Finished \/ UNCHANGED vars
    BY <2>20 DEF Finished, vars
  <2>21. QED
    BY <2>1, <2>2, <2>3, <2>4, <2>5, <2>6, <2>7, <2>8, <2>9, <2>10, <2>11,
       <2>12, <2>13, <2>14, <2>15, <2>16, <2>17, <2>18, <2>19, <2>20
       DEF Next, UserStep, WorkerStep
<1>3. QED
  BY <1>1, <1>2, PTL DEF Spec

\* At any time at most one thread or operation carries a Session on: handlers of
\* one Session never run side by side.
LEMMA OneThreadInvariant == Spec => []OneThread
<1> USE ClientAssumption
<1>1. Init => OneThread
  BY DEF Init, OneThread, IdleUser, IdleWorker, Busy
<1>2. OneThread /\ TypeOK /\ TypeOK' /\ [Next]_vars => OneThread'
  <2> SUFFICES ASSUME OneThread, TypeOK, TypeOK', [Next]_vars
                PROVE  OneThread'
    OBVIOUS
  <2> USE DEF OneThread, TypeOK, Busy, Registered, Stages, Codes, Outcomes,
              UserAt, WorkerAt, sessionVars
  <2>1. ASSUME NEW u \in Users, NEW r \in Requests, SubmitThrows(u, r)
       PROVE  OneThread'
    BY <2>1 DEF SubmitThrows
  <2>2. ASSUME NEW u \in Users, NEW r \in Requests, Submit(u, r)
       PROVE  OneThread'
    <3>1. /\ ~Registered(r) /\ stage' = [stage EXCEPT ![r] = "registered"]
          /\ user' = [user EXCEPT ![u] = [at |-> "connecting", req |-> r]]
          /\ UNCHANGED <<op, callbacks, outcome, worker>>
      BY <2>2 DEF Submit
    <3>2. QED
      BY SMTT(30), <3>1
  <2>3. ASSUME NEW u \in Users, Connect(u)
       PROVE  OneThread'
    BY <2>3 DEF Connect, IdleUser
  <2>4. ASSUME NEW u \in Users, NEW i \in Ids, CancelMiss(u, i)
       PROVE  OneThread'
    BY <2>4 DEF CancelMiss
  <2>5. ASSUME NEW u \in Users, NEW i \in Ids, CancelFind(u, i)
       PROVE  OneThread'
    BY <2>5 DEF CancelFind, Found
  <2>6. ASSUME NEW u \in Users, CancelMark(u)
       PROVE  OneThread'
    BY <2>6 DEF CancelMark, IdleUser, SockCancel
  <2>7. ASSUME NEW u \in Users, Close(u)
       PROVE  OneThread'
    BY <2>7 DEF Close, IdleUser
  <2>8. ASSUME NEW u \in Users, CloseReturns(u)
       PROVE  OneThread'
    BY <2>8 DEF CloseReturns
  <2>9. ASSUME NEW w \in Workers, NEW r \in Requests, Resume(w, r)
       PROVE  OneThread'
    BY <2>9 DEF Resume
  <2>10. ASSUME NEW w \in Workers, NEW r \in Requests, Dispatch(w, r)
       PROVE  OneThread'
    BY <2>10 DEF Dispatch
  <2>11. ASSUME NEW w \in Workers, HandlerFails(w)
       PROVE  OneThread'
    BY <2>11 DEF HandlerFails, Complete, In, Goto, ErrorRecorded
  <2>12. ASSUME NEW w \in Workers, HandlerFindsCancelled(w)
       PROVE  OneThread'
    BY <2>12 DEF HandlerFindsCancelled, Complete, SeesCancelled, In, Goto
  <2>13. ASSUME NEW w \in Workers, HandlerContinues(w)
       PROVE  OneThread'
    BY <2>13 DEF HandlerContinues, In, SeesCancelled, IdleWorker
  <2>14. ASSUME NEW w \in Workers, ResponseReceived(w)
       PROVE  OneThread'
    BY <2>14 DEF ResponseReceived, Complete, In, Goto
  <2>15. ASSUME NEW w \in Workers, CompleteErase(w)
       PROVE  OneThread'
    BY SMTT(30), <2>15 DEF CompleteErase, In, Goto, SessionErased
  <2>16. ASSUME NEW w \in Workers, Report(w)
       PROVE  OneThread'
    BY SMTT(30), <2>16 DEF Report, In, FinalCode, IdleWorker
  <2>17. ASSUME NEW w \in Workers, Exit(w)
       PROVE  OneThread'
    BY <2>17 DEF Exit, OutOfWork
  <2>18. ASSUME NEW r \in Requests, OpCompletes(r)
       PROVE  OneThread'
    BY <2>18 DEF OpCompletes
  <2>19. ASSUME NEW r \in Requests, OpPartial(r)
       PROVE  OneThread'
    BY <2>19 DEF OpPartial
  <2>20. CASE Finished \/ UNCHANGED vars
    BY <2>20 DEF Finished, vars
  <2>21. QED
    BY <2>1, <2>2, <2>3, <2>4, <2>5, <2>6, <2>7, <2>8, <2>9, <2>10, <2>11,
       <2>12, <2>13, <2>14, <2>15, <2>16, <2>17, <2>18, <2>19, <2>20
       DEF Next, UserStep, WorkerStep
<1>3. QED
  BY <1>1, <1>2, TypeCorrect, PTL DEF Spec

\* A submitted Session that has not been reported is never dropped: some thread
\* or operation carries it on.
LEMMA ContinuesInvariant == Spec => []Continues
<1> USE ClientAssumption
<1>1. Init => Continues
  BY DEF Init, Continues, IdleUser, IdleWorker, Registered, Stages
<1>2. Continues /\ TypeOK /\ TypeOK' /\ [Next]_vars => Continues'
  <2> SUFFICES ASSUME Continues, TypeOK, TypeOK', [Next]_vars
                PROVE  Continues'
    OBVIOUS
  <2> USE DEF Continues, TypeOK, Busy, Registered, Stages, In, Codes, UserAt,
              WorkerAt, sessionVars
  <2>1. ASSUME NEW u \in Users, NEW r \in Requests, SubmitThrows(u, r)
       PROVE  Continues'
    BY <2>1 DEF SubmitThrows
  <2>2. ASSUME NEW u \in Users, NEW r \in Requests, Submit(u, r)
       PROVE  Continues'
    BY SMTT(30), <2>2 DEF Submit, Inserted
  <2>3. ASSUME NEW u \in Users, Connect(u)
       PROVE  Continues'
    BY SMTT(30), <2>3 DEF Connect, IdleUser
  <2>4. ASSUME NEW u \in Users, NEW i \in Ids, CancelMiss(u, i)
       PROVE  Continues'
    BY <2>4 DEF CancelMiss
  <2>5. ASSUME NEW u \in Users, NEW i \in Ids, CancelFind(u, i)
       PROVE  Continues'
    BY <2>5 DEF CancelFind, Found
  <2>6. ASSUME NEW u \in Users, CancelMark(u)
       PROVE  Continues'
    BY SMTT(30), <2>6 DEF CancelMark, IdleUser, SockCancel
  <2>7. ASSUME NEW u \in Users, Close(u)
       PROVE  Continues'
    BY <2>7 DEF Close, IdleUser
  <2>8. ASSUME NEW u \in Users, CloseReturns(u)
       PROVE  Continues'
    BY SMTT(30), <2>8 DEF CloseReturns
  <2>9. ASSUME NEW w \in Workers, NEW r \in Requests, Resume(w, r)
       PROVE  Continues'
    BY <2>9 DEF Resume
  <2>10. ASSUME NEW w \in Workers, NEW r \in Requests, Dispatch(w, r)
       PROVE  Continues'
    BY SMTT(30), <2>10 DEF Dispatch
  <2>11. ASSUME NEW w \in Workers, HandlerFails(w)
       PROVE  Continues'
    BY SMTT(30), <2>11 DEF HandlerFails, Complete, In, Goto, ErrorRecorded
  <2>12. ASSUME NEW w \in Workers, HandlerFindsCancelled(w)
       PROVE  Continues'
    BY <2>12 DEF HandlerFindsCancelled, Complete, SeesCancelled, In, Goto
  <2>13. ASSUME NEW w \in Workers, HandlerContinues(w)
       PROVE  Continues'
    BY SMTT(30), <2>13 DEF HandlerContinues, In, SeesCancelled, IdleWorker
  <2>14. ASSUME NEW w \in Workers, ResponseReceived(w)
       PROVE  Continues'
    BY <2>14 DEF ResponseReceived, Complete, In, Goto
  <2>15. ASSUME NEW w \in Workers, CompleteErase(w)
       PROVE  Continues'
    BY SMTT(30), <2>15 DEF CompleteErase, In, Goto, SessionErased
  <2>16. ASSUME NEW w \in Workers, Report(w)
       PROVE  Continues'
    BY SMTT(30), <2>16 DEF Report, In, FinalCode, IdleWorker
  <2>17. ASSUME NEW w \in Workers, Exit(w)
       PROVE  Continues'
    BY SMTT(30), <2>17 DEF Exit, OutOfWork
  <2>18. ASSUME NEW r \in Requests, OpCompletes(r)
       PROVE  Continues'
    BY <2>18 DEF OpCompletes
  <2>19. ASSUME NEW r \in Requests, OpPartial(r)
       PROVE  Continues'
    BY <2>19 DEF OpPartial
  <2>20. CASE Finished \/ UNCHANGED vars
    BY SMTT(30), <2>20 DEF Finished, vars
  <2>21. QED
    BY <2>1, <2>2, <2>3, <2>4, <2>5, <2>6, <2>7, <2>8, <2>9, <2>10, <2>11,
       <2>12, <2>13, <2>14, <2>15, <2>16, <2>17, <2>18, <2>19, <2>20
       DEF Next, UserStep, WorkerStep
<1>3. QED
  BY <1>1, <1>2, TypeCorrect, PTL DEF Spec

\* m_active_sessions_guard is held across steps by cancelRequest only, and
\* m_cancel_guard by a handler that found its Session cancelled.
LEMMA LockInvariant == Spec => []LockOwners
<1> USE ClientAssumption
<1>1. Init => LockOwners
  BY DEF Init, LockOwners, IdleUser, IdleWorker
<1>2. LockOwners /\ TypeOK /\ TypeOK' /\ [Next]_vars => LockOwners'
  <2> SUFFICES ASSUME LockOwners, TypeOK, TypeOK', [Next]_vars
                PROVE  LockOwners'
    OBVIOUS
  <2> USE DEF LockOwners, TypeOK, UserAt, WorkerAt, sessionVars
  <2>1. ASSUME NEW u \in Users, NEW r \in Requests, SubmitThrows(u, r)
       PROVE  LockOwners'
    BY <2>1 DEF SubmitThrows
  <2>2. ASSUME NEW u \in Users, NEW r \in Requests, Submit(u, r)
       PROVE  LockOwners'
    BY <2>2 DEF Submit, Inserted
  <2>3. ASSUME NEW u \in Users, Connect(u)
       PROVE  LockOwners'
    BY <2>3 DEF Connect, IdleUser
  <2>4. ASSUME NEW u \in Users, NEW i \in Ids, CancelMiss(u, i)
       PROVE  LockOwners'
    BY <2>4 DEF CancelMiss
  <2>5. ASSUME NEW u \in Users, NEW i \in Ids, CancelFind(u, i)
       PROVE  LockOwners'
    BY <2>5 DEF CancelFind, Found
  <2>6. ASSUME NEW u \in Users, CancelMark(u)
       PROVE  LockOwners'
    BY <2>6 DEF CancelMark, IdleUser, SockCancel
  <2>7. ASSUME NEW u \in Users, Close(u)
       PROVE  LockOwners'
    BY <2>7 DEF Close, IdleUser
  <2>8. ASSUME NEW u \in Users, CloseReturns(u)
       PROVE  LockOwners'
    BY <2>8 DEF CloseReturns
  <2>9. ASSUME NEW w \in Workers, NEW r \in Requests, Resume(w, r)
       PROVE  LockOwners'
    BY <2>9 DEF Resume
  <2>10. ASSUME NEW w \in Workers, NEW r \in Requests, Dispatch(w, r)
       PROVE  LockOwners'
    BY <2>10 DEF Dispatch
  <2>11. ASSUME NEW w \in Workers, HandlerFails(w)
       PROVE  LockOwners'
    BY <2>11 DEF HandlerFails, Complete, In, Goto, ErrorRecorded
  <2>12. ASSUME NEW w \in Workers, HandlerFindsCancelled(w)
       PROVE  LockOwners'
    BY <2>12 DEF HandlerFindsCancelled, Complete, SeesCancelled, In, Goto
  <2>13. ASSUME NEW w \in Workers, HandlerContinues(w)
       PROVE  LockOwners'
    BY <2>13 DEF HandlerContinues, In, SeesCancelled, IdleWorker
  <2>14. ASSUME NEW w \in Workers, ResponseReceived(w)
       PROVE  LockOwners'
    BY <2>14 DEF ResponseReceived, Complete, In, Goto
  <2>15. ASSUME NEW w \in Workers, CompleteErase(w)
       PROVE  LockOwners'
    BY SMTT(30), <2>15 DEF CompleteErase, In, Goto, SessionErased
  <2>16. ASSUME NEW w \in Workers, Report(w)
       PROVE  LockOwners'
    BY SMTT(60), <2>16 DEF Report, In, FinalCode, IdleWorker
  <2>17. ASSUME NEW w \in Workers, Exit(w)
       PROVE  LockOwners'
    BY <2>17 DEF Exit, OutOfWork
  <2>18. ASSUME NEW r \in Requests, OpCompletes(r)
       PROVE  LockOwners'
    BY <2>18 DEF OpCompletes
  <2>19. ASSUME NEW r \in Requests, OpPartial(r)
       PROVE  LockOwners'
    BY <2>19 DEF OpPartial
  <2>20. CASE Finished \/ UNCHANGED vars
    BY <2>20 DEF Finished, vars
  <2>21. QED
    BY <2>1, <2>2, <2>3, <2>4, <2>5, <2>6, <2>7, <2>8, <2>9, <2>10, <2>11,
       <2>12, <2>13, <2>14, <2>15, <2>16, <2>17, <2>18, <2>19, <2>20
       DEF Next, UserStep, WorkerStep
<1>3. QED
  BY <1>1, <1>2, TypeCorrect, PTL DEF Spec

\* The map never holds a Session that onRequestComplete has erased, and keeps the
\* one cancelRequest has found until its flag is set.
LEMMA MapInvariant == Spec => []MapSound
<1> USE ClientAssumption
<1>1. Init => MapSound
  BY SMTT(30) DEF Init, MapSound, IdleUser, IdleWorker
<1>2. MapSound /\ TypeOK /\ LockOwners /\ OneThread
        /\ TypeOK' /\ LockOwners' /\ OneThread' /\ [Next]_vars
        => MapSound'
  <2> SUFFICES ASSUME MapSound, TypeOK, LockOwners, OneThread,
                      TypeOK', LockOwners', OneThread', [Next]_vars
                PROVE  MapSound'
    OBVIOUS
  <2> USE DEF MapSound, TypeOK, LockOwners, OneThread, Busy, Registered,
              Erased, Stages, In, UserAt, WorkerAt, sessionVars
  <2>1. ASSUME NEW u \in Users, NEW r \in Requests, SubmitThrows(u, r)
       PROVE  MapSound'
    BY SMTT(30), <2>1 DEF SubmitThrows
  <2>2. ASSUME NEW u \in Users, NEW r \in Requests, Submit(u, r)
       PROVE  MapSound'
    BY <2>2 DEF Submit, Inserted
  <2>3. ASSUME NEW u \in Users, Connect(u)
       PROVE  MapSound'
    BY <2>3 DEF Connect, IdleUser
  <2>4. ASSUME NEW u \in Users, NEW i \in Ids, CancelMiss(u, i)
       PROVE  MapSound'
    BY <2>4 DEF CancelMiss
  <2>5. ASSUME NEW u \in Users, NEW i \in Ids, CancelFind(u, i)
       PROVE  MapSound'
    BY SMTT(30), <2>5 DEF CancelFind, Found
  <2>6. ASSUME NEW u \in Users, CancelMark(u)
       PROVE  MapSound'
    BY SMTT(60), <2>6 DEF CancelMark, IdleUser, SockCancel
  <2>7. ASSUME NEW u \in Users, Close(u)
       PROVE  MapSound'
    BY SMTT(30), <2>7 DEF Close, IdleUser
  <2>8. ASSUME NEW u \in Users, CloseReturns(u)
       PROVE  MapSound'
    BY <2>8 DEF CloseReturns
  <2>9. ASSUME NEW w \in Workers, NEW r \in Requests, Resume(w, r)
       PROVE  MapSound'
    BY <2>9 DEF Resume
  <2>10. ASSUME NEW w \in Workers, NEW r \in Requests, Dispatch(w, r)
       PROVE  MapSound'
    BY SMTT(30), <2>10 DEF Dispatch
  <2>11. ASSUME NEW w \in Workers, HandlerFails(w)
       PROVE  MapSound'
    BY SMTT(30), <2>11 DEF HandlerFails, Complete, In, Goto, ErrorRecorded
  <2>12. ASSUME NEW w \in Workers, HandlerFindsCancelled(w)
       PROVE  MapSound'
    BY SMTT(30), <2>12 DEF HandlerFindsCancelled, Complete, SeesCancelled, In, Goto
  <2>13. ASSUME NEW w \in Workers, HandlerContinues(w)
       PROVE  MapSound'
    BY <2>13 DEF HandlerContinues, In, SeesCancelled, IdleWorker
  <2>14. ASSUME NEW w \in Workers, ResponseReceived(w)
       PROVE  MapSound'
    BY SMTT(30), <2>14 DEF ResponseReceived, Complete, In, Goto
  <2>15. ASSUME NEW w \in Workers, CompleteErase(w)
       PROVE  MapSound'
    BY <2>15 DEF CompleteErase, In, Goto, SessionErased
  <2>16. ASSUME NEW w \in Workers, Report(w)
       PROVE  MapSound'
    <3>1. /\ UNCHANGED <<active, stage, user, wasCancelled>>
          /\ worker[w].at = "report" /\ worker[w].req \in Requests
          /\ worker' = [worker EXCEPT ![w] = IdleWorker]
          /\ callbacks' = [callbacks EXCEPT ![worker[w].req] = @ + 1]
      BY <2>16 DEF Report
    <3>2. \A q \in Requests : ~Erased(q) => ~Erased(q)'
      BY <3>1 DEF IdleWorker
    <3>3. \A q \in Requests : Registered(q)' <=> Registered(q)
      BY <3>1
    <3> HIDE DEF Erased, Registered, LockOwners, OneThread
    <3>4. QED
      BY SMTT(30), <3>1, <3>2, <3>3
  <2>17. ASSUME NEW w \in Workers, Exit(w)
       PROVE  MapSound'
    BY <2>17 DEF Exit, OutOfWork
  <2>18. ASSUME NEW r \in Requests, OpCompletes(r)
       PROVE  MapSound'
    BY <2>18 DEF OpCompletes
  <2>19. ASSUME NEW r \in Requests, OpPartial(r)
       PROVE  MapSound'
    BY <2>19 DEF OpPartial
  <2>20. CASE Finished \/ UNCHANGED vars
    BY <2>20 DEF Finished, vars
  <2>21. QED
    BY <2>1, <2>2, <2>3, <2>4, <2>5, <2>6, <2>7, <2>8, <2>9, <2>10, <2>11,
       <2>12, <2>13, <2>14, <2>15, <2>16, <2>17, <2>18, <2>19, <2>20
       DEF Next, UserStep, WorkerStep
<1>3. QED
  BY <1>1, <1>2, TypeCorrect, LockInvariant, OneThreadInvariant, PTL DEF Spec

\* operation_aborted comes from cancelRequest only, and a request that completes
\* without an error has its response or was cancelled.
LEMMA CodesInvariant == Spec => []CodesSound
<1> USE ClientAssumption
<1>1. Init => CodesSound
  BY SMTT(30) DEF Init, CodesSound, OutcomeJustified, Busy, IdleWorker
<1>2. CodesSound /\ TypeOK /\ OneThread
        /\ TypeOK' /\ OneThread' /\ [Next]_vars
        => CodesSound'
  <2> SUFFICES ASSUME CodesSound, TypeOK, OneThread, TypeOK',
                      OneThread', [Next]_vars
                PROVE  CodesSound'
    OBVIOUS
  <2> USE DEF CodesSound, OutcomeJustified, TypeOK, OneThread, Busy, In,
              Codes, Outcomes, UserAt, WorkerAt, sessionVars
  <2>1. ASSUME NEW u \in Users, NEW r \in Requests, SubmitThrows(u, r)
       PROVE  CodesSound'
    BY <2>1 DEF SubmitThrows
  <2>2. ASSUME NEW u \in Users, NEW r \in Requests, Submit(u, r)
       PROVE  CodesSound'
    BY <2>2 DEF Submit, Inserted
  <2>3. ASSUME NEW u \in Users, Connect(u)
       PROVE  CodesSound'
    BY <2>3 DEF Connect, IdleUser
  <2>4. ASSUME NEW u \in Users, NEW i \in Ids, CancelMiss(u, i)
       PROVE  CodesSound'
    BY <2>4 DEF CancelMiss
  <2>5. ASSUME NEW u \in Users, NEW i \in Ids, CancelFind(u, i)
       PROVE  CodesSound'
    BY SMTT(30), <2>5 DEF CancelFind, Found
  <2>6. ASSUME NEW u \in Users, CancelMark(u)
       PROVE  CodesSound'
    BY <2>6 DEF CancelMark, IdleUser, SockCancel
  <2>7. ASSUME NEW u \in Users, Close(u)
       PROVE  CodesSound'
    BY <2>7 DEF Close, IdleUser
  <2>8. ASSUME NEW u \in Users, CloseReturns(u)
       PROVE  CodesSound'
    BY <2>8 DEF CloseReturns
  <2>9. ASSUME NEW w \in Workers, NEW r \in Requests, Resume(w, r)
       PROVE  CodesSound'
    BY <2>9 DEF Resume
  <2>10. ASSUME NEW w \in Workers, NEW r \in Requests, Dispatch(w, r)
       PROVE  CodesSound'
    BY SMTT(30), <2>10 DEF Dispatch
  <2>11. ASSUME NEW w \in Workers, HandlerFails(w)
       PROVE  CodesSound'
    BY SMTT(30), <2>11 DEF HandlerFails, Complete, In, Goto, ErrorRecorded
  <2>12. ASSUME NEW w \in Workers, HandlerFindsCancelled(w)
       PROVE  CodesSound'
    BY <2>12 DEF HandlerFindsCancelled, Complete, SeesCancelled, In, Goto
  <2>13. ASSUME NEW w \in Workers, HandlerContinues(w)
       PROVE  CodesSound'
    BY SMTT(30), <2>13 DEF HandlerContinues, In, SeesCancelled, IdleWorker
  <2>14. ASSUME NEW w \in Workers, ResponseReceived(w)
       PROVE  CodesSound'
    BY SMTT(30), <2>14 DEF ResponseReceived, Complete, In, Goto
  <2>15. ASSUME NEW w \in Workers, CompleteErase(w)
       PROVE  CodesSound'
    BY SMTT(30), <2>15 DEF CompleteErase, In, Goto, SessionErased
  <2>16. ASSUME NEW w \in Workers, Report(w)
       PROVE  CodesSound'
    BY SMTT(60), <2>16 DEF Report, In, FinalCode, IdleWorker
  <2>17. ASSUME NEW w \in Workers, Exit(w)
       PROVE  CodesSound'
    BY <2>17 DEF Exit, OutOfWork
  <2>18. ASSUME NEW r \in Requests, OpCompletes(r)
       PROVE  CodesSound'
    BY <2>18 DEF OpCompletes
  <2>19. ASSUME NEW r \in Requests, OpPartial(r)
       PROVE  CodesSound'
    BY <2>19 DEF OpPartial
  <2>20. CASE Finished \/ UNCHANGED vars
    BY <2>20 DEF Finished, vars
  <2>21. QED
    BY <2>1, <2>2, <2>3, <2>4, <2>5, <2>6, <2>7, <2>8, <2>9, <2>10, <2>11,
       <2>12, <2>13, <2>14, <2>15, <2>16, <2>17, <2>18, <2>19, <2>20
       DEF Next, UserStep, WorkerStep
<1>3. QED
  BY <1>1, <1>2, TypeCorrect, OneThreadInvariant, PTL DEF Spec

\* A set flag means one call of cancelRequest, a call that waits for a Session
\* whose flag is set a second one.
LEMMA CancelsInvariant == Spec => []CancelsCounted
<1> USE ClientAssumption
<1>1. Init => CancelsCounted
  BY SMTT(30) DEF Init, CancelsCounted, IdleUser
<1>2. CancelsCounted /\ TypeOK /\ LockOwners /\ MapSound
        /\ TypeOK' /\ LockOwners' /\ MapSound' /\ [Next]_vars
        => CancelsCounted'
  <2> SUFFICES ASSUME CancelsCounted, TypeOK, LockOwners, MapSound,
                      TypeOK', LockOwners', MapSound', [Next]_vars
                PROVE  CancelsCounted'
    OBVIOUS
  <2> USE DEF CancelsCounted, TypeOK, LockOwners, MapSound, UserAt, WorkerAt,
              sessionVars
  <2>1. ASSUME NEW u \in Users, NEW r \in Requests, SubmitThrows(u, r)
       PROVE  CancelsCounted'
    BY <2>1 DEF SubmitThrows
  <2>2. ASSUME NEW u \in Users, NEW r \in Requests, Submit(u, r)
       PROVE  CancelsCounted'
    BY <2>2 DEF Submit, Inserted
  <2>3. ASSUME NEW u \in Users, Connect(u)
       PROVE  CancelsCounted'
    BY <2>3 DEF Connect, IdleUser
  <2>4. ASSUME NEW u \in Users, NEW i \in Ids, CancelMiss(u, i)
       PROVE  CancelsCounted'
    BY <2>4 DEF CancelMiss
  <2>5. ASSUME NEW u \in Users, NEW i \in Ids, CancelFind(u, i)
       PROVE  CancelsCounted'
    BY <2>5 DEF CancelFind, Found
  <2>6. ASSUME NEW u \in Users, CancelMark(u)
       PROVE  CancelsCounted'
    BY <2>6 DEF CancelMark, IdleUser, SockCancel
  <2>7. ASSUME NEW u \in Users, Close(u)
       PROVE  CancelsCounted'
    BY <2>7 DEF Close, IdleUser
  <2>8. ASSUME NEW u \in Users, CloseReturns(u)
       PROVE  CancelsCounted'
    BY <2>8 DEF CloseReturns
  <2>9. ASSUME NEW w \in Workers, NEW r \in Requests, Resume(w, r)
       PROVE  CancelsCounted'
    BY <2>9 DEF Resume
  <2>10. ASSUME NEW w \in Workers, NEW r \in Requests, Dispatch(w, r)
       PROVE  CancelsCounted'
    BY <2>10 DEF Dispatch
  <2>11. ASSUME NEW w \in Workers, HandlerFails(w)
       PROVE  CancelsCounted'
    BY <2>11 DEF HandlerFails, Complete, In, Goto, ErrorRecorded
  <2>12. ASSUME NEW w \in Workers, HandlerFindsCancelled(w)
       PROVE  CancelsCounted'
    BY <2>12 DEF HandlerFindsCancelled, Complete, SeesCancelled, In, Goto
  <2>13. ASSUME NEW w \in Workers, HandlerContinues(w)
       PROVE  CancelsCounted'
    BY <2>13 DEF HandlerContinues, In, SeesCancelled, IdleWorker
  <2>14. ASSUME NEW w \in Workers, ResponseReceived(w)
       PROVE  CancelsCounted'
    BY <2>14 DEF ResponseReceived, Complete, In, Goto
  <2>15. ASSUME NEW w \in Workers, CompleteErase(w)
       PROVE  CancelsCounted'
    BY SMTT(30), <2>15 DEF CompleteErase, In, Goto, SessionErased
  <2>16. ASSUME NEW w \in Workers, Report(w)
       PROVE  CancelsCounted'
    BY <2>16 DEF Report, In, FinalCode, IdleWorker
  <2>17. ASSUME NEW w \in Workers, Exit(w)
       PROVE  CancelsCounted'
    BY <2>17 DEF Exit, OutOfWork
  <2>18. ASSUME NEW r \in Requests, OpCompletes(r)
       PROVE  CancelsCounted'
    BY <2>18 DEF OpCompletes
  <2>19. ASSUME NEW r \in Requests, OpPartial(r)
       PROVE  CancelsCounted'
    BY <2>19 DEF OpPartial
  <2>20. CASE Finished \/ UNCHANGED vars
    BY <2>20 DEF Finished, vars
  <2>21. QED
    BY <2>1, <2>2, <2>3, <2>4, <2>5, <2>6, <2>7, <2>8, <2>9, <2>10, <2>11,
       <2>12, <2>13, <2>14, <2>15, <2>16, <2>17, <2>18, <2>19, <2>20
       DEF Next, UserStep, WorkerStep
<1>3. QED
  BY <1>1, <1>2, TypeCorrect, LockInvariant, MapInvariant, PTL DEF Spec

\* A thread that has left run() stays out of work, and close() returns only when
\* all of them have left.
LEMMA StoppedInvariant == Spec => []Stopped
<1> USE ClientAssumption
<1>1. Init => Stopped
  BY SMTT(30) DEF Init, Stopped, IdleUser, IdleWorker
<1>2. Stopped /\ TypeOK /\ OneThread
        /\ TypeOK' /\ OneThread' /\ [Next]_vars
        => Stopped'
  <2> SUFFICES ASSUME Stopped, TypeOK, OneThread, TypeOK', OneThread', [Next]_vars
                PROVE  Stopped'
    OBVIOUS
  <2> USE DEF Stopped, TypeOK, OneThread, AllJoined, OutOfWork, Busy, Codes,
              In, UserAt, WorkerAt, sessionVars
  <2>1. ASSUME NEW u \in Users, NEW r \in Requests, SubmitThrows(u, r)
       PROVE  Stopped'
    BY <2>1 DEF SubmitThrows
  <2>2. ASSUME NEW u \in Users, NEW r \in Requests, Submit(u, r)
       PROVE  Stopped'
    BY <2>2 DEF Submit, Inserted
  <2>3. ASSUME NEW u \in Users, Connect(u)
       PROVE  Stopped'
    BY <2>3 DEF Connect, IdleUser
  <2>4. ASSUME NEW u \in Users, NEW i \in Ids, CancelMiss(u, i)
       PROVE  Stopped'
    BY <2>4 DEF CancelMiss
  <2>5. ASSUME NEW u \in Users, NEW i \in Ids, CancelFind(u, i)
       PROVE  Stopped'
    BY <2>5 DEF CancelFind, Found
  <2>6. ASSUME NEW u \in Users, CancelMark(u)
       PROVE  Stopped'
    BY <2>6 DEF CancelMark, IdleUser, SockCancel
  <2>7. ASSUME NEW u \in Users, Close(u)
       PROVE  Stopped'
    BY <2>7 DEF Close, IdleUser
  <2>8. ASSUME NEW u \in Users, CloseReturns(u)
       PROVE  Stopped'
    BY <2>8 DEF CloseReturns
  <2>9. ASSUME NEW w \in Workers, NEW r \in Requests, Resume(w, r)
       PROVE  Stopped'
    BY <2>9 DEF Resume
  <2>10. ASSUME NEW w \in Workers, NEW r \in Requests, Dispatch(w, r)
       PROVE  Stopped'
    BY <2>10 DEF Dispatch
  <2>11. ASSUME NEW w \in Workers, HandlerFails(w)
       PROVE  Stopped'
    BY <2>11 DEF HandlerFails, Complete, In, Goto, ErrorRecorded
  <2>12. ASSUME NEW w \in Workers, HandlerFindsCancelled(w)
       PROVE  Stopped'
    BY <2>12 DEF HandlerFindsCancelled, Complete, SeesCancelled, In, Goto
  <2>13. ASSUME NEW w \in Workers, HandlerContinues(w)
       PROVE  Stopped'
    BY <2>13 DEF HandlerContinues, In, SeesCancelled, IdleWorker
  <2>14. ASSUME NEW w \in Workers, ResponseReceived(w)
       PROVE  Stopped'
    BY <2>14 DEF ResponseReceived, Complete, In, Goto
  <2>15. ASSUME NEW w \in Workers, CompleteErase(w)
       PROVE  Stopped'
    BY SMTT(30), <2>15 DEF CompleteErase, In, Goto, SessionErased
  <2>16. ASSUME NEW w \in Workers, Report(w)
       PROVE  Stopped'
    BY <2>16 DEF Report, In, FinalCode, IdleWorker
  <2>17. ASSUME NEW w \in Workers, Exit(w)
       PROVE  Stopped'
    BY <2>17 DEF Exit, OutOfWork
  <2>18. ASSUME NEW r \in Requests, OpCompletes(r)
       PROVE  Stopped'
    BY <2>18 DEF OpCompletes
  <2>19. ASSUME NEW r \in Requests, OpPartial(r)
       PROVE  Stopped'
    BY <2>19 DEF OpPartial
  <2>20. CASE Finished \/ UNCHANGED vars
    BY <2>20 DEF Finished, vars
  <2>21. QED
    BY <2>1, <2>2, <2>3, <2>4, <2>5, <2>6, <2>7, <2>8, <2>9, <2>10, <2>11,
       <2>12, <2>13, <2>14, <2>15, <2>16, <2>17, <2>18, <2>19, <2>20
       DEF Next, UserStep, WorkerStep
<1>3. QED
  BY <1>1, <1>2, TypeCorrect, OneThreadInvariant, PTL DEF Spec

-----------------------------------------------------------------------------

\* m_callback is called at most once for a Session, whatever the interleaving.
THEOREM CallbackOnce == Spec => []CallbackAtMostOnce
<1>1. OneThread => CallbackAtMostOnce
  BY DEF OneThread, CallbackAtMostOnce
<1>2. QED
  BY <1>1, OneThreadInvariant, PTL

\* A Session marked by cancelRequest never reports success: the flag cannot be
\* set between its unlocked read in onRequestComplete and the callback.
THEOREM CancelIsFinal == Spec => []CancelWins
<1> USE ClientAssumption
<1>1. Init => CancelWins
  BY DEF Init, CancelWins
<1>2. CancelWins /\ TypeOK /\ OneThread /\ MapSound
        /\ TypeOK' /\ OneThread' /\ MapSound' /\ [Next]_vars
        => CancelWins'
  <2> SUFFICES ASSUME CancelWins, TypeOK, OneThread, MapSound,
                      TypeOK', OneThread', MapSound', [Next]_vars
                PROVE  CancelWins'
    OBVIOUS
  <2> USE DEF CancelWins, MapSound, TypeOK, OneThread, Busy, Registered,
              Erased, Stages, Codes, Outcomes, In, UserAt, WorkerAt, sessionVars
  <2>1. ASSUME NEW u \in Users, NEW r \in Requests, SubmitThrows(u, r)
       PROVE  CancelWins'
    BY SMTT(30), <2>1 DEF SubmitThrows
  <2>2. ASSUME NEW u \in Users, NEW r \in Requests, Submit(u, r)
       PROVE  CancelWins'
    BY <2>2 DEF Submit, Inserted
  <2>3. ASSUME NEW u \in Users, Connect(u)
       PROVE  CancelWins'
    BY <2>3 DEF Connect, IdleUser
  <2>4. ASSUME NEW u \in Users, NEW i \in Ids, CancelMiss(u, i)
       PROVE  CancelWins'
    BY <2>4 DEF CancelMiss
  <2>5. ASSUME NEW u \in Users, NEW i \in Ids, CancelFind(u, i)
       PROVE  CancelWins'
    BY SMTT(30), <2>5 DEF CancelFind, Found
  <2>6. ASSUME NEW u \in Users, CancelMark(u)
       PROVE  CancelWins'
    BY <2>6 DEF CancelMark, IdleUser, SockCancel
  <2>7. ASSUME NEW u \in Users, Close(u)
       PROVE  CancelWins'
    BY SMTT(30), <2>7 DEF Close, IdleUser
  <2>8. ASSUME NEW u \in Users, CloseReturns(u)
       PROVE  CancelWins'
    BY <2>8 DEF CloseReturns
  <2>9. ASSUME NEW w \in Workers, NEW r \in Requests, Resume(w, r)
       PROVE  CancelWins'
    BY <2>9 DEF Resume
  <2>10. ASSUME NEW w \in Workers, NEW r \in Requests, Dispatch(w, r)
       PROVE  CancelWins'
    BY <2>10 DEF Dispatch
  <2>11. ASSUME NEW w \in Workers, HandlerFails(w)
       PROVE  CancelWins'
    BY <2>11 DEF HandlerFails, Complete, In, Goto, ErrorRecorded
  <2>12. ASSUME NEW w \in Workers, HandlerFindsCancelled(w)
       PROVE  CancelWins'
    BY SMTT(30), <2>12 DEF HandlerFindsCancelled, Complete, SeesCancelled, In, Goto
  <2>13. ASSUME NEW w \in Workers, HandlerContinues(w)
       PROVE  CancelWins'
    BY <2>13 DEF HandlerContinues, In, SeesCancelled, IdleWorker
  <2>14. ASSUME NEW w \in Workers, ResponseReceived(w)
       PROVE  CancelWins'
    BY SMTT(30), <2>14 DEF ResponseReceived, Complete, In, Goto
  <2>15. ASSUME NEW w \in Workers, CompleteErase(w)
       PROVE  CancelWins'
    BY SMTT(30), <2>15 DEF CompleteErase, In, Goto, SessionErased
  <2>16. ASSUME NEW w \in Workers, Report(w)
       PROVE  CancelWins'
    BY SMTT(60), <2>16 DEF Report, In, FinalCode, IdleWorker
  <2>17. ASSUME NEW w \in Workers, Exit(w)
       PROVE  CancelWins'
    BY <2>17 DEF Exit, OutOfWork
  <2>18. ASSUME NEW r \in Requests, OpCompletes(r)
       PROVE  CancelWins'
    BY <2>18 DEF OpCompletes
  <2>19. ASSUME NEW r \in Requests, OpPartial(r)
       PROVE  CancelWins'
    BY <2>19 DEF OpPartial
  <2>20. CASE Finished \/ UNCHANGED vars
    BY <2>20 DEF Finished, vars
  <2>21. QED
    BY <2>1, <2>2, <2>3, <2>4, <2>5, <2>6, <2>7, <2>8, <2>9, <2>10, <2>11,
       <2>12, <2>13, <2>14, <2>15, <2>16, <2>17, <2>18, <2>19, <2>20
       DEF Next, UserStep, WorkerStep
<1>3. QED
  BY <1>1, <1>2, TypeCorrect, MapInvariant, OneThreadInvariant, PTL DEF Spec

\* Success means a response, "cancelled by the user" means that cancelRequest was
\* called.
THEOREM OutcomeIsJustified == Spec => []OutcomeJustified
<1>1. CodesSound => OutcomeJustified
  BY DEF CodesSound
<1>2. QED
  BY <1>1, CodesInvariant, PTL

\* cancelRequest finds a Session from its registration to its erasure, but for steps
\* in which another Session with the same id is registered or erased.
THEOREM NoOrphan == Spec => OrphanOnlyByReuse
<1> USE ClientAssumption
<1> DEFINE Gone ==
      \A r \in Requests :
        Outstanding(r)' /\ ~Reachable(r)' =>
          \/ Registered(r) /\ ~Reachable(r)
          \/ \E q \in Requests \ {r} :
               /\ IdOf[q] = IdOf[r]
               /\ (~Registered(q) /\ Registered(q)') \/ (~Erased(q) /\ Erased(q)')
<1>1. TypeOK /\ OneThread /\ [Next]_vars => Gone
  <2> SUFFICES ASSUME TypeOK, OneThread, [Next]_vars PROVE Gone
    OBVIOUS
  <2> HIDE DEF Gone
  \* Steps that leave the map alone and register nothing.
  <2>100. ASSUME UNCHANGED active, \A q \in Requests : Registered(q)' => Registered(q)
          PROVE  Gone
    BY <2>100 DEF Gone, Outstanding, Reachable
  <2>1. ASSUME NEW u \in Users, NEW r \in Requests, SubmitThrows(u, r)
       PROVE  Gone
    <3>1. UNCHANGED active
      BY <2>1 DEF SubmitThrows
    <3>2. \A q \in Requests : Registered(q)' => Registered(q)
      BY <2>1 DEF SubmitThrows, Registered, Stages, TypeOK
    <3>3. QED
      BY <3>1, <3>2, <2>100
  <2>2. ASSUME NEW u \in Users, NEW r \in Requests, Submit(u, r)
       PROVE  Gone
    <3>1. /\ ~Registered(r) /\ Registered(r)' /\ Reachable(r)'
          /\ \A q \in Requests \ {r} :
               /\ Registered(q)' => Registered(q)
               /\ Reachable(q) /\ ~Reachable(q)' => IdOf[q] = IdOf[r]
      BY <2>2 DEF Submit, Inserted, Registered, Reachable, Stages, TypeOK
    <3>2. QED
      BY <3>1 DEF Gone, Outstanding
  <2>3. ASSUME NEW u \in Users, Connect(u)
       PROVE  Gone
    <3>1. UNCHANGED active
      BY <2>3 DEF Connect
    <3>2. Registered(user[u].req)
      BY <2>3 DEF Connect, OneThread
    <3>3. \A q \in Requests : Registered(q)' => Registered(q)
      BY <2>3, <3>2 DEF Connect, Registered, Stages, TypeOK
    <3>4. QED
      BY <3>1, <3>3, <2>100
  <2>4. ASSUME NEW u \in Users, NEW i \in Ids, CancelMiss(u, i)
       PROVE  Gone
    <3>1. UNCHANGED active
      BY <2>4 DEF CancelMiss, sessionVars
    <3>2. \A q \in Requests : Registered(q)' => Registered(q)
      BY <2>4 DEF CancelMiss, sessionVars, Registered, Stages, TypeOK
    <3>3. QED
      BY <3>1, <3>2, <2>100
  <2>5. ASSUME NEW u \in Users, NEW i \in Ids, CancelFind(u, i)
       PROVE  Gone
    <3>1. UNCHANGED active
      BY <2>5 DEF CancelFind, sessionVars
    <3>2. \A q \in Requests : Registered(q)' => Registered(q)
      BY <2>5 DEF CancelFind, sessionVars, Registered, Stages, TypeOK
    <3>3. QED
      BY <3>1, <3>2, <2>100
  <2>6. ASSUME NEW u \in Users, CancelMark(u)
       PROVE  Gone
    <3>1. UNCHANGED active
      BY <2>6 DEF CancelMark, sessionVars
    <3>2. \A q \in Requests : Registered(q)' => Registered(q)
      BY <2>6 DEF CancelMark, sessionVars, Registered, Stages, TypeOK
    <3>3. QED
      BY <3>1, <3>2, <2>100
  <2>7. ASSUME NEW u \in Users, Close(u)
       PROVE  Gone
    <3>1. UNCHANGED active
      BY <2>7 DEF Close, sessionVars
    <3>2. \A q \in Requests : Registered(q)' => Registered(q)
      BY <2>7 DEF Close, sessionVars, Registered, Stages, TypeOK
    <3>3. QED
      BY <3>1, <3>2, <2>100
  <2>8. ASSUME NEW u \in Users, CloseReturns(u)
       PROVE  Gone
    <3>1. UNCHANGED active
      BY <2>8 DEF CloseReturns, sessionVars
    <3>2. \A q \in Requests : Registered(q)' => Registered(q)
      BY <2>8 DEF CloseReturns, sessionVars, Registered, Stages, TypeOK
    <3>3. QED
      BY <3>1, <3>2, <2>100
  <2>9. ASSUME NEW w \in Workers, NEW r \in Requests, Resume(w, r)
       PROVE  Gone
    <3>1. UNCHANGED active
      BY <2>9 DEF Resume, sessionVars
    <3>2. \A q \in Requests : Registered(q)' => Registered(q)
      BY <2>9 DEF Resume, sessionVars, Registered, Stages, TypeOK
    <3>3. QED
      BY <3>1, <3>2, <2>100
  <2>10. ASSUME NEW w \in Workers, NEW r \in Requests, Dispatch(w, r)
       PROVE  Gone
    <3>1. UNCHANGED active
      BY <2>10 DEF Dispatch, sessionVars
    <3>2. \A q \in Requests : Registered(q)' => Registered(q)
      BY <2>10 DEF Dispatch, sessionVars, Registered, Stages, TypeOK
    <3>3. QED
      BY <3>1, <3>2, <2>100
  <2>11. ASSUME NEW w \in Workers, HandlerFails(w)
       PROVE  Gone
    <3>1. UNCHANGED active
      BY <2>11 DEF HandlerFails
    <3>2. \A q \in Requests : Registered(q)' => Registered(q)
      BY <2>11 DEF HandlerFails, Registered, Stages, TypeOK
    <3>3. QED
      BY <3>1, <3>2, <2>100
  <2>12. ASSUME NEW w \in Workers, HandlerFindsCancelled(w)
       PROVE  Gone
    <3>1. UNCHANGED active
      BY <2>12 DEF HandlerFindsCancelled, sessionVars
    <3>2. \A q \in Requests : Registered(q)' => Registered(q)
      BY <2>12 DEF HandlerFindsCancelled, sessionVars, Registered, Stages, TypeOK
    <3>3. QED
      BY <3>1, <3>2, <2>100
  <2>13. ASSUME NEW w \in Workers, HandlerContinues(w)
       PROVE  Gone
    <3>1. UNCHANGED active
      BY <2>13 DEF HandlerContinues
    <3>2. \A q \in Requests : Registered(q)' => Registered(q)
      BY <2>13 DEF HandlerContinues, Registered, Stages, TypeOK
    <3>3. QED
      BY <3>1, <3>2, <2>100
  <2>14. ASSUME NEW w \in Workers, ResponseReceived(w)
       PROVE  Gone
    <3>1. UNCHANGED active
      BY <2>14 DEF ResponseReceived
    <3>2. \A q \in Requests : Registered(q)' => Registered(q)
      BY <2>14 DEF ResponseReceived, Registered, Stages, TypeOK
    <3>3. QED
      BY <3>1, <3>2, <2>100
  <2>15. ASSUME NEW w \in Workers, CompleteErase(w)
       PROVE  Gone
    <3>1. PICK r \in Requests : r = worker[w].req /\ Busy(w) /\ callbacks[r] = 0
      BY <2>15 DEF CompleteErase, In, Busy, TypeOK, OneThread
    <3>2. ~Erased(r)
      BY <2>15, <3>1 DEF Erased, CompleteErase, In, Busy, OneThread, TypeOK
    <3>3. worker' = [worker EXCEPT ![w].at = "report"]
      BY <2>15 DEF CompleteErase, Goto
    <3>4. Erased(r)'
      BY <3>1, <3>3 DEF Erased, In, TypeOK
    <3>5. \A q \in Requests :
            /\ Registered(q)' => Registered(q)
            /\ Reachable(q) /\ ~Reachable(q)' => IdOf[q] = IdOf[r]
      BY <2>15, <3>1 DEF CompleteErase, SessionErased, Registered, Reachable, TypeOK
    <3>6. ASSUME NEW q \in Requests, Outstanding(q)', ~Reachable(q)',
                 ~(Registered(q) /\ ~Reachable(q))
          PROVE  q # r /\ IdOf[r] = IdOf[q]
      <4>1. ~Erased(q)' /\ Registered(q)'
        BY <3>6 DEF Outstanding
      <4>2. q # r
        BY <3>4, <4>1
      <4>3. Reachable(q)
        BY <3>5, <3>6, <4>1
      <4>4. QED
        BY <3>5, <3>6, <4>2, <4>3
    <3>7. QED
      BY <3>1, <3>2, <3>4, <3>6 DEF Gone
  <2>16. ASSUME NEW w \in Workers, Report(w)
       PROVE  Gone
    <3>1. UNCHANGED active
      BY <2>16 DEF Report
    <3>2. \A q \in Requests : Registered(q)' => Registered(q)
      BY <2>16 DEF Report, Registered, Stages, TypeOK
    <3>3. QED
      BY <3>1, <3>2, <2>100
  <2>17. ASSUME NEW w \in Workers, Exit(w)
       PROVE  Gone
    <3>1. UNCHANGED active
      BY <2>17 DEF Exit, sessionVars
    <3>2. \A q \in Requests : Registered(q)' => Registered(q)
      BY <2>17 DEF Exit, sessionVars, Registered, Stages, TypeOK
    <3>3. QED
      BY <3>1, <3>2, <2>100
  <2>18. ASSUME NEW r \in Requests, OpCompletes(r)
       PROVE  Gone
    <3>1. UNCHANGED active
      BY <2>18 DEF OpCompletes, sessionVars
    <3>2. \A q \in Requests : Registered(q)' => Registered(q)
      BY <2>18 DEF OpCompletes, sessionVars, Registered, Stages, TypeOK
    <3>3. QED
      BY <3>1, <3>2, <2>100
  <2>19. ASSUME NEW r \in Requests, OpPartial(r)
       PROVE  Gone
    <3>1. UNCHANGED active
      BY <2>19 DEF OpPartial
    <3>2. \A q \in Requests : Registered(q)' => Registered(q)
      BY <2>19 DEF OpPartial, Registered, Stages, TypeOK
    <3>3. QED
      BY <3>1, <3>2, <2>100
  <2>20. CASE Finished \/ UNCHANGED vars
    <3>1. UNCHANGED active /\ \A q \in Requests : Registered(q)' => Registered(q)
      BY <2>20 DEF Finished, vars, Registered
    <3>2. QED
      BY <3>1, <2>100
  <2>21. QED
    BY <2>1, <2>2, <2>3, <2>4, <2>5, <2>6, <2>7, <2>8, <2>9, <2>10, <2>11,
       <2>12, <2>13, <2>14, <2>15, <2>16, <2>17, <2>18, <2>19, <2>20
       DEF Next, UserStep, WorkerStep
<1>2. QED
  BY <1>1, TypeCorrect, OneThreadInvariant, PTL DEF Spec, OrphanOnlyByReuse

\* The two mutexes block each other only after cancelRequest was called twice for
\* one id: a handler holds m_cancel_guard across steps only if the flag is set.
THEOREM CircularWaitBound == Spec => []CircularWaitNeedsRepeat
<1>1. TypeOK /\ LockOwners /\ CancelsCounted => CircularWaitNeedsRepeat
  <2> SUFFICES ASSUME TypeOK, LockOwners, CancelsCounted,
                      NEW u \in Users, NEW w \in Workers, CircularWait(u, w)
               PROVE  cancels[IdOf[user[u].req]] >= 2
    BY DEF CircularWaitNeedsRepeat
  <2>1. user[u].at = "marking" /\ user[u].req \in Requests
    BY DEF TypeOK, CircularWait
  <2>2. cancelGuard[user[u].req] # Nobody
    BY ClientAssumption DEF CircularWait
  <2>3. wasCancelled[user[u].req]
    BY <2>1, <2>2 DEF LockOwners
  <2>4. QED
    BY <2>1, <2>3 DEF CancelsCounted
<1>2. QED
  BY <1>1, TypeCorrect, LockInvariant, CancelsInvariant, PTL

\* When close() has returned every submitted request has been reported and the
\* map is empty.
THEOREM CloseDrainsAll == Spec => []CloseDrains
<1>1. /\ TypeOK /\ OneThread /\ Continues /\ MapSound /\ Stopped
      => CloseDrains
  <2> SUFFICES ASSUME TypeOK, OneThread, Continues, MapSound, Stopped,
                      NEW u \in Users, user[u].at = "closed"
               PROVE  /\ \A r \in Requests : Registered(r) => callbacks[r] = 1
                      /\ \A i \in Ids : active[i] = NoRequest
    BY DEF CloseDrains
  <2>1. AllJoined /\ OutOfWork
    BY ClientAssumption DEF Stopped, AllJoined
  <2>2. /\ \A w \in Workers : ~Busy(w)
        /\ \A v \in Users : user[v].at # "connecting"
        /\ \A r \in Requests : op[r] = "none"
    BY <2>1 DEF AllJoined, OutOfWork, Stopped, Busy
  <2>3. ASSUME NEW r \in Requests, Registered(r)
        PROVE  callbacks[r] = 1
    <3>1. callbacks[r] # 0
      BY <2>2, <2>3 DEF Continues
    <3>2. QED
      BY <3>1 DEF TypeOK, OneThread
  <2>4. ASSUME NEW i \in Ids, active[i] # NoRequest
        PROVE  FALSE
    <3>1. active[i] \in Requests /\ Registered(active[i]) /\ ~Erased(active[i])
      BY <2>4 DEF TypeOK, MapSound
    <3>2. callbacks[active[i]] = 1
      BY <2>3, <3>1
    <3>3. QED
      BY <3>1, <3>2 DEF Erased
  <2>5. QED
    BY <2>3, <2>4
<1>2. QED
  BY <1>1, TypeCorrect, OneThreadInvariant, ContinuesInvariant, MapInvariant,
     StoppedInvariant, PTL

\* An operation of a marked Session is pending only where m_sock.cancel() came
\* before async_connect was initiated or between two transfers.
THEOREM RunsOn == Spec => []RunsOnOnlyInWindows
<1> USE ClientAssumption
<1>1. Init => Windows
  BY DEF Init, Windows, RunsOnOnlyInWindows
<1>2. Windows /\ TypeOK /\ [Next]_vars => Windows'
  <2> SUFFICES ASSUME Windows, TypeOK, [Next]_vars PROVE Windows'
    OBVIOUS
  <2> USE DEF Windows, RunsOnOnlyInWindows, TypeOK, Codes, Stages, UserAt, WorkerAt,
              sessionVars
  <2>1. ASSUME NEW u \in Users, NEW r \in Requests, SubmitThrows(u, r)
       PROVE  Windows'
    BY <2>1 DEF SubmitThrows
  <2>2. ASSUME NEW u \in Users, NEW r \in Requests, Submit(u, r)
       PROVE  Windows'
    BY <2>2 DEF Submit, Inserted
  <2>3. ASSUME NEW u \in Users, Connect(u)
       PROVE  Windows'
    BY <2>3 DEF Connect, IdleUser
  <2>4. ASSUME NEW u \in Users, NEW i \in Ids, CancelMiss(u, i)
       PROVE  Windows'
    BY <2>4 DEF CancelMiss
  <2>5. ASSUME NEW u \in Users, NEW i \in Ids, CancelFind(u, i)
       PROVE  Windows'
    BY <2>5 DEF CancelFind, Found
  <2>6. ASSUME NEW u \in Users, CancelMark(u)
       PROVE  Windows'
    BY <2>6 DEF CancelMark, IdleUser, SockCancel
  <2>7. ASSUME NEW u \in Users, Close(u)
       PROVE  Windows'
    BY <2>7 DEF Close, IdleUser
  <2>8. ASSUME NEW u \in Users, CloseReturns(u)
       PROVE  Windows'
    BY <2>8 DEF CloseReturns
  <2>9. ASSUME NEW w \in Workers, NEW r \in Requests, Resume(w, r)
       PROVE  Windows'
    BY <2>9 DEF Resume
  <2>10. ASSUME NEW w \in Workers, NEW r \in Requests, Dispatch(w, r)
       PROVE  Windows'
    BY <2>10 DEF Dispatch
  <2>11. ASSUME NEW w \in Workers, HandlerFails(w)
       PROVE  Windows'
    BY <2>11 DEF HandlerFails, Complete, In, Goto, ErrorRecorded
  <2>12. ASSUME NEW w \in Workers, HandlerFindsCancelled(w)
       PROVE  Windows'
    BY <2>12 DEF HandlerFindsCancelled, Complete, SeesCancelled, In, Goto
  <2>13. ASSUME NEW w \in Workers, HandlerContinues(w)
       PROVE  Windows'
    BY <2>13 DEF HandlerContinues, In, SeesCancelled, IdleWorker
  <2>14. ASSUME NEW w \in Workers, ResponseReceived(w)
       PROVE  Windows'
    BY <2>14 DEF ResponseReceived, Complete, In, Goto
  <2>15. ASSUME NEW w \in Workers, CompleteErase(w)
       PROVE  Windows'
    BY <2>15 DEF CompleteErase, In, Goto, SessionErased
  <2>16. ASSUME NEW w \in Workers, Report(w)
       PROVE  Windows'
    BY <2>16 DEF Report, In, FinalCode, IdleWorker
  <2>17. ASSUME NEW w \in Workers, Exit(w)
       PROVE  Windows'
    BY <2>17 DEF Exit, OutOfWork
  <2>18. ASSUME NEW r \in Requests, OpCompletes(r)
       PROVE  Windows'
    BY <2>18 DEF OpCompletes
  <2>19. ASSUME NEW r \in Requests, OpPartial(r)
       PROVE  Windows'
    BY <2>19 DEF OpPartial
  <2>20. CASE Finished \/ UNCHANGED vars
    BY <2>20 DEF Finished, vars
  <2>21. QED
    BY <2>1, <2>2, <2>3, <2>4, <2>5, <2>6, <2>7, <2>8, <2>9, <2>10, <2>11,
       <2>12, <2>13, <2>14, <2>15, <2>16, <2>17, <2>18, <2>19, <2>20
       DEF Next, UserStep, WorkerStep
<1>3. Windows => RunsOnOnlyInWindows
  BY DEF Windows
<1>4. QED
  BY <1>1, <1>2, <1>3, TypeCorrect, PTL DEF Spec

-----------------------------------------------------------------------------

\* The client implements RequestLifecycle: submitting, marking, reporting and
\* closing are its steps, everything else leaves status, cancelled and closed
\* alone.
THEOREM Implementation == Spec => ImplementsLifecycle
<1> USE ClientAssumption
<1>1. Init => Lifecycle!Init
  BY DEF Init, Lifecycle!Init, Status, IdleUser
<1>2. /\ TypeOK /\ OneThread /\ MapSound /\ CodesSound /\ Stopped /\ CloseDrains'
      /\ OneThread' /\ TypeOK' /\ [Next]_vars
      => [Lifecycle!Next]_(Lifecycle!vars)
  <2> SUFFICES ASSUME TypeOK, OneThread, MapSound, CodesSound, Stopped,
                      CloseDrains', OneThread', TypeOK', [Next]_vars
               PROVE  [Lifecycle!Next]_(Lifecycle!vars)
    OBVIOUS
  <2> DEFINE Goal == Lifecycle!Next \/ UNCHANGED Lifecycle!vars
             Closed == \E v \in Users : user[v].at = "closed"
             Stutter == /\ \A r \in Requests : Status(r)' = Status(r)
                        /\ wasCancelled' = wasCancelled
                        /\ Closed' = Closed
  <2> HIDE DEF Stutter, Closed
  <2>100. Stutter => Goal
    BY DEF Stutter, Closed, Lifecycle!vars
  <2>101. work => ~Closed
    BY DEF Closed, Stopped, AllJoined, OutOfWork
  <2>1. ASSUME NEW u \in Users, NEW r \in Requests, SubmitThrows(u, r)
       PROVE  Goal
    <3>1. ~Closed /\ ~Closed'
      BY <2>1, <2>101 DEF SubmitThrows, Closed
    <3>2. Status(r) = "new"
      BY <2>1 DEF SubmitThrows, Status
    <3>3. [q \in Requests |-> Status(q)]'
            = [[q \in Requests |-> Status(q)] EXCEPT ![r] = "refused"]
      BY <2>1 DEF SubmitThrows, Status, TypeOK
    <3>4. UNCHANGED wasCancelled
      BY <2>1 DEF SubmitThrows
    <3>5. Lifecycle!Refuse(r)
      BY <3>1, <3>2, <3>3, <3>4 DEF Closed, Lifecycle!Refuse, Lifecycle!Move
    <3>6. QED
      BY <3>5 DEF Lifecycle!Next
  <2>2. ASSUME NEW u \in Users, NEW r \in Requests, Submit(u, r)
       PROVE  Goal
    <3>1. outcome[r] = "none"
      BY <2>2 DEF Submit, Inserted, OneThread, Registered, Stages, TypeOK
    <3>2. Closed' = Closed
      BY <2>2 DEF Submit, Inserted, Closed, TypeOK, UserAt
    <3>3. ~Closed /\ ~Closed'
      BY <2>2, <2>101, <3>2 DEF Submit, Inserted
    <3>4. Status(r) = "new"
      BY <2>2 DEF Submit, Inserted, Status
    <3>5. [q \in Requests |-> Status(q)]'
            = [[q \in Requests |-> Status(q)] EXCEPT ![r] = "active"]
      <4>1. /\ stage \in [Requests -> Stages \cup {"new", "thrown"}]
            /\ stage' = [stage EXCEPT ![r] = "registered"]
            /\ outcome' = outcome
        BY <2>2 DEF Submit, Inserted, TypeOK
      <4>2. Status(r)' = "active"
        BY <3>1, <4>1 DEF Status
      <4>3. \A q \in Requests : q # r => Status(q)' = Status(q)
        BY <4>1 DEF Status
      <4>4. QED
        BY <4>2, <4>3
    <3>6. UNCHANGED wasCancelled
      BY <2>2 DEF Submit, Inserted
    <3>7. Lifecycle!Submit(r)
      BY <3>2, <3>3, <3>4, <3>5, <3>6
         DEF Closed, Lifecycle!Submit, Inserted, Lifecycle!Move
    <3>8. QED
      BY <3>7 DEF Lifecycle!Next
  <2>3. ASSUME NEW u \in Users, Connect(u)
       PROVE  Goal
    <3>0. Registered(user[u].req)
      BY <2>3 DEF Connect, OneThread
    <3>1. Stutter
      BY <2>3, <3>0
         DEF Stutter, Closed, Status, Connect, IdleUser, TypeOK, UserAt,
             Registered, Stages
    <3>2. QED
      BY <3>1, <2>100
  <2>4. ASSUME NEW u \in Users, NEW i \in Ids, CancelMiss(u, i)
       PROVE  Goal
    <3>1. Stutter
      BY <2>4 DEF Stutter, Closed, Status, CancelMiss, TypeOK, UserAt, sessionVars
    <3>2. QED
      BY <3>1, <2>100
  <2>5. ASSUME NEW u \in Users, NEW i \in Ids, CancelFind(u, i)
       PROVE  Goal
    <3>1. Stutter
      BY <2>5
         DEF Stutter, Closed, Status, CancelFind, Found, TypeOK, UserAt,
             sessionVars
    <3>2. QED
      BY <3>1, <2>100
  <2>6. ASSUME NEW u \in Users, CancelMark(u)
       PROVE  Goal
    <3> SUFFICES ASSUME NEW r \in Requests, r = user[u].req
                 PROVE  Goal
      BY <2>6 DEF CancelMark, TypeOK
    <3>1. active[IdOf[r]] = r
      BY <2>6 DEF CancelMark, MapSound
    <3>2. Registered(r) /\ ~Erased(r)
      BY <3>1 DEF MapSound
    <3>3. Status(r) = "active"
      BY <3>2 DEF Status, Registered, Stages, Erased, OneThread
    <3>4. Closed' = Closed
      BY <2>6 DEF CancelMark, IdleUser, Closed, TypeOK, UserAt
    <3>5. /\ wasCancelled' = [wasCancelled EXCEPT ![r] = TRUE]
          /\ UNCHANGED <<stage, outcome>>
      BY <2>6 DEF CancelMark, sessionVars
    <3>6. Lifecycle!Cancel(r)
      BY <3>3, <3>4, <3>5 DEF Closed, Lifecycle!Cancel, Status, TypeOK
    <3>7. QED
      BY <3>6 DEF Lifecycle!Next
  <2>7. ASSUME NEW u \in Users, Close(u)
       PROVE  Goal
    <3>1. Stutter
      BY <2>7
         DEF Stutter, Closed, Status, Close, IdleUser, TypeOK, UserAt,
             sessionVars
    <3>2. QED
      BY <3>1, <2>100
  <2>8. ASSUME NEW u \in Users, CloseReturns(u)
       PROVE  Goal
    <3>1. /\ Closed'
          /\ UNCHANGED <<stage, outcome, callbacks, wasCancelled>>
      BY <2>8 DEF CloseReturns, Closed, TypeOK, sessionVars
    <3>2. \A r \in Requests : Registered(r) => outcome[r] # "none"
      BY <3>1 DEF Closed, CloseDrains, OneThread, Registered
    <3>3. \A r \in Requests : Status(r) # "active" /\ Status(r)' = Status(r)
      BY <3>1, <3>2 DEF Status, Registered, Stages, TypeOK, Outcomes, Codes
    <3>4. Lifecycle!Close
      BY <3>1, <3>3 DEF Lifecycle!Close, Closed
    <3>5. QED
      BY <3>4 DEF Lifecycle!Next
  <2>9. ASSUME NEW w \in Workers, NEW r \in Requests, Resume(w, r)
       PROVE  Goal
    <3>1. Stutter
      BY <2>9 DEF Stutter, Closed, Status, Resume, TypeOK, UserAt, sessionVars
    <3>2. QED
      BY <3>1, <2>100
  <2>10. ASSUME NEW w \in Workers, NEW r \in Requests, Dispatch(w, r)
       PROVE  Goal
    <3>1. Stutter
      BY <2>10 DEF Stutter, Closed, Status, Dispatch, TypeOK, UserAt, sessionVars
    <3>2. QED
      BY <3>1, <2>100
  <2>11. ASSUME NEW w \in Workers, HandlerFails(w)
       PROVE  Goal
    <3>1. Stutter
      BY <2>11
         DEF Stutter, Closed, Status, HandlerFails, Complete, In, Goto,
             ErrorRecorded, TypeOK, UserAt, sessionVars
    <3>2. QED
      BY <3>1, <2>100
  <2>12. ASSUME NEW w \in Workers, HandlerFindsCancelled(w)
       PROVE  Goal
    <3>1. Stutter
      BY <2>12
         DEF Stutter, Closed, Status, HandlerFindsCancelled, Complete,
             SeesCancelled, In, Goto, TypeOK, UserAt, sessionVars
    <3>2. QED
      BY <3>1, <2>100
  <2>13. ASSUME NEW w \in Workers, HandlerContinues(w)
       PROVE  Goal
    <3>1. Stutter
      BY <2>13
         DEF Stutter, Closed, Status, HandlerContinues, In, SeesCancelled,
             IdleWorker, TypeOK, UserAt, sessionVars, Registered, Stages
    <3>2. QED
      BY <3>1, <2>100
  <2>14. ASSUME NEW w \in Workers, ResponseReceived(w)
       PROVE  Goal
    <3>1. Stutter
      BY <2>14
         DEF Stutter, Closed, Status, ResponseReceived, Complete, In, Goto,
             TypeOK, UserAt, sessionVars
    <3>2. QED
      BY <3>1, <2>100
  <2>15. ASSUME NEW w \in Workers, CompleteErase(w)
       PROVE  Goal
    <3>1. Stutter
      BY <2>15
         DEF Stutter, Closed, Status, CompleteErase, In, Goto, SessionErased,
             TypeOK, UserAt, sessionVars
    <3>2. QED
      BY <3>1, <2>100
  <2>16. ASSUME NEW w \in Workers, Report(w)
       PROVE  Goal
    <3> DEFINE r == worker[w].req
    <3>1. r \in Requests /\ Registered(r) /\ outcome[r] = "none"
      BY <2>16 DEF Report, In, TypeOK, OneThread, Busy
    <3>2. Status(r) = "active"
      BY <3>1 DEF Status, Registered, Stages
    <3>3. /\ FinalCode(r) \in Codes
          /\ FinalCode(r) = "aborted" => wasCancelled[r]
          /\ wasCancelled[r] => FinalCode(r) # "ok"
      BY <3>1 DEF FinalCode, CodesSound, TypeOK, Codes
    <3>4. /\ outcome' = [outcome EXCEPT ![r] = FinalCode(r)]
          /\ UNCHANGED <<stage, wasCancelled, user>>
      BY <2>16 DEF Report
    <3>5. [q \in Requests |-> Status(q)]'
            = [[q \in Requests |-> Status(q)] EXCEPT ![r] = FinalCode(r)]
      BY <3>1, <3>3, <3>4 DEF Status, Registered, Stages, TypeOK, Codes
    <3>6. Lifecycle!Finish(r, FinalCode(r))
      BY <3>1, <3>2, <3>3, <3>4, <3>5 DEF Lifecycle!Finish, Lifecycle!Move
    <3>7. QED
      BY <3>1, <3>3, <3>6 DEF Lifecycle!Next, Lifecycle!Outcomes, Codes
  <2>17. ASSUME NEW w \in Workers, Exit(w)
       PROVE  Goal
    <3>1. Stutter
      BY <2>17
         DEF Stutter, Closed, Status, Exit, OutOfWork, TypeOK, UserAt,
             sessionVars
    <3>2. QED
      BY <3>1, <2>100
  <2>18. ASSUME NEW r \in Requests, OpCompletes(r)
       PROVE  Goal
    <3>1. Stutter
      BY <2>18 DEF Stutter, Closed, Status, OpCompletes, TypeOK, UserAt, sessionVars
    <3>2. QED
      BY <3>1, <2>100
  <2>19. ASSUME NEW r \in Requests, OpPartial(r)
       PROVE  Goal
    <3>1. Stutter
      BY <2>19 DEF Stutter, Closed, Status, OpPartial, TypeOK, UserAt, sessionVars
    <3>2. QED
      BY <3>1, <2>100
  <2>20. CASE Finished \/ UNCHANGED vars
    <3>1. Stutter
      BY <2>20 DEF Stutter, Closed, Status, Finished, vars
    <3>2. QED
      BY <3>1, <2>100
  <2>21. QED
    BY <2>1, <2>2, <2>3, <2>4, <2>5, <2>6, <2>7, <2>8, <2>9, <2>10, <2>11,
       <2>12, <2>13, <2>14, <2>15, <2>16, <2>17, <2>18, <2>19, <2>20
       DEF Next, UserStep, WorkerStep
<1>3. QED
  BY <1>1, <1>2, TypeCorrect, OneThreadInvariant, MapInvariant, CodesInvariant,
     StoppedInvariant, CloseDrainsAll, PTL
     DEF Spec, ImplementsLifecycle, Lifecycle!Spec
=============================================================================
