----------------------------- MODULE SessionProofs -----------------------------
(* Theorems about the refresh service, for every set of calls and tokens,  *)
(* every pool size and either behaviour of the server, and about the       *)
(* browser and the filters in front of it, for every number of requests,   *)
(* every fault and every kind of server.  Those about the service alone    *)
(* speak of Spec, those about both of CookieSpec.                          *)
EXTENDS CookieAuth, TLAPS

-----------------------------------------------------------------------------
(* The inductive invariant *)

\* A call that has entered waits, or has waited, on a future created by a
\* call for the same token.
CallsHaveFuture ==
  \A c \in Calls : pc[c] # "idle" =>
    /\ tok[c] \in Tokens
    /\ fut[c] \in Calls
    /\ pc[fut[c]] # "idle"
    /\ tok[fut[c]] = tok[c]
    /\ fut[fut[c]] = fut[c]

\* Only futures created by a call that has entered have a task.
TasksHaveCreator ==
  \A f \in Calls : task[f] # "none" <=> pc[f] # "idle" /\ fut[f] = f

\* An entry is a future that a call created for that token and for which some
\* call is still in service.
EntriesInService ==
  \A t \in Tokens : inFlight[t] # None =>
    /\ pc[inFlight[t]] # "idle"
    /\ fut[inFlight[t]] = inFlight[t]
    /\ tok[inFlight[t]] = t
    /\ \E c \in Calls : InService(c) /\ tok[c] = t /\ fut[c] = inFlight[t]

\* What a call carries out of the wait.
LeaversAnswer ==
  \A c \in Calls :
    /\ pc[c] \in {"idle", "waiting"} => res[c] = Empty /\ ~early[c]
    /\ pc[c] \in {"leaving", "returned"} =>
         IF early[c] THEN res[c] = Empty
                     ELSE task[fut[c]] = "done" /\ res[c] = val[fut[c]]

\* What a future holds.
FuturesHold ==
  \A f \in Calls :
    /\ val[f] # Empty => task[f] = "done" /\ val[f] = f /\ idp[f] = "granted"
    /\ idp[f] = "none" <=> task[f] \in {"none", "queued"}

IInv == /\ TypeOK
        /\ CallsHaveFuture
        /\ TasksHaveCreator
        /\ EntriesInService
        /\ LeaversAnswer
        /\ FuturesHold
        /\ AbandonedOnlyByEarlyLeaver

-----------------------------------------------------------------------------
(* The initial states, and one lemma per kind of step *)

\* The invariant holds before any call.
LEMMA InitIInv == Init => IInv
  BY CallsAssumption
  DEF Init, IInv, TypeOK, CallsHaveFuture, TasksHaveCreator, EntriesInService,
      LeaversAnswer, FuturesHold, AbandonedOnlyByEarlyLeaver, Pending, Answers

\* Every step keeps the types.
LEMMA TypeStep == IInv /\ [Next]_vars => TypeOK'
<1> SUFFICES ASSUME IInv, [Next]_vars PROVE TypeOK'
  OBVIOUS
<1> USE DEF IInv, TypeOK, Answers
<1>1. ASSUME NEW c \in Calls, NEW t \in Tokens, Refresh(c, t) PROVE TypeOK'
  BY <1>1 DEF Refresh, idpVars
<1>2. ASSUME NEW c \in Calls, NEW r \in Answers, NEW ex \in BOOLEAN,
             Leave(c, r, ex)
      PROVE  TypeOK'
  BY <1>2 DEF Leave, poolVars, idpVars
<1>3. ASSUME NEW c \in Calls, Get(c) \/ TimeOut(c) \/ Interrupt(c)
      PROVE  TypeOK'
  <2>1. pc[c] = "waiting" /\ fut[c] \in Calls
    BY <1>3 DEF Get, TimeOut, Interrupt, CallsHaveFuture
  <2>2. val[fut[c]] \in Answers /\ Empty \in Answers
    BY <2>1
  <2> QED BY <1>2, <1>3, <2>2 DEF Get, TimeOut, Interrupt
<1>4. ASSUME NEW c \in Calls, Remove(c) PROVE TypeOK'
  BY <1>4 DEF Remove, poolVars, idpVars
<1>5. ASSUME NEW f \in Calls, RunTask(f) PROVE TypeOK'
  BY <1>5 DEF RunTask, callVars
<1>6. ASSUME NEW f \in Calls, Respond(f) \/ Fail(f) PROVE TypeOK'
  BY <1>6 DEF Respond, Fail, CompleteFuture, callVars, idpVars
<1>7. ASSUME NEW f \in Calls, Grant(f) PROVE TypeOK'
  <2>1. tok[f] \in Tokens
    BY <1>7 DEF Grant, CallsHaveFuture, TasksHaveCreator, FuturesHold
  <2> QED BY <1>7, <2>1 DEF Grant, callVars, poolVars
<1>8. ASSUME NEW f \in Calls, Refuse(f) PROVE TypeOK'
  BY <1>8 DEF Refuse, callVars, poolVars
<1>9. CASE UNCHANGED vars
  BY <1>9 DEF vars
<1> QED
  BY <1>1, <1>3, <1>4, <1>5, <1>6, <1>7, <1>8, <1>9
  DEF Next, CallNext, Wait, TaskNext, IdpNext

\* A call that enters keeps the invariant: it joins a future of its token
\* that is in service, or creates one.
LEMMA RefreshStep ==
  ASSUME IInv, TypeOK', NEW c \in Calls, NEW t \in Tokens, Refresh(c, t)
  PROVE  IInv'
<1> USE CallsAssumption DEF IInv, TypeOK
<1>1. CASE inFlight[t] # None
  <2> DEFINE g == inFlight[t]
  <2>1. /\ g \in Calls /\ g # c /\ pc[g] # "idle" /\ fut[g] = g /\ tok[g] = t
        /\ fut' = [fut EXCEPT ![c] = g]
        /\ UNCHANGED <<inFlight, task, val, idp, early, res>>
    BY <1>1 DEF Refresh, EntriesInService, idpVars
  <2> USE <2>1 DEF Refresh
  <2>2. CallsHaveFuture'
    BY DEF CallsHaveFuture
  <2>3. TasksHaveCreator'
    BY DEF TasksHaveCreator
  <2>4. EntriesInService'
    BY DEF EntriesInService, InService
  <2>5. LeaversAnswer'
    BY DEF LeaversAnswer
  <2>6. FuturesHold'
    BY DEF FuturesHold
  <2>7. AbandonedOnlyByEarlyLeaver'
    BY DEF AbandonedOnlyByEarlyLeaver, Pending, TasksHaveCreator, CallsHaveFuture
  <2> QED BY <2>2, <2>3, <2>4, <2>5, <2>6, <2>7
<1>2. CASE inFlight[t] = None
  <2>1. /\ fut' = [fut EXCEPT ![c] = c]
        /\ inFlight' = [inFlight EXCEPT ![t] = c]
        /\ task' = [task EXCEPT ![c] = "queued"]
        /\ UNCHANGED <<val, idp, early, res>>
        /\ task[c] = "none"
    BY <1>2 DEF Refresh, idpVars, TasksHaveCreator
  <2> USE <2>1 DEF Refresh
  <2>2. CallsHaveFuture'
    BY DEF CallsHaveFuture
  <2>3. TasksHaveCreator'
    BY DEF TasksHaveCreator
  <2>4. EntriesInService'
    BY DEF EntriesInService, InService
  <2>5. LeaversAnswer'
    BY DEF LeaversAnswer, CallsHaveFuture, TasksHaveCreator
  <2>6. FuturesHold'
    BY DEF FuturesHold
  <2>7. AbandonedOnlyByEarlyLeaver'
    BY DEF AbandonedOnlyByEarlyLeaver, Pending, TasksHaveCreator, CallsHaveFuture
  <2> QED BY <2>2, <2>3, <2>4, <2>5, <2>6, <2>7
<1> QED BY <1>1, <1>2

\* Leaving the wait keeps the invariant: the entry stays until Remove.
LEMMA LeaveStep ==
  ASSUME IInv, TypeOK', NEW c \in Calls,
         Get(c) \/ TimeOut(c) \/ Interrupt(c)
  PROVE  IInv'
<1> USE CallsAssumption DEF IInv, TypeOK
<1>1. PICK r \in Answers, ex \in BOOLEAN :
        /\ Leave(c, r, ex)
        /\ IF ex THEN r = Empty ELSE task[fut[c]] = "done" /\ r = val[fut[c]]
  <2>1. pc[c] = "waiting" /\ fut[c] \in Calls
    BY DEF Get, TimeOut, Interrupt, CallsHaveFuture
  <2>2. val[fut[c]] \in Answers /\ Empty \in Answers
    BY <2>1 DEF Answers
  <2> QED BY <2>2 DEF Get, TimeOut, Interrupt
<1>2. /\ pc[c] = "waiting"
      /\ pc' = [pc EXCEPT ![c] = "leaving"]
      /\ res' = [res EXCEPT ![c] = r]
      /\ early' = [early EXCEPT ![c] = ex]
      /\ UNCHANGED <<tok, fut, inFlight, task, val, idp>>
  BY <1>1 DEF Leave, Get, TimeOut, Interrupt, poolVars, idpVars
<1> HIDE DEF Answers
<1>3. CallsHaveFuture'
  BY <1>2 DEF CallsHaveFuture
<1>4. TasksHaveCreator'
  BY <1>2 DEF TasksHaveCreator
<1>5. EntriesInService'
  BY <1>2 DEF EntriesInService, InService
<1>6. LeaversAnswer'
  BY <1>1, <1>2 DEF LeaversAnswer
<1>7. FuturesHold'
  BY <1>2 DEF FuturesHold
<1>8. AbandonedOnlyByEarlyLeaver'
  BY <1>2 DEF AbandonedOnlyByEarlyLeaver, Pending
<1> QED BY <1>3, <1>4, <1>5, <1>6, <1>7, <1>8

\* The finally block keeps the invariant: it removes the caller's future and
\* no other, and a future it removes while its POST is pending is left behind
\* by a call that left early.
LEMMA RemoveStep ==
  ASSUME IInv, TypeOK', NEW c \in Calls, Remove(c)
  PROVE  IInv'
<1> USE CallsAssumption DEF IInv, TypeOK
<1>1. /\ pc[c] = "leaving"
      /\ pc' = [pc EXCEPT ![c] = "returned"]
      /\ tok[c] \in Tokens /\ fut[c] \in Calls /\ tok[fut[c]] = tok[c]
      /\ \A t \in Tokens :
           inFlight'[t] = IF t = tok[c] /\ inFlight[t] = fut[c]
                            THEN None ELSE inFlight[t]
      /\ UNCHANGED <<tok, fut, early, res, task, val, idp>>
  BY DEF Remove, poolVars, idpVars, CallsHaveFuture
<1>2. CallsHaveFuture'
  BY <1>1 DEF CallsHaveFuture
<1>3. TasksHaveCreator'
  BY <1>1 DEF TasksHaveCreator
<1>4. EntriesInService'
  <2> SUFFICES ASSUME NEW t \in Tokens, inFlight'[t] # None
               PROVE  /\ pc'[inFlight'[t]] # "idle"
                      /\ fut[inFlight'[t]] = inFlight'[t]
                      /\ tok[inFlight'[t]] = t
                      /\ \E d \in Calls : /\ pc'[d] \in {"waiting", "leaving"}
                                         /\ tok[d] = t
                                         /\ fut[d] = inFlight'[t]
    BY <1>1 DEF EntriesInService, InService
  <2>1. inFlight'[t] = inFlight[t] /\ inFlight[t] \in Calls
    BY <1>1
  <2>2. PICK d \in Calls : InService(d) /\ tok[d] = t /\ fut[d] = inFlight[t]
    BY <2>1 DEF EntriesInService
  <2>3. d # c
    BY <1>1, <2>1, <2>2
  <2> QED BY <1>1, <2>1, <2>2, <2>3 DEF EntriesInService, InService
<1>5. LeaversAnswer'
  BY <1>1 DEF LeaversAnswer
<1>6. FuturesHold'
  BY <1>1 DEF FuturesHold
<1>7. AbandonedOnlyByEarlyLeaver'
  <2> SUFFICES ASSUME NEW f \in Calls, Pending(f), inFlight'[tok[f]] # f
               PROVE  \E d \in Calls :
                        fut[d] = f /\ pc'[d] = "returned" /\ early[d]
    BY <1>1 DEF AbandonedOnlyByEarlyLeaver, Pending
  <2>1. tok[f] \in Tokens
    BY DEF Pending, TasksHaveCreator, CallsHaveFuture
  <2>2. CASE inFlight[tok[f]] = f
    <3>1. f = fut[c]
      BY <1>1, <2>1, <2>2
    <3>2. early[c]
      BY <1>1, <3>1 DEF LeaversAnswer, Pending
    <3> QED BY <1>1, <3>1, <3>2
  <2>3. CASE inFlight[tok[f]] # f
    BY <1>1, <2>3 DEF AbandonedOnlyByEarlyLeaver
  <2> QED BY <2>2, <2>3
<1> QED BY <1>2, <1>3, <1>4, <1>5, <1>6, <1>7

\* The pool and the server keep the invariant: they touch neither the calls
\* nor the map.
LEMMA TaskStep ==
  ASSUME IInv, TypeOK', NEW f \in Calls, TaskNext(f)
  PROVE  IInv'
<1> USE CallsAssumption DEF IInv, TypeOK
<1>1. /\ task[f] \in {"queued", "running"}
      /\ task' = [task EXCEPT ![f] = IF @ = "queued" THEN "running" ELSE "done"]
      /\ UNCHANGED <<pc, tok, fut, early, res, inFlight>>
  BY DEF TaskNext, RunTask, Respond, Fail, CompleteFuture, callVars
<1>2. CallsHaveFuture'
  BY <1>1 DEF CallsHaveFuture
<1>3. TasksHaveCreator'
  BY <1>1 DEF TasksHaveCreator
<1>4. EntriesInService'
  BY <1>1 DEF EntriesInService, InService
<1>5. FuturesHold'
  BY <1>1 DEF TaskNext, RunTask, Respond, Fail, CompleteFuture, idpVars, FuturesHold
<1>6. LeaversAnswer'
  <2>1. \A g \in Calls : g # f => val'[g] = val[g]
    BY DEF TaskNext, RunTask, Respond, Fail, CompleteFuture
  <2> QED BY <1>1, <2>1 DEF LeaversAnswer, CallsHaveFuture
<1>7. AbandonedOnlyByEarlyLeaver'
  BY <1>1 DEF AbandonedOnlyByEarlyLeaver, Pending
<1> QED BY <1>2, <1>3, <1>4, <1>5, <1>6, <1>7

LEMMA IdpStep ==
  ASSUME IInv, TypeOK', NEW f \in Calls, IdpNext(f)
  PROVE  IInv'
<1> USE DEF IInv, TypeOK
<1>1. /\ idp[f] = "asked"
      /\ \E a \in {"granted", "refused"} : idp' = [idp EXCEPT ![f] = a]
      /\ UNCHANGED <<pc, tok, fut, early, res, inFlight, task, val>>
  BY DEF IdpNext, Grant, Refuse, callVars, poolVars
<1>2. FuturesHold'
  BY <1>1 DEF FuturesHold
<1>3. /\ CallsHaveFuture'
      /\ TasksHaveCreator'
      /\ EntriesInService'
      /\ LeaversAnswer'
      /\ AbandonedOnlyByEarlyLeaver'
  BY <1>1 DEF CallsHaveFuture, TasksHaveCreator, EntriesInService, InService,
              LeaversAnswer, AbandonedOnlyByEarlyLeaver, Pending
<1> QED BY <1>2, <1>3

\* Every step keeps the invariant.
LEMMA NextIInv == IInv /\ [Next]_vars => IInv'
<1> SUFFICES ASSUME IInv, [Next]_vars PROVE IInv'
  OBVIOUS
<1>1. TypeOK'
  BY TypeStep
<1>2. CASE Next
  BY <1>1, <1>2, RefreshStep, LeaveStep, RemoveStep, TaskStep, IdpStep
  DEF Next, CallNext, Wait
<1>3. CASE UNCHANGED vars
  BY <1>3
  DEF vars, IInv, TypeOK, CallsHaveFuture, TasksHaveCreator, EntriesInService,
      InService, LeaversAnswer, FuturesHold, AbandonedOnlyByEarlyLeaver, Pending
<1> QED BY <1>2, <1>3

\* The invariant holds in every reachable state.
THEOREM Invariance == Spec => []IInv
  BY InitIInv, NextIInv, PTL DEF Spec

-----------------------------------------------------------------------------
(* The properties the runs check, for every value of the constants *)

\* Every variable keeps its type.
THEOREM TypeCorrect == Spec => []TypeOK
<1>1. IInv => TypeOK
  BY DEF IInv
<1> QED BY <1>1, Invariance, PTL

\* refresh never leaves an entry in inFlight that no call is in service for.
THEOREM EntriesHaveWaiters == Spec => []EntryHasWaiter
<1>1. IInv => EntryHasWaiter
  BY DEF IInv, EntriesInService, EntryHasWaiter
<1> QED BY <1>1, Invariance, PTL

\* A POST without an entry was given up by a timeout or an interrupt.
THEOREM AbandonedRequests == Spec => []AbandonedOnlyByEarlyLeaver
<1>1. IInv => AbandonedOnlyByEarlyLeaver
  BY DEF IInv
<1> QED BY <1>1, Invariance, PTL

\* As the map holds one future per token, of two pending POSTs for a token one
\* has no entry and so was given up.
THEOREM OneRequest == Spec => []OneRequestUnlessGivenUp
<1>1. ASSUME IInv PROVE OneRequestUnlessGivenUp
  <2> SUFFICES ASSUME NEW f \in Calls, NEW g \in Calls, f # g,
                      Pending(f), Pending(g), tok[f] = tok[g]
               PROVE  \E c \in Calls : fut[c] \in {f, g} /\ early[c]
    BY DEF OneRequestUnlessGivenUp
  <2>1. PICK h \in {f, g} : inFlight[tok[h]] # h
    OBVIOUS
  <2> QED BY <1>1, <2>1 DEF IInv, AbandonedOnlyByEarlyLeaver
<1> QED BY <1>1, Invariance, PTL

\* Tokens that refresh returns were granted for the token it was given.
THEOREM OwnAnswers == Spec => []AnswerIsForOwnToken
<1>1. ASSUME IInv PROVE AnswerIsForOwnToken
  <2> SUFFICES ASSUME NEW c \in Calls, res[c] # Empty
               PROVE  tok[res[c]] = tok[c] /\ idp[res[c]] = "granted"
    BY DEF AnswerIsForOwnToken
  <2>1. pc[c] \in {"leaving", "returned"} /\ res[c] = val[fut[c]]
    BY <1>1 DEF IInv, TypeOK, LeaversAnswer
  <2>2. fut[c] \in Calls /\ tok[fut[c]] = tok[c]
    BY <1>1, <2>1 DEF IInv, CallsHaveFuture
  <2> QED BY <1>1, <2>1, <2>2 DEF IInv, FuturesHold
<1> QED BY <1>1, Invariance, PTL

-----------------------------------------------------------------------------
(* A token is presented again only after a call for it returned *)

\* A spent token was granted to a future created for it, and a future leaves
\* the map only when a call for its token returns.
SpentWasGranted ==
  \A t \in spent : \E g \in Calls : task[g] # "none" /\ tok[g] = t /\ idp[g] = "granted"

OutOfMapAfterReturn ==
  \A f \in Calls : task[f] # "none" /\ inFlight[tok[f]] # f =>
    \E c \in Calls : tok[c] = tok[f] /\ pc[c] = "returned"

SInv == SpentWasGranted /\ OutOfMapAfterReturn

\* Entering, the call takes a token that no task of its own carries yet; a
\* new future is put where no other was.
LEMMA SpentRefresh ==
  ASSUME IInv, SInv, NEW c \in Calls, NEW t \in Tokens, Refresh(c, t)
  PROVE  SInv'
<1> USE DEF IInv, TypeOK, SInv
<1>1. /\ pc[c] = "idle" /\ task[c] = "none"
      /\ pc' = [pc EXCEPT ![c] = "waiting"]
      /\ tok' = [tok EXCEPT ![c] = t]
      /\ \A f \in Calls : f # c => task'[f] = task[f]
      /\ UNCHANGED <<idp, spent>>
  BY DEF Refresh, idpVars, TasksHaveCreator
<1>2. SpentWasGranted'
  BY <1>1 DEF SpentWasGranted
<1>3. ASSUME NEW f \in Calls, task'[f] # "none", inFlight'[tok'[f]] # f
      PROVE  \E d \in Calls : tok'[d] = tok'[f] /\ pc'[d] = "returned"
  <2>1. f # c
    BY <1>1, <1>3 DEF Refresh
  <2>2. task[f] # "none" /\ tok'[f] = tok[f] /\ tok[f] \in Tokens
    BY <1>1, <1>3, <2>1 DEF TasksHaveCreator, CallsHaveFuture
  <2>3. inFlight[tok[f]] # f
    BY <1>3, <2>2, CallsAssumption DEF Refresh
  <2>4. PICK d \in Calls : tok[d] = tok[f] /\ pc[d] = "returned"
    BY <2>2, <2>3 DEF OutOfMapAfterReturn
  <2> QED BY <1>1, <2>2, <2>4
<1> QED BY <1>2, <1>3 DEF OutOfMapAfterReturn

\* The call that takes a future out of the map returns.
LEMMA SpentRemove ==
  ASSUME IInv, SInv, NEW c \in Calls, Remove(c)
  PROVE  SInv'
<1> USE DEF IInv, TypeOK, SInv
<1>1. /\ pc[c] = "leaving" /\ pc' = [pc EXCEPT ![c] = "returned"]
      /\ inFlight' = [inFlight EXCEPT ![tok[c]] = IF @ = fut[c] THEN None ELSE @]
      /\ UNCHANGED <<tok, task, idp, spent>>
  BY DEF Remove, poolVars, idpVars
<1>2. SpentWasGranted'
  BY <1>1 DEF SpentWasGranted
<1>3. ASSUME NEW f \in Calls, task[f] # "none", inFlight'[tok[f]] # f
      PROVE  \E d \in Calls : tok[d] = tok[f] /\ pc'[d] = "returned"
  <2>1. CASE inFlight[tok[f]] # f
    BY <1>1, <1>3, <2>1 DEF OutOfMapAfterReturn
  <2>2. CASE inFlight[tok[f]] = f
    <3>1. tok[f] \in Tokens
      BY <1>3 DEF TasksHaveCreator, CallsHaveFuture
    <3>2. tok[f] = tok[c]
      BY <1>1, <1>3, <2>2, <3>1
    <3> QED BY <1>1, <3>2
  <2> QED BY <2>1, <2>2
<1> QED BY <1>1, <1>2, <1>3 DEF OutOfMapAfterReturn

\* Leaving the wait, the pool and the server touch neither the map nor the
\* calls that have returned; a grant spends the token of a task.
LEMMA SpentOther ==
  ASSUME IInv, SInv, NEW c \in Calls,
         Wait(c) \/ Interrupt(c) \/ TaskNext(c) \/ IdpNext(c)
  PROVE  SInv'
<1> USE DEF IInv, TypeOK, SInv
<1>1. /\ UNCHANGED <<tok, inFlight>>
      /\ \A d \in Calls : pc[d] = "returned" => pc'[d] = "returned"
      /\ \A f \in Calls : task'[f] # "none" <=> task[f] # "none"
      /\ \A f \in Calls : idp[f] = "granted" => idp'[f] = "granted"
  <2>1. CASE Wait(c) \/ Interrupt(c)
    BY <2>1 DEF Wait, Get, TimeOut, Interrupt, Leave, poolVars, idpVars
  <2>2. CASE TaskNext(c)
    BY <2>2 DEF TaskNext, RunTask, Respond, Fail, CompleteFuture, callVars, idpVars,
                FuturesHold
  <2>3. CASE IdpNext(c)
    BY <2>3 DEF IdpNext, Grant, Refuse, callVars, poolVars
  <2> QED BY <2>1, <2>2, <2>3
<1>2. OutOfMapAfterReturn'
  BY <1>1 DEF OutOfMapAfterReturn
<1>3. ASSUME UNCHANGED spent PROVE SpentWasGranted'
  BY <1>1, <1>3 DEF SpentWasGranted
<1>4. ASSUME Grant(c) PROVE SpentWasGranted'
  <2>1. task[c] # "none" /\ idp'[c] = "granted" /\ spent' \subseteq spent \cup {tok[c]}
    BY <1>4 DEF Grant, FuturesHold
  <2> QED BY <1>1, <2>1 DEF SpentWasGranted
<1>5. Grant(c) \/ UNCHANGED spent
  BY DEF Wait, Get, TimeOut, Interrupt, Leave, TaskNext, RunTask, Respond, Fail,
         CompleteFuture, IdpNext, Refuse, idpVars
<1> QED BY <1>2, <1>3, <1>4, <1>5

\* A refresh token is presented after it was spent only if a call for it has
\* returned: of the two futures of the token the map holds at most one, and a
\* call has taken out the other.
THEOREM SpentTokens == Spec => []SpentOnlyAfterReturn
<1>1. Init => SInv
  BY DEF Init, SInv, SpentWasGranted, OutOfMapAfterReturn
<1>2. IInv /\ SInv /\ [Next]_vars => SInv'
  <2> SUFFICES ASSUME IInv, SInv, [Next]_vars PROVE SInv'
    OBVIOUS
  <2>1. CASE Next
    BY <2>1, SpentRefresh, SpentRemove, SpentOther DEF Next, CallNext
  <2>2. CASE UNCHANGED vars
    BY <2>2 DEF vars, SInv, SpentWasGranted, OutOfMapAfterReturn
  <2> QED BY <2>1, <2>2
<1>3. ASSUME IInv, SInv PROVE SpentOnlyAfterReturn
  <2> SUFFICES ASSUME NEW f \in Calls, task[f] = "running", idp[f] = "asked",
                      tok[f] \in spent
               PROVE  \E c \in Calls : tok[c] = tok[f] /\ pc[c] = "returned"
    BY DEF SpentOnlyAfterReturn
  <2>1. PICK g \in Calls : task[g] # "none" /\ tok[g] = tok[f] /\ idp[g] = "granted"
    BY <1>3 DEF SInv, SpentWasGranted
  <2>2. PICK h \in {f, g} : inFlight[tok[h]] # h
    BY <2>1
  <2> QED BY <1>3, <2>1, <2>2 DEF SInv, OutOfMapAfterReturn
<1> QED BY <1>1, <1>2, <1>3, Invariance, PTL DEF Spec

-----------------------------------------------------------------------------
(* TokenRefresh implements RefreshContract *)

\* Nothing is deliverable initially.
LEMMA RefInit == Init => Contract!Init
  BY DEF Init, Contract!Init, statusBar, ansBar, issuedBar, freshBar,
         Deliverable, InService

\* Entering refresh is Begin: the future that a call joins already had a call
\* in service, and the one that it creates has asked the server nothing.
LEMMA RefRefresh ==
  ASSUME IInv, NEW c \in Calls, NEW t \in Tokens, Refresh(c, t)
  PROVE  Contract!Begin(c, t)
<1> USE CallsAssumption DEF IInv, TypeOK
<1>1. /\ pc[c] = "idle" /\ pc' = [pc EXCEPT ![c] = "waiting"]
      /\ tok' = [tok EXCEPT ![c] = t]
      /\ UNCHANGED <<res, val, idp>>
      /\ idp[c] = "none"
      /\ \A f \in Calls : idp[f] # "none" => task'[f] = task[f]
  BY DEF Refresh, idpVars, TasksHaveCreator, FuturesHold
<1>2. \A f \in Calls : idp[f] # "none" =>
        ((\E d \in Calls : InService(d)' /\ fut'[d] = f) <=>
           (\E d \in Calls : InService(d) /\ fut[d] = f))
  <2> SUFFICES ASSUME NEW f \in Calls, idp[f] # "none"
               PROVE  (\E d \in Calls : InService(d)' /\ fut'[d] = f) <=>
                        (\E d \in Calls : InService(d) /\ fut[d] = f)
    OBVIOUS
  <2>1. \A d \in Calls : d # c => (InService(d)' <=> InService(d)) /\ fut'[d] = fut[d]
    BY <1>1 DEF Refresh, InService
  <2>2. ~InService(c)
    BY <1>1 DEF InService
  <2>3. fut'[c] = f => \E d \in Calls : InService(d) /\ fut[d] = f
    BY <1>1 DEF Refresh, EntriesInService
  <2> QED BY <2>1, <2>2, <2>3
<1>3. \A f \in Calls : Deliverable(f)' <=> Deliverable(f)
  BY <1>1, <1>2 DEF Deliverable
<1>4. freshBar' = freshBar
  BY <1>1, <1>3 DEF freshBar, Deliverable
<1>5. statusBar' = [statusBar EXCEPT ![c] = "active"] /\ statusBar[c] = "idle"
  BY <1>1 DEF statusBar, InService
<1>6. ansBar' = ansBar /\ issuedBar' = issuedBar
  BY <1>1 DEF ansBar, issuedBar
<1> QED BY <1>1, <1>4, <1>5, <1>6 DEF Contract!Begin

\* Leaving the wait changes nothing the contract sees.
LEMMA RefLeave ==
  ASSUME IInv, NEW c \in Calls, Get(c) \/ TimeOut(c) \/ Interrupt(c)
  PROVE  UNCHANGED Contract!cvars
<1> USE DEF IInv, TypeOK
<1>1. /\ pc[c] = "waiting" /\ pc' = [pc EXCEPT ![c] = "leaving"]
      /\ \A d \in Calls : d # c => res'[d] = res[d]
      /\ UNCHANGED <<tok, fut, task, val, idp>>
  BY DEF Get, TimeOut, Interrupt, Leave, poolVars, idpVars
<1>2. \A d \in Calls : InService(d)' <=> InService(d)
  BY <1>1 DEF InService
<1>3. statusBar' = statusBar
  BY <1>1, <1>2 DEF statusBar
<1>4. ansBar' = ansBar
  BY <1>1 DEF ansBar
<1>5. issuedBar' = issuedBar /\ freshBar' = freshBar
  BY <1>1, <1>2 DEF issuedBar, freshBar, Deliverable
<1> QED BY <1>1, <1>3, <1>4, <1>5 DEF Contract!cvars

\* The finally block is Return: what the call returns is still deliverable,
\* as the call itself is in service, and what stays deliverable has another
\* call for the same token in service.
LEMMA RefRemove ==
  ASSUME IInv, NEW c \in Calls, Remove(c)
  PROVE  Contract!Return(c)
<1> USE DEF IInv, TypeOK
<1> DEFINE t == tok[c]
           kept == {f \in Calls : tok[f] = t /\ Deliverable(f)'}
<1>1. /\ pc[c] = "leaving" /\ pc' = [pc EXCEPT ![c] = "returned"]
      /\ UNCHANGED <<tok, fut, res, task, val, idp>>
  BY DEF Remove, poolVars, idpVars
<1>2. t \in Tokens /\ fut[c] \in Calls /\ tok[fut[c]] = t
  BY <1>1 DEF CallsHaveFuture
<1>3. InService(c) /\ \A d \in Calls : InService(d)' <=> InService(d) /\ d # c
  BY <1>1 DEF InService
<1>4. statusBar[c] = "active" /\ statusBar' = [statusBar EXCEPT ![c] = "returned"]
  BY <1>1, <1>3 DEF statusBar, InService
<1>5. ansBar' = [ansBar EXCEPT ![c] = res[c]]
  BY <1>1 DEF ansBar
<1>6. res[c] \in freshBar[t] \cup {Empty}
  <2> SUFFICES ASSUME res[c] # Empty PROVE res[c] \in freshBar[t]
    OBVIOUS
  <2>1. task[fut[c]] = "done" /\ res[c] = val[fut[c]]
    BY <1>1 DEF LeaversAnswer
  <2>2. val[fut[c]] = fut[c] /\ idp[fut[c]] = "granted"
    BY <1>2, <2>1 DEF FuturesHold
  <2>3. Deliverable(fut[c])
    BY <1>2, <1>3, <2>1, <2>2 DEF Deliverable
  <2> QED BY <1>2, <2>1, <2>2, <2>3 DEF freshBar
<1>7. \A f \in Calls : Deliverable(f)' => Deliverable(f)
  BY <1>1, <1>3 DEF Deliverable
<1>8. \A f \in Calls : tok[f] # t => (Deliverable(f)' <=> Deliverable(f))
  BY <1>1, <1>2, <1>3 DEF Deliverable
<1>9. freshBar' = [freshBar EXCEPT ![t] = kept]
  <2>1. freshBar' = [u \in Tokens |-> {f \in Calls : tok[f] = u /\ Deliverable(f)'}]
    BY <1>1 DEF freshBar
  <2>2. ASSUME NEW u \in Tokens, u # t
        PROVE  {f \in Calls : tok[f] = u /\ Deliverable(f)'} = freshBar[u]
    BY <1>8, <2>2 DEF freshBar
  <2>3. freshBar' = [u \in Tokens |-> IF u = t THEN kept ELSE freshBar[u]]
    BY <2>1, <2>2
  <2>4. freshBar = [u \in Tokens |-> freshBar[u]]
    BY DEF freshBar
  <2> QED BY <2>3, <2>4
<1>10. kept \in SUBSET freshBar[t]
  BY <1>2, <1>7 DEF freshBar
<1>11. Contract!Active(t) = {c} => kept = {}
  <2> SUFFICES ASSUME NEW f \in kept PROVE Contract!Active(t) # {c}
    OBVIOUS
  <2>1. PICK d \in Calls : InService(d) /\ d # c /\ fut[d] = f
    BY <1>1, <1>3 DEF Deliverable
  <2>2. tok[d] = t
    BY <2>1 DEF InService, CallsHaveFuture
  <2>3. statusBar[d] = "active"
    BY <2>1 DEF statusBar, InService
  <2> QED BY <2>1, <2>2, <2>3 DEF Contract!Active
<1>12. UNCHANGED <<tok, issuedBar>>
  BY <1>1 DEF issuedBar
<1> HIDE DEF t, kept
<1> QED
  BY <1>4, <1>5, <1>6, <1>9, <1>10, <1>11, <1>12 DEF Contract!Return, t

\* The pool stutters, but for a failure that loses granted tokens.
LEMMA RefTask ==
  ASSUME IInv, NEW f \in Calls, TaskNext(f)
  PROVE  \/ UNCHANGED Contract!cvars
         \/ \E t \in Tokens : Contract!Lose(t, f)
<1> USE DEF IInv, TypeOK
<1>1. /\ UNCHANGED <<pc, tok, fut, res>>
      /\ \A g \in Calls : g # f => task'[g] = task[g] /\ val'[g] = val[g]
                                /\ idp'[g] = idp[g]
      /\ idp'[f] = "granted" <=> idp[f] = "granted"
      /\ idp' \in [Calls -> {"none", "asked", "granted", "refused"}]
      /\ task[f] # "none"
  BY DEF TaskNext, RunTask, Respond, Fail, CompleteFuture, callVars, idpVars,
         FuturesHold
<1>2. UNCHANGED <<statusBar, tok, ansBar, issuedBar>>
  BY <1>1 DEF statusBar, ansBar, issuedBar, InService
<1>3. \A g \in Calls : g # f => (Deliverable(g)' <=> Deliverable(g))
  BY <1>1 DEF Deliverable, InService
<1>4. CASE Deliverable(f)' <=> Deliverable(f)
  <2>1. freshBar' = freshBar
    BY <1>1, <1>3, <1>4 DEF freshBar
  <2> QED BY <1>2, <2>1 DEF Contract!cvars
<1>5. CASE Deliverable(f)' /\ ~Deliverable(f)
  BY <1>1, <1>5
  DEF TaskNext, RunTask, Respond, Fail, CompleteFuture, idpVars, Deliverable,
      InService, FuturesHold
<1>6. CASE ~Deliverable(f)' /\ Deliverable(f)
  <2>1. tok[f] \in Tokens
    BY <1>1 DEF TasksHaveCreator, CallsHaveFuture
  <2>2. freshBar' = [freshBar EXCEPT ![tok[f]] = @ \ {f}]
    <3>1. freshBar' = [u \in Tokens |-> {g \in Calls : tok[g] = u /\ Deliverable(g)'}]
      BY <1>1 DEF freshBar
    <3>2. ASSUME NEW u \in Tokens
          PROVE  {g \in Calls : tok[g] = u /\ Deliverable(g)'} = freshBar[u] \ {f}
      BY <1>3, <1>6 DEF freshBar
    <3>3. \A u \in Tokens : u # tok[f] => freshBar[u] \ {f} = freshBar[u]
      BY DEF freshBar
    <3> QED BY <3>1, <3>2, <3>3 DEF freshBar
  <2>3. Contract!Lose(tok[f], f)
    BY <1>2, <2>2 DEF Contract!Lose
  <2> QED BY <2>1, <2>3
<1> QED BY <1>4, <1>5, <1>6

\* A grant is the contract's Grant, delivered if a call still waits for it; a
\* refusal changes nothing the contract sees.
LEMMA RefIdp ==
  ASSUME IInv, NEW f \in Calls, IdpNext(f)
  PROVE  \/ UNCHANGED Contract!cvars
         \/ \E t \in Tokens : Contract!Grant(t, f)
<1> USE DEF IInv, TypeOK
<1>1. /\ idp[f] = "asked"
      /\ UNCHANGED <<pc, tok, fut, res, task, val>>
      /\ \A g \in Calls : g # f => idp'[g] = idp[g]
  BY DEF IdpNext, Grant, Refuse, callVars, poolVars
<1>2. UNCHANGED <<statusBar, tok, ansBar>>
  BY <1>1 DEF statusBar, ansBar, InService
<1>3. ~Deliverable(f) /\ \A g \in Calls : g # f => (Deliverable(g)' <=> Deliverable(g))
  BY <1>1 DEF Deliverable, InService
<1>4. CASE Refuse(f)
  <2>1. idp' = [idp EXCEPT ![f] = "refused"]
    BY <1>4 DEF Refuse
  <2>2. issuedBar' = issuedBar /\ ~Deliverable(f)'
    BY <1>1, <2>1 DEF issuedBar, Deliverable
  <2>3. freshBar' = freshBar
    BY <1>1, <1>3, <2>2 DEF freshBar
  <2> QED BY <1>2, <2>2, <2>3 DEF Contract!cvars
<1>5. CASE Grant(f)
  <2>1. idp' = [idp EXCEPT ![f] = "granted"]
    BY <1>5 DEF Grant
  <2>2. f \notin issuedBar /\ issuedBar' = issuedBar \cup {f}
    BY <1>1, <2>1 DEF issuedBar
  <2>3. tok[f] \in Tokens /\ task[f] # "none"
    BY <1>1 DEF FuturesHold, TasksHaveCreator, CallsHaveFuture
  <2>4. CASE ~Deliverable(f)'
    <3>1. freshBar' = freshBar
      BY <1>1, <1>3, <2>4 DEF freshBar
    <3> QED BY <1>2, <2>2, <2>3, <3>1 DEF Contract!Grant
  <2>5. CASE Deliverable(f)'
    <3>1. freshBar' = [freshBar EXCEPT ![tok[f]] = @ \cup {f}]
      BY <1>1, <1>3, <2>3, <2>5 DEF freshBar
    <3>2. PICK d \in Calls : InService(d) /\ fut[d] = f
      BY <1>1, <2>5 DEF Deliverable, InService
    <3>3. d \in Contract!Active(tok[f])
      BY <3>2 DEF Contract!Active, statusBar, InService, CallsHaveFuture
    <3> QED BY <1>2, <2>2, <2>3, <3>1, <3>3 DEF Contract!Grant
  <2> QED BY <2>4, <2>5
<1> QED BY <1>4, <1>5 DEF IdpNext

\* The service with its map, futures, pool and server implements the
\* contract its callers rely on.
THEOREM Refinement == Spec => ImplementsContract
<1>1. IInv /\ [Next]_vars => [Contract!Next]_(Contract!cvars)
  <2> SUFFICES ASSUME IInv, [Next]_vars
               PROVE  Contract!Next \/ UNCHANGED Contract!cvars
    OBVIOUS
  <2>1. CASE Next
    <3>1. ASSUME NEW c \in Calls, NEW t \in Tokens, Refresh(c, t)
          PROVE  Contract!Next
      BY <3>1, RefRefresh DEF Contract!Next
    <3>2. ASSUME NEW c \in Calls, Remove(c) PROVE Contract!Next
      BY <3>2, RefRemove DEF Contract!Next
    <3>3. ASSUME NEW f \in Calls, TaskNext(f) \/ IdpNext(f)
          PROVE  Contract!Next \/ UNCHANGED Contract!cvars
      BY <3>3, RefTask, RefIdp DEF Contract!Next
    <3> QED BY <2>1, <3>1, <3>2, <3>3, RefLeave DEF Next, CallNext, Wait
  <2>2. CASE UNCHANGED vars
    BY <2>2 DEF vars, Contract!cvars, statusBar, ansBar, issuedBar, freshBar,
                Deliverable, InService
  <2> QED BY <2>1, <2>2
<1> QED
  BY <1>1, RefInit, Invariance, PTL DEF Spec, ImplementsContract, Contract!Spec

-----------------------------------------------------------------------------
(* The browser and the filters *)

Given  == Tokens \cup {None}
Replies == UNION {[K -> Given] : K \in SUBSET Cookies}

-----------------------------------------------------------------------------
(* The inductive invariant *)

\* A call has a future, a task a call that created it, a POST a task.
CallsStarted ==
  \A c \in Calls : /\ pc[c] # "idle" => fut[c] \in Calls
                   /\ task[c] # "none" => pc[c] # "idle"
                   /\ idp[c] # "none" => task[c] # "none"

\* A request that has called refresh presented the refresh token of its
\* cookies, beside an access token that had expired.
RefreshesExpired ==
  \A r \in Calls :
    /\ pc[r] # "idle" => /\ stage[r] \notin {"new", "sent"}
                         /\ sent[r]["access"] \in expired
                         /\ sent[r]["refresh"] # None
                         /\ tok[r] = sent[r]["refresh"]
    /\ stage[r] = "refreshing" => pc[r] # "idle" /\ IsPage(r)

\* A request has a reply once it is answered; a logout's clears all cookies.
RepliesAreAnswers ==
  \A r \in Calls :
    /\ stage[r] = "new" => r \notin since
    /\ stage[r] \in {"new", "sent", "refreshing"} => reply[r] = NoCookies
    /\ stage[r] \in {"answered", "over"} /\ kind[r] = "logout" => reply[r] = ClearAll

\* Cookies that were issued together, as the browser holds or sends them, and
\* in a reply, which has both or leaves the refresh cookie alone: together with
\* the access cookie, or for a login that has no refresh token.
Together(cookies) ==
  cookies["access"] # None /\ cookies["refresh"] # None
    => cookies["access"] = cookies["refresh"] \/ Bare(cookies["access"])
ReplyTogether(cookies) ==
  /\ "refresh" \in DOMAIN cookies =>
       "access" \in DOMAIN cookies /\ cookies["access"] = cookies["refresh"]
  /\ "access" \in DOMAIN cookies /\ "refresh" \notin DOMAIN cookies =>
       Bare(cookies["access"])

OneGeneration ==
  Rotates => /\ Together(jar)
             /\ \A r \in Calls : Together(sent[r]) /\ ReplyTogether(reply[r])

\* After a logout the browser is without cookies, and what it sends since then
\* is answered without any, but for a login.
OnlyClears(cookies) == \A c \in DOMAIN cookies : cookies[c] = None
ClearedSince ==
  loggedOut /\ ~revived =>
    /\ \A c \in Cookies : jar[c] = None
    /\ \A r \in since : /\ sent[r]["access"] = None
                        /\ kind[r] # "login" => OnlyClears(reply[r])

SpentExpired == SpentAfterExpiry /\ (~Rotates => spent = {})

CookieIInv == /\ CookieTypeOK
        /\ CallsStarted
        /\ RefreshesExpired
        /\ RepliesAreAnswers
        /\ OneGeneration
        /\ ClearedSince
        /\ SpentExpired

\* The invariant holds before any request.
LEMMA CookieInitIInv == CookieInit => CookieIInv
<1> SUFFICES ASSUME CookieInit PROVE CookieIInv
  OBVIOUS
<1> USE OriginAssumption DEF CookieInit, NoJar, NoCookies
<1>1. CookieTypeOK
  <2>1. TypeOK
    BY DEF Init, TypeOK, Answers
  <2>2. NoCookies \in Replies
    BY DEF Replies, Cookies
  <2> QED BY <2>1, <2>2 DEF CookieTypeOK, Replies, Given, Cookies
<1>2. CallsStarted
  BY DEF CallsStarted, Init
<1>3. RefreshesExpired /\ RepliesAreAnswers
  BY DEF RefreshesExpired, RepliesAreAnswers, Init
<1>4. OneGeneration
  BY DEF OneGeneration, Together, ReplyTogether, Cookies
<1>5. ClearedSince /\ SpentExpired
  BY DEF ClearedSince, SpentExpired, SpentAfterExpiry, Init
<1> QED BY <1>1, <1>2, <1>3, <1>4, <1>5 DEF CookieIInv

-----------------------------------------------------------------------------
(* The browser *)

\* What was spent as it should be stays so, in a step that spends nothing and
\* leaves what a request has presented and a login has written.
LEMMA SpentStays ==
  ASSUME SpentExpired, spent' = spent, expired \subseteq expired',
         \A q \in Calls : pc[q] # "idle" =>
           pc'[q] # "idle" /\ tok'[q] = tok[q] /\ sent'[q] = sent[q],
         \A q \in Calls : reply[q] # NoCookies => reply'[q] = reply[q] /\ kind'[q] = kind[q]
  PROVE  SpentExpired'
<1>1. \A q \in Calls : "access" \in DOMAIN reply[q] => reply[q] # NoCookies
  BY DEF NoCookies
<1>2. ASSUME NEW t \in spent' \ expired'
      PROVE  \E r \in Calls : pc'[r] # "idle" /\ tok'[r] = t /\ Bare(sent[r]["access"])'
  <2>1. PICK r \in Calls : pc[r] # "idle" /\ tok[r] = t /\ Bare(sent[r]["access"])
    BY <1>2 DEF SpentExpired, SpentAfterExpiry
  <2>2. Bare(sent[r]["access"])'
    BY <1>1, <2>1 DEF Bare
  <2> QED BY <2>1, <2>2
<1> QED BY <1>2 DEF SpentExpired, SpentAfterExpiry

\* A request is sent with cookies that are as much together as the jar's.
LEMMA SendStep ==
  ASSUME CookieIInv, NEW r \in Calls, NEW k \in Kinds, Send(r, k)
  PROVE  CookieIInv'
<1> USE DEF CookieIInv
<1> DEFINE s == [c \in Cookies |-> IF k = "crossSite" /\ c \in Strict THEN None ELSE jar[c]]
<1>1. /\ stage[r] = "new" /\ stage' = [stage EXCEPT ![r] = "sent"]
      /\ kind' = [kind EXCEPT ![r] = k] /\ sent' = [sent EXCEPT ![r] = s]
      /\ since' = IF loggedOut THEN since \cup {r} ELSE since
      /\ UNCHANGED <<pc, tok, fut, early, res, inFlight, task, val, idp, spent>>
      /\ UNCHANGED <<jar, reply, expired, overdue, loggedOut, revived>>
  BY DEF Send, ages, serviceVars, vars
<1>k. \A q \in Calls : reply[q] # NoCookies => reply'[q] = reply[q] /\ kind'[q] = kind[q]
  BY <1>1 DEF RepliesAreAnswers, CookieTypeOK
<1>2. s \in [Cookies -> Tokens \cup {None}]
  BY DEF CookieTypeOK
<1>3. CookieTypeOK'
  BY <1>1, <1>2 DEF CookieTypeOK, TypeOK, Answers
<1>4. CallsStarted'
  BY <1>1 DEF CallsStarted
<1>5. RefreshesExpired' /\ RepliesAreAnswers'
  BY <1>1 DEF RefreshesExpired, RepliesAreAnswers, CookieTypeOK, IsPage
<1>6. OneGeneration'
  <2>1. Rotates => Together(s)
    BY DEF OneGeneration, Together, Cookies
  <2> HIDE DEF s
  <2>2. \A q \in Calls : "access" \in DOMAIN reply[q] => reply'[q] = reply[q] /\ kind'[q] = kind[q]
    BY <1>k DEF NoCookies
  <2>3. Rotates => Together(jar)'
    BY <1>1, <2>2 DEF OneGeneration, Together, Bare
  <2>4. ASSUME Rotates, NEW q \in Calls PROVE Together(sent[q])' /\ ReplyTogether(reply[q])'
    <3>1. Together(sent'[q]) /\ ReplyTogether(reply[q])
      BY <1>1, <2>1, <2>4 DEF OneGeneration, CookieTypeOK
    <3> QED BY <1>1, <2>2, <3>1 DEF Together, ReplyTogether, Bare
  <2> QED BY <2>3, <2>4 DEF OneGeneration
<1>7. ClearedSince'
  <2>1. loggedOut /\ ~revived => s["access"] = None
    BY DEF ClearedSince, Cookies
  <2>2. OnlyClears(reply[r])
    BY <1>1 DEF RepliesAreAnswers, OnlyClears, NoCookies
  <2> QED BY <1>1, <2>1, <2>2 DEF ClearedSince, CookieTypeOK
<1>8. SpentExpired'
  <2>1. \A q \in Calls : pc[q] # "idle" => sent'[q] = sent[q]
    BY <1>1 DEF RefreshesExpired, CookieTypeOK
  <2> QED BY <1>1, <1>k, <2>1, SpentStays
<1> QED BY <1>3, <1>4, <1>5, <1>6, <1>7, <1>8

\* A response makes cookies of one grant the jar's, or leaves the jar as it is.
LEMMA DeliverStep ==
  ASSUME CookieIInv, NEW r \in Calls, Deliver(r)
  PROVE  CookieIInv'
<1> USE DEF CookieIInv
<1> DEFINE j == [c \in Cookies |-> IF c \in DOMAIN reply[r] THEN reply[r][c] ELSE jar[c]]
<1>1. /\ stage[r] = "answered" /\ stage' = [stage EXCEPT ![r] = "over"]
      /\ jar' = j
      /\ UNCHANGED <<pc, tok, fut, early, res, inFlight, task, val, idp, spent>>
      /\ UNCHANGED <<kind, sent, reply, expired, overdue>>
  BY DEF Deliver, ages, serviceVars, vars
<1>2. loggedOut' \in BOOLEAN /\ revived' \in BOOLEAN /\ since' \subseteq since
  BY DEF Deliver, CookieTypeOK
<1>3. j \in [Cookies -> Tokens \cup {None}]
  <2>1. PICK K \in SUBSET Cookies : reply[r] \in [K -> Tokens \cup {None}]
    BY DEF CookieTypeOK
  <2> QED BY <2>1 DEF CookieTypeOK
<1>4. CookieTypeOK'
  BY <1>1, <1>2, <1>3 DEF CookieTypeOK, TypeOK, Answers
<1>5. CallsStarted'
  BY <1>1 DEF CallsStarted
<1>6. RefreshesExpired' /\ RepliesAreAnswers'
  BY <1>1, <1>2 DEF RefreshesExpired, RepliesAreAnswers, CookieTypeOK, IsPage
<1>7. OneGeneration'
  <2>1. Rotates => Together(j)
    BY DEF OneGeneration, Together, ReplyTogether, Cookies
  <2> HIDE DEF j
  <2> QED BY <1>1, <2>1 DEF OneGeneration, Together, ReplyTogether, Bare
<1>8. ClearedSince'
  <2>1. CASE kind[r] = "logout"
    <3>1. reply[r] = ClearAll /\ since' = {}
      BY <1>1, <2>1 DEF Deliver, RepliesAreAnswers
    <3>2. \A c \in Cookies : j[c] = None
      BY <3>1 DEF ClearAll
    <3> HIDE DEF j
    <3> QED BY <1>1, <3>1, <3>2 DEF ClearedSince
  <2>2. CASE kind[r] = "login"
    BY <2>2 DEF Deliver, ClearedSince
  <2>3. CASE kind[r] \notin {"logout", "login"}
    <3>1. /\ UNCHANGED <<loggedOut, since>>
          /\ revived' = (revived \/ (/\ loggedOut /\ r \notin since
                                     /\ \E c \in DOMAIN reply[r] : reply[r][c] # None))
      BY <2>3 DEF Deliver
    <3>2. loggedOut' /\ ~revived' => loggedOut /\ ~revived /\ OnlyClears(reply[r])
      BY <2>3, <3>1 DEF ClearedSince, OnlyClears, CookieTypeOK
    <3>3. loggedOut' /\ ~revived' => \A c \in Cookies : j[c] = None
      BY <3>2 DEF ClearedSince, OnlyClears
    <3> HIDE DEF j
    <3> QED BY <1>1, <3>1, <3>2, <3>3 DEF ClearedSince
  <2> QED BY <2>1, <2>2, <2>3
<1>9. SpentExpired'
  BY <1>1, SpentStays
<1> QED BY <1>4, <1>5, <1>6, <1>7, <1>8, <1>9

\* A cookie that lapses leaves no pair to compare; one that expires stays.
LEMMA TimeStep ==
  ASSUME CookieIInv,
         \/ \E g \in Tokens : Expire(g) \/ LeewayEnds(g)
         \/ \E c \in Cookies : Lapse(c)
  PROVE  CookieIInv'
<1> USE DEF CookieIInv
<1>1. /\ UNCHANGED <<pc, tok, fut, early, res, inFlight, task, val, idp, spent>>
      /\ UNCHANGED <<stage, kind, sent, reply, loggedOut, since, revived>>
      /\ expired \subseteq expired' /\ expired' \subseteq Tokens /\ overdue' \subseteq expired'
      /\ jar' \in [Cookies -> Tokens \cup {None}]
      /\ \A c \in Cookies : jar'[c] \in {jar[c], None}
  BY DEF Expire, LeewayEnds, Lapse, serviceVars, vars, requestVars, ages, history,
         CookieTypeOK, Cookies
<1>2. CookieTypeOK'
  BY <1>1 DEF CookieTypeOK, TypeOK, Answers
<1>3. CallsStarted'
  BY <1>1 DEF CallsStarted
<1>4. RefreshesExpired' /\ RepliesAreAnswers'
  BY <1>1 DEF RefreshesExpired, RepliesAreAnswers, IsPage
<1>5. OneGeneration'
  BY <1>1 DEF OneGeneration, Together, ReplyTogether, Bare, Cookies
<1>6. ClearedSince'
  BY <1>1 DEF ClearedSince
<1>7. SpentExpired'
  BY <1>1, SpentStays
<1> QED BY <1>2, <1>3, <1>4, <1>5, <1>6, <1>7

-----------------------------------------------------------------------------
(* The filters *)

\* An answer keeps the invariant if a logout's clears all cookies, if its
\* tokens were issued together, and if it gives none to a request that was sent
\* without any after a logout.
LEMMA AnswerStep ==
  ASSUME CookieIInv, NEW r \in Calls, NEW cookies \in Replies,
         stage[r] \in {"sent", "refreshing"}, Answer(r, cookies),
         UNCHANGED <<serviceVars, jar, kind, sent, ages, history>>,
         kind[r] = "logout" => cookies = ClearAll,
         Rotates => ReplyTogether(reply[r])',
         sent[r]["access"] = None => kind[r] = "login" \/ OnlyClears(cookies)
  PROVE  CookieIInv'
<1> USE DEF CookieIInv
<1>1. /\ stage' = [stage EXCEPT ![r] = "answered"]
      /\ reply' = [reply EXCEPT ![r] = cookies]
      /\ UNCHANGED <<pc, tok, fut, early, res, inFlight, task, val, idp, spent>>
      /\ UNCHANGED <<jar, kind, sent, expired, overdue, loggedOut, since, revived>>
  BY DEF Answer, ages, serviceVars, vars, history
<1>k. \A q \in Calls : reply[q] # NoCookies => reply'[q] = reply[q] /\ kind'[q] = kind[q]
  BY <1>1 DEF RepliesAreAnswers, CookieTypeOK
<1>2. CookieTypeOK'
  BY <1>1 DEF CookieTypeOK, Replies, Given, TypeOK, Answers
<1>3. CallsStarted'
  BY <1>1 DEF CallsStarted
<1>4. RefreshesExpired' /\ RepliesAreAnswers'
  BY <1>1 DEF RefreshesExpired, RepliesAreAnswers, CookieTypeOK, IsPage
<1>5. OneGeneration'
  <2>1. \A q \in Calls : "access" \in DOMAIN reply[q] => reply'[q] = reply[q] /\ kind'[q] = kind[q]
    BY <1>k DEF NoCookies
  <2>2. Rotates => Together(jar)'
    BY <1>1, <2>1 DEF OneGeneration, Together, Bare
  <2>3. ASSUME Rotates, NEW q \in Calls PROVE Together(sent[q])' /\ ReplyTogether(reply[q])'
    <3>1. Together(sent[q])'
      BY <1>1, <2>1, <2>3 DEF OneGeneration, Together, Bare
    <3>2. CASE q = r
      BY <2>3, <3>1, <3>2 DEF ReplyTogether, Bare
    <3>3. CASE q # r
      <4>1. ReplyTogether(reply[q]) /\ reply'[q] = reply[q]
        BY <1>1, <2>3, <3>3 DEF OneGeneration, CookieTypeOK
      <4>2. Bare(reply[q]["access"]) => Bare(reply[q]["access"])'
        BY <2>1, <4>1 DEF Bare
      <4> QED BY <3>1, <4>1, <4>2 DEF ReplyTogether
    <3> QED BY <3>2, <3>3
  <2> QED BY <2>2, <2>3 DEF OneGeneration
<1>6. ClearedSince'
  BY <1>1 DEF ClearedSince, CookieTypeOK
<1>7. SpentExpired'
  BY <1>1, <1>k, SpentStays
<1> QED BY <1>2, <1>3, <1>4, <1>5, <1>6, <1>7

\* The cookies an answer can set.
LEMMA ReplyCookies ==
  /\ NoCookies \in Replies /\ OnlyClears(NoCookies)
  /\ ClearAll \in Replies /\ OnlyClears(ClearAll)
<1>1. NoCookies \in [{} -> Given] /\ {} \in SUBSET Cookies
  BY DEF NoCookies
<1>2. ClearAll \in [Cookies -> Given] /\ Cookies \in SUBSET Cookies
  BY DEF ClearAll, Given
<1>3. NoCookies \in Replies /\ ClearAll \in Replies
  BY <1>1, <1>2 DEF Replies
<1> QED BY <1>3 DEF OnlyClears, NoCookies, ClearAll, Cookies

\* Each filter that answers, answers so.
LEMMA FilterStep ==
  ASSUME CookieIInv, NEW r \in Calls,
         \/ Anonymous(r) \/ Authenticated(r) \/ Reject(r) \/ RefreshFailed(r)
         \/ Refreshed(r) \/ Logout(r) \/ LoginSuccess(r)
  PROVE  CookieIInv'
<1>1. CASE Anonymous(r) \/ Authenticated(r)
  <2>1. reply'[r] = NoCookies
    BY <1>1 DEF Anonymous, Authenticated, Answer, CookieIInv, CookieTypeOK
  <2>2. ReplyTogether(reply[r])'
    BY <2>1 DEF ReplyTogether, NoCookies
  <2> QED BY <1>1, <2>2, AnswerStep, ReplyCookies DEF Anonymous, Authenticated, IsPage
<1>2. CASE Reject(r) \/ RefreshFailed(r) \/ Logout(r)
  <2>1. reply'[r] = ClearAll
    BY <1>2 DEF Reject, RefreshFailed, Logout, Answer, CookieIInv, CookieTypeOK
  <2>2. ReplyTogether(reply[r])'
    BY <2>1 DEF ReplyTogether, ClearAll, Cookies
  <2> QED BY <1>2, <2>2, AnswerStep, ReplyCookies DEF Reject, RefreshFailed, Logout
<1>3. CASE LoginSuccess(r)
  <2>1. PICK K \in LoginCookies : Answer(r, [c \in K |-> r])
    BY <1>3 DEF LoginSuccess
  <2> DEFINE new == [c \in K |-> r]
  <2>2. new \in Replies
    <3>1. new \in [K -> Given] /\ K \in SUBSET Cookies
      BY OriginAssumption, LoginCookiesAssumption DEF Given, Cookies
    <3> QED BY <3>1 DEF Replies
  <2>3. reply'[r] = new /\ kind'[r] = "login"
    BY <1>3, <2>1 DEF LoginSuccess, Answer, CookieIInv, CookieTypeOK
  <2>4. ReplyTogether(reply[r])'
    <3>1. DOMAIN new = K /\ \A c \in K : new[c] = r
      OBVIOUS
    <3> HIDE DEF new
    <3> QED BY <2>3, <3>1, LoginCookiesAssumption DEF ReplyTogether, Bare
  <2> HIDE DEF new
  <2> QED BY <1>3, <2>1, <2>2, <2>4, AnswerStep DEF LoginSuccess, new
<1>4. CASE Refreshed(r)
  <2> DEFINE g == res[r]
             K == {"access"} \cup Returned
             new == RefreshedCookies(g)
  <2>1. g \in Calls /\ tok[g] \in Given /\ g \in Given
    BY <1>4, OriginAssumption
    DEF Refreshed, CookieIInv, CookieTypeOK, TypeOK, Answers, Given
  <2>2. new \in Replies
    <3>1. new \in [K -> Given]
      BY <2>1 DEF RefreshedCookies
    <3>2. K \in SUBSET Cookies
      BY ReturnedAssumption DEF Cookies
    <3> QED BY <3>1, <3>2 DEF Replies
  <2>3. Rotates => ReplyTogether(reply[r])'
    <3>1. reply'[r] = new
      BY <1>4 DEF Refreshed, Answer, CookieIInv, CookieTypeOK
    <3> QED BY <3>1, ReturnedAssumption DEF ReplyTogether, RefreshedCookies
  <2>4. sent[r]["access"] # None /\ kind[r] # "logout"
    BY <1>4, TokensAssumption DEF Refreshed, CookieIInv, RefreshesExpired, CookieTypeOK, IsPage
  <2> HIDE DEF new
  <2> QED BY <1>4, <2>2, <2>3, <2>4, AnswerStep DEF Refreshed, new
<1> QED BY <1>1, <1>2, <1>3, <1>4

\* tryRefresh presents the refresh token beside an expired access token.
LEMMA TryRefreshStep ==
  ASSUME CookieIInv, NEW r \in Calls, TryRefresh(r)
  PROVE  CookieIInv'
<1> USE DEF CookieIInv
<1> DEFINE t == sent[r]["refresh"]
<1>1. /\ stage[r] = "sent" /\ IsPage(r) /\ sent[r]["access"] \in expired /\ t # None
      /\ t \in Tokens
      /\ stage' = [stage EXCEPT ![r] = "refreshing"]
      /\ UNCHANGED <<jar, kind, sent, reply, expired, overdue, loggedOut, since, revived>>
  BY DEF TryRefresh, CookieTypeOK, ages, history, Cookies
<1>2. /\ pc[r] = "idle" /\ pc' = [pc EXCEPT ![r] = "waiting"]
      /\ tok' = [tok EXCEPT ![r] = t]
      /\ \/ inFlight[t] # None /\ fut' = [fut EXCEPT ![r] = inFlight[t]]
            /\ UNCHANGED <<inFlight, task>>
         \/ /\ fut' = [fut EXCEPT ![r] = r]
            /\ inFlight' = [inFlight EXCEPT ![t] = r]
            /\ task' = [task EXCEPT ![r] = "queued"]
      /\ UNCHANGED <<early, res, val, idp, spent>>
  BY DEF TryRefresh, Refresh, idpVars
<1> HIDE DEF t
<1>3. TypeOK'
  <2>1. TypeOK
    BY DEF CookieTypeOK
  <2>2. /\ pc' \in [Calls -> {"idle", "waiting", "leaving", "returned"}]
        /\ tok' \in [Calls -> Tokens \cup {None}]
    BY <1>1, <1>2, <2>1 DEF TypeOK
  <2>3. /\ fut' \in [Calls -> Calls \cup {None}]
        /\ inFlight' \in [Tokens -> Calls \cup {None}]
        /\ task' \in [Calls -> {"none", "queued", "running", "done"}]
    BY <1>1, <1>2, <2>1 DEF TypeOK
  <2> QED BY <1>2, <2>1, <2>2, <2>3 DEF TypeOK, Answers
<1>4. CookieTypeOK'
  BY <1>1, <1>3 DEF CookieTypeOK
<1>5. CallsStarted'
  BY <1>1, <1>2 DEF CallsStarted, CookieTypeOK, TypeOK
<1>6. RefreshesExpired'
  BY <1>1, <1>2 DEF RefreshesExpired, CookieTypeOK, TypeOK, IsPage, t
<1>7. RepliesAreAnswers'
  BY <1>1 DEF RepliesAreAnswers, CookieTypeOK
<1>8. OneGeneration'
  BY <1>1 DEF OneGeneration, Together, ReplyTogether, Bare
<1>9. ClearedSince'
  BY <1>1 DEF ClearedSince
<1>10. SpentExpired'
  <2>1. \A q \in Calls : pc[q] # "idle" => q # r
    BY <1>2
  <2>2. \A q \in Calls : pc[q] # "idle" => pc'[q] = pc[q] /\ tok'[q] = tok[q]
    BY <1>2, <2>1 DEF CookieTypeOK, TypeOK
  <2> QED BY <1>1, <1>2, <2>2, SpentStays
<1> QED BY <1>4, <1>5, <1>6, <1>7, <1>8, <1>9, <1>10

-----------------------------------------------------------------------------
(* The refresh service *)

\* Inside the service only a grant spends a token, the one that a call, which
\* has started, presented.
LEMMA ServiceEffect ==
  ASSUME CookieIInv, NEW r \in Calls, ServiceStep(r)
  PROVE  /\ TypeOK' /\ CallsStarted'
         /\ tok' = tok /\ \A c \in Calls : pc'[c] # "idle" => pc[c] # "idle"
         /\ \A c \in Calls : pc[c] # "idle" => pc'[c] # "idle"
         /\ \/ spent' = spent
            \/ pc[r] # "idle" /\ Rotates /\ spent' = spent \cup {tok[r]}
         /\ UNCHANGED <<jar, stage, kind, sent, reply, expired, overdue, loggedOut, since, revived>>
<1> USE DEF CookieIInv, CookieTypeOK, TypeOK, Answers, ServiceStep, AtService,
            requestVars, ages, history, CallsStarted
<1>1. CASE AtService(Get(r)) \/ AtService(Interrupt(r))
  <2>1. /\ pc[r] = "waiting" /\ pc' = [pc EXCEPT ![r] = "leaving"]
        /\ \E v \in Calls \cup {Empty} : res' = [res EXCEPT ![r] = v]
        /\ \E ex \in BOOLEAN : early' = [early EXCEPT ![r] = ex]
        /\ UNCHANGED <<tok, fut, inFlight, task, val, idp, spent>>
    BY <1>1 DEF Get, Interrupt, Leave, poolVars, idpVars
  <2> QED BY <1>1, <2>1
<1>2. CASE AtService(Remove(r))
  BY <1>2 DEF Remove, poolVars, idpVars
<1>3. CASE AtService(RunTask(r))
  BY <1>3 DEF RunTask, callVars
<1>4. CASE AtService(Respond(r)) \/ AtService(Fail(r))
  <2>1. /\ task[r] = "running" /\ task' = [task EXCEPT ![r] = "done"]
        /\ \E v \in Calls \cup {Empty} : val' = [val EXCEPT ![r] = v]
        /\ UNCHANGED <<pc, tok, fut, early, res, inFlight, idp, spent>>
    BY <1>4 DEF Respond, Fail, CompleteFuture, callVars,
                idpVars
  <2> QED BY <1>4, <2>1
<1>5. CASE AtService(Grant(r))
  <2>1. /\ idp[r] = "asked" /\ idp' = [idp EXCEPT ![r] = "granted"]
        /\ spent' = IF Rotates THEN spent \cup {tok[r]} ELSE spent
        /\ UNCHANGED <<pc, tok, fut, early, res, inFlight, task, val>>
    BY <1>5 DEF Grant, callVars, poolVars
  <2>2. pc[r] # "idle"
    BY <2>1
  <2>3. tok[r] \in Tokens
    BY <2>2, TokensAssumption DEF RefreshesExpired, Cookies
  <2> QED BY <1>5, <2>1, <2>2, <2>3
<1>6. CASE AtService(Refuse(r))
  BY <1>6 DEF Refuse, callVars, poolVars
<1> QED BY <1>1, <1>2, <1>3, <1>4, <1>5, <1>6

\* A token that is spent came with the access token that had expired, or beside
\* that of a login without refresh token.
LEMMA ServiceKeeps ==
  ASSUME CookieIInv, NEW r \in Calls, ServiceStep(r)
  PROVE  CookieIInv'
<1> USE DEF CookieIInv
<1>1. /\ TypeOK' /\ CallsStarted'
      /\ tok' = tok /\ \A c \in Calls : pc'[c] # "idle" <=> pc[c] # "idle"
      /\ \/ spent' = spent
         \/ pc[r] # "idle" /\ Rotates /\ spent' = spent \cup {tok[r]}
      /\ UNCHANGED <<jar, stage, kind, sent, reply, expired, overdue, loggedOut, since, revived>>
  BY ServiceEffect
<1>2. CookieTypeOK'
  BY <1>1 DEF CookieTypeOK
<1>3. RefreshesExpired' /\ RepliesAreAnswers'
  BY <1>1 DEF RefreshesExpired, RepliesAreAnswers, IsPage
<1>4. OneGeneration' /\ ClearedSince'
  BY <1>1 DEF OneGeneration, ClearedSince, Together, ReplyTogether, Bare
<1>5. SpentExpired'
  <2>1. CASE spent' = spent
    BY <1>1, <2>1, SpentStays
  <2>2. CASE pc[r] # "idle" /\ Rotates /\ spent' = spent \cup {tok[r]}
    <3>1. tok[r] \in expired \/ Bare(sent[r]["access"])
      BY <2>2, TokensAssumption DEF RefreshesExpired, OneGeneration, Together, CookieTypeOK
    <3>2. \A q \in Calls : Bare(sent[q]["access"]) => Bare(sent[q]["access"])'
      BY <1>1 DEF Bare
    <3>3. ASSUME NEW t \in spent' \ expired'
          PROVE  \E q \in Calls : pc'[q] # "idle" /\ tok'[q] = t /\ Bare(sent[q]["access"])'
      <4>1. PICK q \in Calls : pc[q] # "idle" /\ tok[q] = t /\ Bare(sent[q]["access"])
        BY <1>1, <2>2, <3>1, <3>3 DEF SpentExpired, SpentAfterExpiry
      <4> QED BY <1>1, <3>2, <4>1
    <3> QED BY <2>2, <3>3 DEF SpentExpired, SpentAfterExpiry
  <2> QED BY <1>1, <2>1, <2>2
<1> QED BY <1>1, <1>2, <1>3, <1>4, <1>5

-----------------------------------------------------------------------------
(* Theorems *)

\* No step breaks the invariant.
LEMMA CookieNextIInv == CookieIInv /\ [CookieNext]_cookieVars => CookieIInv'
<1> SUFFICES ASSUME CookieIInv, [CookieNext]_cookieVars PROVE CookieIInv'
  OBVIOUS
<1>1. ASSUME NEW r \in Calls, BrowserStep(r) PROVE CookieIInv'
  BY <1>1, SendStep, DeliverStep DEF BrowserStep
<1>2. ASSUME NEW r \in Calls, Serve(r) PROVE CookieIInv'
  BY <1>2, FilterStep, TryRefreshStep DEF Serve
<1>3. ASSUME NEW r \in Calls, ServiceStep(r) PROVE CookieIInv'
  BY <1>3, ServiceKeeps
<1>4. CASE \/ \E g \in Tokens : Expire(g) \/ LeewayEnds(g)
         \/ \E c \in Cookies : Lapse(c)
  BY <1>4, TimeStep
<1>5. CASE UNCHANGED cookieVars
  <2>1. /\ UNCHANGED <<pc, tok, fut, early, res, inFlight, task, val, idp, spent>>
        /\ UNCHANGED <<jar, stage, kind, sent, reply, expired, overdue, loggedOut, since, revived>>
    BY <1>5 DEF cookieVars, serviceVars, vars, requestVars, ages, history
  <2>2. CookieTypeOK'
    BY <2>1 DEF CookieIInv, CookieTypeOK, TypeOK, Answers
  <2> QED
    BY <2>1, <2>2
    DEF CookieIInv, CallsStarted, RefreshesExpired, RepliesAreAnswers, IsPage,
        OneGeneration, ClearedSince, SpentExpired, SpentAfterExpiry, Together,
        ReplyTogether, Bare
<1> QED BY <1>1, <1>2, <1>3, <1>4, <1>5 DEF CookieNext

THEOREM CookieInvariance == CookieSpec => []CookieIInv
  BY CookieInitIInv, CookieNextIInv, PTL DEF CookieSpec

\* The variables of browser, filters and service keep their types.
THEOREM CookieTypeCorrect == CookieSpec => []CookieTypeOK
<1>1. CookieIInv => CookieTypeOK
  BY DEF CookieIInv
<1> QED BY <1>1, CookieInvariance, PTL

\* A refresh token is spent only when the access token issued with it has
\* expired, or beside the access token of a later login that had no refresh
\* token, whatever the server and the network do.
THEOREM SpentTokensExpired == CookieSpec => []SpentAfterExpiry
<1>1. CookieIInv => SpentAfterExpiry
  BY DEF CookieIInv, SpentExpired
<1> QED BY <1>1, CookieInvariance, PTL

\* With a server that rotates, no order of responses leaves the browser with an
\* access and a refresh cookie of two grants: only a login without refresh token
\* puts its access cookie beside an older refresh cookie.
THEOREM JarOfOneGeneration == CookieSpec => [](Rotates => OneGenerationInJar)
<1>1. CookieIInv => (Rotates => OneGenerationInJar)
  BY DEF CookieIInv, OneGeneration, Together, OneGenerationInJar
<1> QED BY <1>1, CookieInvariance, PTL

\* Cookies come back after a logout only by a login or by the response to a
\* request that was sent before it.
THEOREM CookiesBack == CookieSpec => []CookiesBackOnlyByOverlap
<1>1. CookieIInv => CookiesBackOnlyByOverlap
  BY DEF CookieIInv, ClearedSince, CookiesBackOnlyByOverlap
<1> QED BY <1>1, CookieInvariance, PTL

\* The filters use the service as TokenRefresh lets its callers: every behaviour
\* of the browser and the filters is one of the service alone, and what is
\* proved of TokenRefresh holds here.
THEOREM RunsService == CookieSpec => Spec
<1>1. CookieInit => Init
  BY DEF CookieInit
<1>2. CookieIInv /\ [CookieNext]_cookieVars => [Next]_vars
  <2> SUFFICES ASSUME CookieIInv, [CookieNext]_cookieVars
               PROVE  Next \/ UNCHANGED vars
    OBVIOUS
  <2>1. ASSUME NEW r \in Calls, ServiceStep(r) PROVE Next
    BY <2>1 DEF ServiceStep, AtService, Next, CallNext, Wait,
                TaskNext, IdpNext
  <2>2. ASSUME NEW r \in Calls, TryRefresh(r) PROVE Next
    <3>1. sent[r]["refresh"] \in Tokens /\ Refresh(r, sent[r]["refresh"])
      BY <2>2 DEF TryRefresh, CookieIInv, CookieTypeOK, Cookies
    <3> QED BY <3>1 DEF Next, CallNext
  <2>3. ASSUME NEW r \in Calls, BrowserStep(r) PROVE UNCHANGED serviceVars
    BY <2>3 DEF BrowserStep, Send, Deliver
  <2>4. ASSUME NEW r \in Calls, Serve(r), ~TryRefresh(r) PROVE UNCHANGED serviceVars
    BY <2>4 DEF Serve, Anonymous, Authenticated, Reject, Refreshed, RefreshFailed,
                Logout, LoginSuccess
  <2>5. CASE \/ \E g \in Tokens : Expire(g) \/ LeewayEnds(g)
             \/ \E c \in Cookies : Lapse(c)
    BY <2>5 DEF Expire, LeewayEnds, Lapse, serviceVars, vars
  <2>6. CASE UNCHANGED cookieVars
    BY <2>6 DEF cookieVars, serviceVars
  <2>7. UNCHANGED serviceVars => UNCHANGED vars
    BY DEF serviceVars, vars
  <2> QED BY <2>1, <2>2, <2>3, <2>4, <2>5, <2>6, <2>7 DEF CookieNext
<1> QED BY <1>1, <1>2, CookieInvariance, PTL DEF CookieSpec, Spec

\* So the service keeps its promises when the filters call it, and serves them
\* as its contract says.
THEOREM ServiceKept ==
  CookieSpec =>
    /\ [](EntryHasWaiter /\ OneRequestUnlessGivenUp /\ SpentOnlyAfterReturn /\ AnswerIsForOwnToken)
    /\ ImplementsContract
  BY RunsService, EntriesHaveWaiters, OneRequest, SpentTokens, OwnAnswers, Refinement, PTL
=============================================================================
