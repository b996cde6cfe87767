---------------------------- MODULE TokenRefresh ----------------------------
(***************************************************************************)
(* TokenRefreshService: the calls of refresh(refreshToken) that request    *)
(* threads make, the map inFlight that merges the calls for one token into *)
(* one CompletableFuture, the tasks that the common fork-join pool runs    *)
(* (doRefresh) and the authorization server that answers their POSTs.      *)
(*                                                                         *)
(* A future is named by the call that created it: a call creates at most   *)
(* one.  The tokens a granted POST returns are named by that future, too.  *)
(***************************************************************************)
EXTENDS Naturals, FiniteSets

CONSTANTS
  Calls,     \* the calls of refresh, each made once
  Tokens,    \* refresh token values
  PoolSize,  \* how many tasks the common pool runs at a time
  Rotates,   \* the server spends a refresh token when it grants it
  Empty,     \* Optional.empty()
  None       \* null: no mapping, no future, no argument

ASSUME CallsAssumption == Empty \notin Calls /\ None \notin Calls
ASSUME TokensAssumption == None \notin Tokens
ASSUME PoolAssumption  == PoolSize \in Nat \ {0}
ASSUME RotatesAssumption == Rotates \in BOOLEAN

VARIABLES
  \* the calling threads
  pc,        \* where a call of refresh is
  tok,       \* its argument
  fut,       \* the future it waits on
  early,     \* it left the wait through one of the catch blocks
  res,       \* the value it is about to return, or has returned
  \* the map and the pool
  inFlight,  \* refresh token |-> future
  task,      \* the pool's task that completes a future
  val,       \* the value a completed future holds
  \* the authorization server
  idp,       \* what it has made of the POST of a task
  spent      \* refresh tokens it will not accept again

callVars == <<pc, tok, fut, early, res>>
poolVars == <<task, val>>
idpVars  == <<idp, spent>>
vars == <<pc, tok, fut, early, res, inFlight, task, val, idp, spent>>

Answers == Calls \cup {Empty}
Pending(f) == task[f] \in {"queued", "running"}
InService(c) == pc[c] \in {"waiting", "leaving"}   \* between entry and return

TypeOK ==
  /\ pc \in [Calls -> {"idle", "waiting", "leaving", "returned"}]
  /\ tok \in [Calls -> Tokens \cup {None}]
  /\ fut \in [Calls -> Calls \cup {None}]
  /\ early \in [Calls -> BOOLEAN]
  /\ res \in [Calls -> Answers]
  /\ inFlight \in [Tokens -> Calls \cup {None}]
  /\ task \in [Calls -> {"none", "queued", "running", "done"}]
  /\ val \in [Calls -> Answers]
  /\ idp \in [Calls -> {"none", "asked", "granted", "refused"}]
  /\ spent \in SUBSET Tokens

Init ==
  /\ pc = [c \in Calls |-> "idle"]
  /\ tok = [c \in Calls |-> None]
  /\ fut = [c \in Calls |-> None]
  /\ early = [c \in Calls |-> FALSE]
  /\ res = [c \in Calls |-> Empty]
  /\ inFlight = [t \in Tokens |-> None]
  /\ task = [f \in Calls |-> "none"]
  /\ val = [f \in Calls |-> Empty]
  /\ idp = [f \in Calls |-> "none"]
  /\ spent = {}

-----------------------------------------------------------------------------
(* The calling thread *)

\* Mutants of Refresh: the future is stored without looking for one; the
\* map is searched without regard to the token.
RefreshAlwaysPut(c, t) ==
  /\ pc[c] = "idle"
  /\ pc' = [pc EXCEPT ![c] = "waiting"]
  /\ tok' = [tok EXCEPT ![c] = t]
  /\ fut' = [fut EXCEPT ![c] = c]
  /\ inFlight' = [inFlight EXCEPT ![t] = c]
  /\ task' = [task EXCEPT ![c] = "queued"]
  /\ UNCHANGED <<early, res, val, idpVars>>

RefreshOneKeyForAll(c, t) ==
  /\ pc[c] = "idle"
  /\ pc' = [pc EXCEPT ![c] = "waiting"]
  /\ tok' = [tok EXCEPT ![c] = t]
  /\ \/ \E u \in Tokens : inFlight[u] # None /\ fut' = [fut EXCEPT ![c] = inFlight[u]]
                          /\ UNCHANGED <<inFlight, task>>
     \/ /\ \A u \in Tokens : inFlight[u] = None
        /\ fut' = [fut EXCEPT ![c] = c]
        /\ inFlight' = [inFlight EXCEPT ![t] = c]
        /\ task' = [task EXCEPT ![c] = "queued"]
  /\ UNCHANGED <<early, res, val, idpVars>>

\* A call for token t enters: computeIfAbsent atomically finds the future of
\* t or maps t to a new one, whose task supplyAsync hands to the pool.
Refresh(c, t) ==
  /\ pc[c] = "idle"
  /\ pc' = [pc EXCEPT ![c] = "waiting"]
  /\ tok' = [tok EXCEPT ![c] = t]
  /\ IF inFlight[t] # None
       THEN /\ fut' = [fut EXCEPT ![c] = inFlight[t]]
            /\ UNCHANGED <<inFlight, task>>
       ELSE /\ fut' = [fut EXCEPT ![c] = c]
            /\ inFlight' = [inFlight EXCEPT ![t] = c]
            /\ task' = [task EXCEPT ![c] = "queued"]
  /\ UNCHANGED <<early, res, val, idpVars>>

\* The thread leaves the timed wait with answer r; ex says that it does so
\* through a catch block.
Leave(c, r, ex) ==
  /\ pc' = [pc EXCEPT ![c] = "leaving"]
  /\ res' = [res EXCEPT ![c] = r]
  /\ early' = [early EXCEPT ![c] = ex]
  /\ UNCHANGED <<tok, fut, inFlight, poolVars, idpVars>>

\* Mutant of TimeOut: future.get() without a limit.
TimeOutNever(c) == FALSE

Get(c) ==
  pc[c] = "waiting" /\ task[fut[c]] = "done" /\ Leave(c, val[fut[c]], FALSE)

TimeOut(c) ==
  pc[c] = "waiting" /\ task[fut[c]] # "done" /\ Leave(c, Empty, TRUE)

\* An interrupt that is seen before the result wins over it.
Interrupt(c) ==
  pc[c] = "waiting" /\ Leave(c, Empty, TRUE)

\* Mutant of Remove: the entry is removed after the try block instead of in
\* finally.
RemoveAfterTry(c) ==
  /\ pc[c] = "leaving"
  /\ pc' = [pc EXCEPT ![c] = "returned"]
  /\ inFlight' = [inFlight EXCEPT ![tok[c]] =
                    IF @ = fut[c] /\ ~early[c] THEN None ELSE @]
  /\ UNCHANGED <<tok, fut, early, res, poolVars, idpVars>>

\* finally: inFlight.remove(refreshToken, future), and refresh returns.
Remove(c) ==
  /\ pc[c] = "leaving"
  /\ pc' = [pc EXCEPT ![c] = "returned"]
  /\ inFlight' = [inFlight EXCEPT ![tok[c]] = IF @ = fut[c] THEN None ELSE @]
  /\ UNCHANGED <<tok, fut, early, res, poolVars, idpVars>>

-----------------------------------------------------------------------------
(* A pool thread in doRefresh(tok[f]) *)

\* A free thread of the pool takes the task and sends the POST.
RunTask(f) ==
  /\ task[f] = "queued"
  /\ Cardinality({g \in Calls : task[g] = "running"}) < PoolSize
  /\ task' = [task EXCEPT ![f] = "running"]
  /\ idp' = [idp EXCEPT ![f] = "asked"]
  /\ UNCHANGED <<callVars, inFlight, val, spent>>

CompleteFuture(f, v) ==
  /\ task[f] = "running"
  /\ task' = [task EXCEPT ![f] = "done"]
  /\ val' = [val EXCEPT ![f] = v]
  /\ UNCHANGED <<callVars, inFlight, idpVars>>

\* The response arrives: the token body, or an error status that the first
\* catch block turns into the empty answer.
Respond(f) ==
  \/ idp[f] = "granted" /\ CompleteFuture(f, f)
  \/ idp[f] = "refused" /\ CompleteFuture(f, Empty)

\* The POST fails without a readable response: connection lost, bad body, or
\* no body.  Whatever the server has done or will do with it stands.
Fail(f) == CompleteFuture(f, Empty)

-----------------------------------------------------------------------------
(* The authorization server (external) *)

Grant(f) ==
  /\ idp[f] = "asked"
  /\ tok[f] \notin spent
  /\ idp' = [idp EXCEPT ![f] = "granted"]
  /\ spent' = IF Rotates THEN spent \cup {tok[f]} ELSE spent
  /\ UNCHANGED <<callVars, inFlight, poolVars>>

\* A spent token is always refused; the server may refuse any other for
\* reasons of its own (expired, revoked, internal error).
Refuse(f) ==
  /\ idp[f] = "asked"
  /\ idp' = [idp EXCEPT ![f] = "refused"]
  /\ UNCHANGED <<callVars, inFlight, poolVars, spent>>

-----------------------------------------------------------------------------
Wait(c) == Get(c) \/ TimeOut(c)

CallNext(c) == \/ \E t \in Tokens : Refresh(c, t)
               \/ Wait(c)
               \/ Interrupt(c)
               \/ Remove(c)
TaskNext(f) == RunTask(f) \/ Respond(f) \/ Fail(f)
IdpNext(f)  == Grant(f) \/ Refuse(f)

Next == \E c \in Calls : CallNext(c) \/ TaskNext(c) \/ IdpNext(c)

Spec == Init /\ [][Next]_vars

\* Only the calling threads are scheduled fairly: the 15 second timer of
\* future.get and the finally block do not depend on the pool or the server.
FairSpec == Spec /\ \A c \in Calls : WF_vars(Wait(c)) /\ WF_vars(Remove(c))

-----------------------------------------------------------------------------
(* Properties *)

\* An entry of inFlight always belongs to a call that is still inside
\* refresh: the map cannot leak, and no later call joins a future that was
\* left behind.
EntryHasWaiter ==
  \A t \in Tokens : inFlight[t] # None =>
    \E c \in Calls : InService(c) /\ tok[c] = t /\ fut[c] = inFlight[t]

\* A POST whose future is no longer in the map, so that another call may
\* send the same token again, was given up by a timeout or an interrupt.
AbandonedOnlyByEarlyLeaver ==
  \A f \in Calls : Pending(f) /\ inFlight[tok[f]] # f =>
    \E c \in Calls : fut[c] = f /\ pc[c] = "returned" /\ early[c]

\* Without a timeout or an interrupt, a refresh token is never in two POSTs
\* at a time.
OneRequestUnlessGivenUp ==
  \A f, g \in Calls :
    f # g /\ Pending(f) /\ Pending(g) /\ tok[f] = tok[g] =>
      \E c \in Calls : fut[c] \in {f, g} /\ early[c]

\* A refresh token is presented after it was spent only if a call for it has
\* returned, with its successor or with nothing: of calls that are merged none
\* makes the server turn another down.
SpentOnlyAfterReturn ==
  \A f \in Calls : task[f] = "running" /\ idp[f] = "asked" /\ tok[f] \in spent =>
    \E c \in Calls : tok[c] = tok[f] /\ pc[c] = "returned"

\* Tokens returned to a call were granted for the token it presented.
AnswerIsForOwnToken ==
  \A c \in Calls : res[c] # Empty =>
    tok[res[c]] = tok[c] /\ idp[res[c]] = "granted"

\* refresh returns, whatever the pool and the server do.
EveryCallReturns == \A c \in Calls : pc[c] = "waiting" ~> pc[c] = "returned"

-----------------------------------------------------------------------------
(* The calls as RefreshContract sees them *)

statusBar == [c \in Calls |-> IF pc[c] = "idle" THEN "idle"
                              ELSE IF InService(c) THEN "active" ELSE "returned"]
ansBar    == [c \in Calls |-> IF pc[c] = "returned" THEN res[c] ELSE Empty]
issuedBar == {f \in Calls : idp[f] = "granted"}

\* Granted tokens that are on their way to a waiting call, or in its future.
Deliverable(f) == /\ idp[f] = "granted"
                  /\ task[f] = "running" \/ (task[f] = "done" /\ val[f] = f)
                  /\ \E c \in Calls : InService(c) /\ fut[c] = f
freshBar  == [t \in Tokens |-> {f \in Calls : tok[f] = t /\ Deliverable(f)}]

Contract == INSTANCE RefreshContract
              WITH status <- statusBar, arg <- tok, ans <- ansBar,
                   issued <- issuedBar, fresh <- freshBar

\* The service implements RefreshContract: a call returns nothing or tokens
\* granted for its token while it, or a call it overlaps, was waiting.
ImplementsContract == Contract!Spec
=============================================================================
