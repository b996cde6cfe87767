------------------------ MODULE LoginHandshakeProofs ------------------------
(* Theorems about LoginHandshake, for any number of tabs, browsers and     *)
(* users, and any languages and pages.                                     *)
EXTENDS LoginHandshake, TLAPS

-----------------------------------------------------------------------------
(* The inductive invariant *)

UnderWay(t) == phase[t] \in {"atServer", "exchanging", "authenticated"}
Alone(t) == \A u \in Tabs \ {t} : BrowserOf[u] = BrowserOf[t] => ~UnderWay(u)

\* A browser has, and a login holds, only sessions made in that browser.
OwnSessions == /\ \A b \in Browsers : sid[b] \in Sessions => BrowserOf[OwnerOf(sid[b])] = b
               /\ \A t \in Tabs : held[t] \in Sessions => BrowserOf[OwnerOf(held[t])] = BrowserOf[t]

\* Which session a login holds, and whose tokens a client has.
Holding == /\ \A t \in Tabs : phase[t] = "exchanging" => held[t] \in Sessions
           /\ \A t \in Tabs : phase[t] = "authenticated" => held[t] = Changed(t)
           /\ \A u \in Users : client[u] # None => UserOf[client[u]] = u

\* A session made for a redirect is gone when that login is authenticated.
CreatedSessions ==
  \A t \in Tabs : Created(t) \in live =>
    /\ phase[t] \in {"atServer", "exchanging", "failed"}
    /\ phase[t] = "exchanging" => held[t] = Created(t)
    /\ \A s \in live : state[s] = t => s = Created(t)

\* A session made by a callback lives until the success handler, and no other
\* login can hold it.
ChangedSessions ==
  \A t \in Tabs :
    /\ Changed(t) \in live => phase[t] = "authenticated"
    /\ \A b \in Browsers : sid[b] = Changed(t) => phase[t] = "done"
    /\ \A u \in Tabs : held[u] = Changed(t) => u = t

\* A session made for the exception of a failed login is of one that has failed,
\* and holds nothing before.
FailureSessions ==
  \A t \in Tabs : phase[t] # "failed" =>
    /\ ForFailure(t) \notin live /\ state[ForFailure(t)] = None
    /\ \A b \in Browsers : sid[b] # ForFailure(t)
    /\ \A u \in Tabs : held[u] # ForFailure(t)

\* A session made for a language has had no other life before.
LanguageSessions ==
  \A t \in Tabs : lang[ForLanguage(t)] = None =>
    ForLanguage(t) \notin live /\ state[ForLanguage(t)] = None

\* One session holds the authorization request of a login, from the redirect
\* to the callback.
LiveStates ==
  \A s \in live : state[s] # None =>
    /\ phase[state[s]] \in {"atServer", "failed"}
    /\ BrowserOf[state[s]] = BrowserOf[OwnerOf(s)]
    /\ \A r \in live : state[r] = state[s] => r = s

\* A login at the server that nothing has disturbed is the only one of its
\* browser, and finds its request again.
RequestsKept ==
  \A t \in Tabs : phase[t] = "atServer" /\ t \notin disturbed =>
    /\ Alone(t)
    /\ sid[BrowserOf[t]] \in live /\ state[sid[BrowserOf[t]]] = t

IInv == /\ TypeOK /\ OwnSessions /\ Holding /\ CreatedSessions /\ ChangedSessions
        /\ FailureSessions /\ LanguageSessions /\ LiveStates /\ RequestsKept
        /\ TokensOfOwnUser /\ CallbackFailsOnlyByOverlap

\* What the proofs need to know of session identifiers.
LEMMA SessionFacts ==
  /\ \A t \in Tabs : /\ {Created(t), Changed(t), ForFailure(t), ForLanguage(t)} \subseteq Sessions
                     /\ OwnerOf(Created(t)) = t /\ OwnerOf(Changed(t)) = t
                     /\ OwnerOf(ForFailure(t)) = t /\ OwnerOf(ForLanguage(t)) = t
  /\ \A t, u \in Tabs : /\ Created(t) # Changed(u) /\ Created(t) # ForLanguage(u)
                        /\ Changed(t) # ForLanguage(u) /\ ForFailure(t) # Created(u)
                        /\ ForFailure(t) # Changed(u) /\ ForFailure(t) # ForLanguage(u)
  /\ \A s \in Sessions : /\ OwnerOf(s) \in Tabs
                         /\ s \in {Created(OwnerOf(s)), Changed(OwnerOf(s)),
                                  ForFailure(OwnerOf(s)), ForLanguage(OwnerOf(s))}
  /\ None \notin Sessions /\ None \notin Tabs
  BY TabsAssumption DEF Sessions, Created, Changed, ForFailure, ForLanguage, OwnerOf

\* The redirect to the login touches no session.
LEMMA KeepChallenge ==
  ASSUME IInv, NEW t \in Tabs, NEW p \in Pages, Challenge(t, p)
  PROVE  IInv'
<1> USE TabsAssumption, SessionFacts DEF IInv, TypeOK, Goto, Challenge
<1>1. TypeOK'
  BY DEF TypeOK
<1>2. OwnSessions'
  BY <1>1 DEF OwnSessions
<1>3. Holding'
  BY <1>1 DEF Holding
<1>4. CreatedSessions'
  BY <1>1 DEF CreatedSessions
<1>5. ChangedSessions'
  BY <1>1 DEF ChangedSessions
<1>6. LanguageSessions'
  BY <1>1 DEF LanguageSessions
<1>f. FailureSessions'
  BY <1>1 DEF FailureSessions
<1>7. LiveStates'
  BY <1>1 DEF LiveStates
<1>8. RequestsKept'
  BY <1>1 DEF RequestsKept, Alone, UnderWay
<1>9. TokensOfOwnUser'
  BY <1>1 DEF TokensOfOwnUser
<1>10. CallbackFailsOnlyByOverlap'
  BY <1>1 DEF CallbackFailsOnlyByOverlap
<1> QED BY <1>1, <1>2, <1>3, <1>4, <1>5, <1>6, <1>f, <1>7, <1>8, <1>9, <1>10

\* The request is put into the session the browser has, or into a new one.
LEMMA KeepAuthorize ==
  ASSUME IInv, NEW t \in Tabs, Authorize(t)
  PROVE  IInv'
<1> USE TabsAssumption, SessionFacts DEF IInv, TypeOK, Goto, Authorize, MeetRivals
<1> DEFINE s == IF sid[BrowserOf[t]] \in live THEN sid[BrowserOf[t]] ELSE Created(t)
<1>s. /\ s \in Sessions /\ BrowserOf[OwnerOf(s)] = BrowserOf[t]
      /\ s \notin live => s = Created(t)
      /\ live' = live \cup {s} /\ state' = [state EXCEPT ![s] = t]
      /\ sid' = [sid EXCEPT ![BrowserOf[t]] = s]
  BY DEF OwnSessions
<1>b. /\ sid'[BrowserOf[t]] = s /\ state'[s] = t /\ s \in live'
      /\ \A b \in Browsers : b # BrowserOf[t] => sid'[b] = sid[b]
      /\ \A u \in Tabs : BrowserOf[u] \in Browsers /\ (u # t => phase'[u] = phase[u])
  <2>1. BrowserOf[t] \in Browsers /\ DOMAIN sid = Browsers /\ DOMAIN state = Sessions
    OBVIOUS
  <2>2. sid'[BrowserOf[t]] = s /\ state'[s] = t /\ s \in live'
    BY <1>s, <2>1
  <2>3. \A b \in Browsers : b # BrowserOf[t] => sid'[b] = sid[b]
    BY <1>s
  <2>4. \A u \in Tabs : BrowserOf[u] \in Browsers /\ (u # t => phase'[u] = phase[u])
    OBVIOUS
  <2> QED BY <2>2, <2>3, <2>4
<1>l. \A r \in live : state[r] # t
  <2>1. phase[t] = "challenged" /\ t # None
    OBVIOUS
  <2> QED BY <2>1 DEF LiveStates
<1> HIDE DEF s
<1>1. TypeOK'
  <2>1. disturbed' \subseteq Tabs
    BY DEF Rivals
  <2>2. /\ phase' \in [Tabs -> {"idle", "challenged", "atServer", "exchanging",
                                  "authenticated", "done", "failed"}]
        /\ \A u \in Tabs : phase'[u] = "done" => landed'[u] # None
    OBVIOUS
  <2>3. live' \subseteq Sessions
    BY <1>s
  <2>4. sid' \in [Browsers -> Sessions \cup {None}]
    <3>1. sid \in [Browsers -> Sessions \cup {None}]
      OBVIOUS
    <3> QED BY ONLY <1>s, <3>1
  <2>5. state' \in [Sessions -> Tabs \cup {None}]
    BY <1>s
  <2> QED BY <2>1, <2>2, <2>3, <2>4, <2>5
<1>2. OwnSessions'
  BY <1>1 DEF OwnSessions
<1>3. Holding'
  BY <1>1 DEF Holding
<1>4. CreatedSessions'
  <2> SUFFICES ASSUME NEW u \in Tabs, Created(u) \in live'
               PROVE  /\ phase'[u] \in {"atServer", "exchanging", "failed"}
                      /\ phase'[u] = "exchanging" => held[u] = Created(u)
                      /\ \A r \in live' : state'[r] = u => r = Created(u)
    BY DEF CreatedSessions
  <2>1. CASE Created(u) \in live
    BY <1>s, <2>1 DEF CreatedSessions
  <2>2. CASE Created(u) \notin live
    <3>1. u = t /\ s = Created(t)
      BY <1>s, <2>2
    <3> QED BY <1>s, <1>l, <3>1
  <2> QED BY <2>1, <2>2
<1>5. ChangedSessions'
  BY <1>1 DEF ChangedSessions
<1>6. LanguageSessions'
  BY <1>1 DEF LanguageSessions
<1>f. FailureSessions'
  BY <1>1 DEF FailureSessions
<1>7. LiveStates'
  <2> SUFFICES ASSUME NEW r \in live', state'[r] # None
               PROVE  /\ phase'[state'[r]] \in {"atServer", "failed"}
                      /\ BrowserOf[state'[r]] = BrowserOf[OwnerOf(r)]
                      /\ \A q \in live' : state'[q] = state'[r] => q = r
    BY DEF LiveStates
  <2>1. CASE r = s
    BY <1>s, <1>l, <2>1
  <2>2. CASE r # s
    BY <1>s, <1>l, <2>2 DEF LiveStates
  <2> QED BY <2>1, <2>2
<1>8. RequestsKept'
  <2> SUFFICES ASSUME NEW u \in Tabs, phase'[u] = "atServer", u \notin disturbed'
               PROVE  /\ Alone(u)'
                      /\ sid'[BrowserOf[u]] \in live' /\ state'[sid'[BrowserOf[u]]] = u
    BY DEF RequestsKept
  <2>d. disturbed \subseteq disturbed' /\ Rivals(t) \subseteq disturbed'
        /\ (Rivals(t) # {} => t \in disturbed')
    BY DEF MeetRivals
  <2>1. CASE u = t
    <3>1. Alone(t)'
      BY <2>1, <2>d, <1>b DEF Rivals, Alone, UnderWay
    <3> QED BY <1>b, <2>1, <3>1
  <2>2. CASE u # t /\ BrowserOf[u] = BrowserOf[t]
    BY <1>b, <2>2, <2>d DEF Rivals
  <2>3. CASE u # t /\ BrowserOf[u] # BrowserOf[t]
    <3>1. sid'[BrowserOf[u]] = sid[BrowserOf[u]] /\ phase[u] = "atServer" /\ BrowserOf[u] \in Browsers
      BY <1>b, <2>3
    <3>2. Alone(u) /\ sid[BrowserOf[u]] \in live /\ state[sid[BrowserOf[u]]] = u
      BY <2>d, <3>1 DEF RequestsKept
    <3>3. Alone(u)'
      BY <1>b, <2>3, <3>2 DEF Alone, UnderWay
    <3>4. sid[BrowserOf[u]] # s
      BY <1>s, <2>3, <3>1, <3>2 DEF OwnSessions
    <3> QED BY <1>s, <3>1, <3>2, <3>3, <3>4
  <2> QED BY <2>1, <2>2, <2>3
<1>9. TokensOfOwnUser'
  BY <1>1 DEF TokensOfOwnUser
<1>10. CallbackFailsOnlyByOverlap'
  BY <1>1 DEF CallbackFailsOnlyByOverlap
<1> QED BY <1>1, <1>2, <1>3, <1>4, <1>5, <1>6, <1>f, <1>7, <1>8, <1>9, <1>10

\* The request is taken out of the session, or was overwritten by another login.
LEMMA KeepCallback ==
  ASSUME IInv, NEW t \in Tabs, Callback(t)
  PROVE  IInv'
<1> USE TabsAssumption, SessionFacts DEF IInv, TypeOK, Goto, Callback, Failure
<1> DEFINE s == sid[BrowserOf[t]]
<1>s. \/ /\ s \in live /\ state[s] = t /\ phase' = [phase EXCEPT ![t] = "exchanging"]
         /\ state' = [state EXCEPT ![s] = None] /\ held' = [held EXCEPT ![t] = s]
         /\ live' = live /\ sid' = sid
      \/ /\ ~(s \in live /\ state[s] = t) /\ phase' = [phase EXCEPT ![t] = "failed"]
         /\ state' = state /\ held' = held
         /\ \/ s \in live /\ live' = live /\ sid' = sid
            \/ s \notin live /\ live' = live \cup {ForFailure(t)}
               /\ sid' = [sid EXCEPT ![BrowserOf[t]] = ForFailure(t)]
  OBVIOUS
<1>n. phase[t] = "atServer" /\ ForFailure(t) \notin live /\ state[ForFailure(t)] = None
  BY DEF FailureSessions
<1>m. ForFailure(t) \in Sessions /\ OwnerOf(ForFailure(t)) = t /\ BrowserOf[t] \in Browsers
  OBVIOUS
<1>1. TypeOK'
  <2>1. phase' \in [Tabs -> {"idle", "challenged", "atServer", "exchanging",
                              "authenticated", "done", "failed"}]
    BY <1>s
  <2>2. state' \in [Sessions -> Tabs \cup {None}] /\ held' \in [Tabs -> Sessions \cup {None}]
    BY <1>s
  <2>3. \A u \in Tabs : phase'[u] = "done" => landed[u] # None
    BY <1>s
  <2>4. live' \subseteq Sessions /\ sid' \in [Browsers -> Sessions \cup {None}]
    BY <1>s, <1>m
  <2> QED BY <2>1, <2>2, <2>3, <2>4
<1>2. OwnSessions'
  <2>1. \A b \in Browsers : sid'[b] \in Sessions => BrowserOf[OwnerOf(sid'[b])] = b
    <3>1. \A b \in Browsers : sid'[b] = sid[b] \/ (b = BrowserOf[t] /\ sid'[b] = ForFailure(t))
      BY <1>s
    <3> QED BY <3>1, <1>m DEF OwnSessions
  <2>2. \A u \in Tabs : held'[u] \in Sessions => BrowserOf[OwnerOf(held'[u])] = BrowserOf[u]
    <3>1. \A u \in Tabs : held'[u] = held[u] \/ (u = t /\ held'[u] = sid[BrowserOf[t]])
      BY <1>s
    <3> QED BY <3>1, <1>m DEF OwnSessions
  <2> QED BY <2>1, <2>2 DEF OwnSessions
<1>3. Holding'
  <2>1. \A u \in Tabs : phase'[u] = "exchanging" => held'[u] \in Sessions
    BY <1>s DEF Holding
  <2>2. \A u \in Tabs : phase'[u] = "authenticated" => held'[u] = Changed(u)
    BY <1>s DEF Holding
  <2> QED BY <2>1, <2>2 DEF Holding
<1>4. CreatedSessions'
  <2> SUFFICES ASSUME NEW u \in Tabs, Created(u) \in live'
               PROVE  /\ phase'[u] \in {"atServer", "exchanging", "failed"}
                      /\ phase'[u] = "exchanging" => held'[u] = Created(u)
                      /\ \A r \in live' : state'[r] = u => r = Created(u)
    BY DEF CreatedSessions
  <2>1. Created(u) \in live
    BY <1>s
  <2>2. \A r \in live' : state'[r] = u => r \in live /\ state[r] = u
    BY <1>s, <1>n
  <2>3. \A r \in live : state[r] = u => r = Created(u)
    BY <2>1 DEF CreatedSessions
  <2>4. phase[u] \in {"atServer", "exchanging", "failed"} /\ (phase[u] = "exchanging" => held[u] = Created(u))
    BY <2>1 DEF CreatedSessions
  <2>5. phase'[u] \in {"atServer", "exchanging", "failed"}
    BY <1>s, <2>4
  <2>6. phase'[u] = "exchanging" => held'[u] = Created(u)
    BY <1>s, <2>1, <2>3, <2>4
  <2> QED BY <2>2, <2>3, <2>5, <2>6
<1>5. ChangedSessions'
  BY <1>1 DEF ChangedSessions
<1>6. LanguageSessions'
  BY <1>1 DEF LanguageSessions
<1>f. FailureSessions'
  BY <1>1 DEF FailureSessions
<1>7. LiveStates'
  <2>1. \A r \in live' : state'[r] # None => r \in live /\ state'[r] = state[r]
    BY <1>s, <1>n
  <2>2. ASSUME NEW r \in live', state'[r] # None PROVE phase'[state'[r]] \in {"atServer", "failed"}
    <3>1. r \in live /\ state'[r] = state[r] /\ phase[state[r]] \in {"atServer", "failed"}
          /\ state[r] \in Tabs
      BY <2>1, <2>2 DEF LiveStates
    <3>2. CASE state[r] # t
      BY <1>s, <3>1, <3>2
    <3>3. CASE state[r] = t /\ s \in live /\ state[s] = t
      <4>1. r = s
        BY <1>n, <3>1, <3>3 DEF LiveStates
      <4> QED BY <1>s, <2>2, <3>3, <4>1
    <3>4. CASE state[r] = t /\ ~(s \in live /\ state[s] = t)
      BY <1>s, <3>1, <3>4
    <3> QED BY <3>2, <3>3, <3>4
  <2> QED BY <2>1, <2>2 DEF LiveStates
<1>8. RequestsKept'
  <2> SUFFICES ASSUME NEW u \in Tabs, phase'[u] = "atServer", u \notin disturbed
               PROVE  /\ Alone(u)'
                      /\ sid'[BrowserOf[u]] \in live' /\ state'[sid'[BrowserOf[u]]] = u
    BY DEF RequestsKept
  <2>1. u # t /\ phase[u] = "atServer"
    BY <1>s
  <2>2. Alone(u) /\ sid[BrowserOf[u]] \in live /\ state[sid[BrowserOf[u]]] = u
    BY <2>1 DEF RequestsKept
  <2>3. BrowserOf[u] # BrowserOf[t]
    BY <1>n, <2>1, <2>2 DEF Alone, UnderWay
  <2>4. sid'[BrowserOf[u]] = sid[BrowserOf[u]] /\ sid[BrowserOf[u]] \in live'
    BY <1>s, <2>2, <2>3
  <2>5. \A q \in Tabs : q # t => phase'[q] = phase[q]
    BY <1>s
  <2>6. Alone(u)'
    BY <2>2, <2>3, <2>5 DEF Alone, UnderWay
  <2> QED BY <1>s, <2>1, <2>2, <2>4, <2>6
<1>9. TokensOfOwnUser'
  BY <1>1 DEF TokensOfOwnUser
<1>10. CallbackFailsOnlyByOverlap'
  <2>1. phase'[t] = "failed" => t \in disturbed
    BY <1>s, <1>n DEF RequestsKept
  <2> QED BY <1>s, <2>1 DEF CallbackFailsOnlyByOverlap
<1> QED BY <1>1, <1>2, <1>3, <1>4, <1>5, <1>6, <1>f, <1>7, <1>8, <1>9, <1>10

\* A login that fails after its callback holds a session.
LEMMA KeepExchangeFails ==
  ASSUME IInv, NEW t \in Tabs, ExchangeFails(t)
  PROVE  IInv'
<1> USE TabsAssumption, SessionFacts DEF IInv, TypeOK, Goto, ExchangeFails, Failure
<1>s. /\ phase[t] = "exchanging" /\ phase' = [phase EXCEPT ![t] = "failed"]
      /\ UNCHANGED <<goal, lang, landed, state, saved, held, client, jar, disturbed>>
      /\ \/ live' = live /\ sid' = sid
         \/ live' = live \cup {ForFailure(t)} /\ sid' = [sid EXCEPT ![BrowserOf[t]] = ForFailure(t)]
  OBVIOUS
<1>n. ForFailure(t) \notin live /\ state[ForFailure(t)] = None
  BY DEF FailureSessions
<1>m. ForFailure(t) \in Sessions
  OBVIOUS
<1>1. TypeOK'
  <2>1. live' \subseteq Sessions /\ sid' \in [Browsers -> Sessions \cup {None}]
    <3>1. live' \subseteq Sessions
      BY <1>s, <1>m
    <3>2. CASE sid' = sid
      BY <3>1, <3>2
    <3>3. CASE sid' = [sid EXCEPT ![BrowserOf[t]] = ForFailure(t)]
      BY <1>m, <3>1, <3>3
    <3> QED BY <1>s, <3>2, <3>3
  <2>2. phase' \in [Tabs -> {"idle", "challenged", "atServer", "exchanging",
                              "authenticated", "done", "failed"}]
        /\ \A u \in Tabs : phase'[u] = "done" => landed'[u] # None
    BY <1>s
  <2> QED BY <1>s, <2>1, <2>2
<1>2. OwnSessions'
  BY <1>1 DEF OwnSessions
<1>3. Holding'
  BY <1>1 DEF Holding
<1>4. CreatedSessions'
  <2>1. \A u \in Tabs : Created(u) \in live' => Created(u) \in live
    BY <1>s
  <2>2. \A r \in live' : state'[r] # None => r \in live
    BY <1>s, <1>n
  <2> QED BY <1>s, <2>1, <2>2 DEF CreatedSessions
<1>5. ChangedSessions'
  BY <1>1 DEF ChangedSessions
<1>6. LanguageSessions'
  BY <1>1 DEF LanguageSessions
<1>f. FailureSessions'
  BY <1>1 DEF FailureSessions
<1>7. LiveStates'
  <2>1. \A r \in live' : state'[r] # None => r \in live /\ state'[r] = state[r]
    BY <1>s, <1>n
  <2>2. \A u \in Tabs : phase[u] \in {"atServer", "failed"} => phase'[u] = phase[u]
    BY <1>s
  <2> QED BY <1>s, <2>1, <2>2 DEF LiveStates
<1>8. RequestsKept'
  BY <1>1 DEF RequestsKept, Alone, UnderWay
<1>9. TokensOfOwnUser'
  BY <1>1 DEF TokensOfOwnUser
<1>10. CallbackFailsOnlyByOverlap'
  <2>1. phase'[t] = "failed" /\ held'[t] \in Sessions
    BY DEF Holding
  <2> QED BY <2>1 DEF CallbackFailsOnlyByOverlap
<1> QED BY <1>1, <1>2, <1>3, <1>4, <1>5, <1>6, <1>f, <1>7, <1>8, <1>9, <1>10

\* The session moves to an identifier nobody else can know, with what it held.
LEMMA KeepExchange ==
  ASSUME IInv, NEW t \in Tabs, Exchange(t)
  PROVE  IInv'
<1> USE TabsAssumption, SessionFacts DEF IInv, TypeOK, Goto, Exchange
<1>1. TypeOK'
  BY DEF TypeOK
<1>2. OwnSessions'
  BY <1>1 DEF OwnSessions
<1>3. Holding'
  BY <1>1 DEF Holding
<1>4. CreatedSessions'
  BY <1>1 DEF CreatedSessions
<1>5. ChangedSessions'
  BY <1>1 DEF ChangedSessions
<1>6. LanguageSessions'
  BY <1>1 DEF LanguageSessions
<1>f. FailureSessions'
  BY <1>1 DEF FailureSessions
<1>7. LiveStates'
  <2>1. held[t] \in Sessions /\ Changed(t) \notin live
    BY DEF Holding, ChangedSessions
  <2>2. \A r \in live \ {held[t]} : state'[r] = state[r] /\ r # Changed(t)
    BY <2>1
  <2>3. /\ state'[Changed(t)] = (IF held[t] \in live THEN state[held[t]] ELSE None)
        /\ live' = (live \ {held[t]}) \cup {Changed(t)}
    BY <2>1
  <2>4. \A r \in live : state[r] # t
    <3> SUFFICES ASSUME NEW r \in live, state[r] = t PROVE FALSE
      OBVIOUS
    <3>1. phase[t] \in {"atServer", "failed"}
      BY DEF LiveStates
    <3> QED BY <3>1
  <2>5. \A r \in live' : state'[r] # None =>
          \E q \in live : state'[r] = state[q] /\ BrowserOf[OwnerOf(q)] = BrowserOf[OwnerOf(r)]
    <3> SUFFICES ASSUME NEW r \in live', state'[r] # None
                 PROVE  \E q \in live : state'[r] = state[q]
                                         /\ BrowserOf[OwnerOf(q)] = BrowserOf[OwnerOf(r)]
      OBVIOUS
    <3>1. CASE r = Changed(t)
      <4>1. held[t] \in live /\ state'[r] = state[held[t]]
        BY <2>3, <3>1
      <4>2. BrowserOf[OwnerOf(held[t])] = BrowserOf[OwnerOf(r)]
        BY <2>1, <3>1 DEF OwnSessions
      <4> QED BY <4>1, <4>2
    <3>2. CASE r # Changed(t)
      BY <2>2, <2>3, <3>2
    <3> QED BY <3>1, <3>2
  <2>6. \A r, q \in live' : state'[r] # None /\ state'[q] = state'[r] => r = q
    BY <2>1, <2>2, <2>3 DEF LiveStates
  <2>7. \A r \in live' : state'[r] # None =>
          phase'[state'[r]] \in {"atServer", "failed"} /\ BrowserOf[state'[r]] = BrowserOf[OwnerOf(r)]
    BY <2>4, <2>5 DEF LiveStates
  <2> QED BY <2>6, <2>7 DEF LiveStates
<1>8. RequestsKept'
  <2> SUFFICES ASSUME NEW u \in Tabs, phase'[u] = "atServer", u \notin disturbed
               PROVE  /\ Alone(u)'
                      /\ sid'[BrowserOf[u]] \in live' /\ state'[sid'[BrowserOf[u]]] = u
    BY DEF RequestsKept
  <2>p. /\ phase[t] \in {"exchanging", "authenticated"}
        /\ \A q \in Tabs : q # t => phase'[q] = phase[q]
    OBVIOUS
  <2>1. u # t /\ phase[u] = "atServer" /\ Alone(u) /\ BrowserOf[u] # BrowserOf[t]
    BY <2>p DEF RequestsKept, Alone, UnderWay
  <2>2. sid[BrowserOf[u]] \in live /\ state[sid[BrowserOf[u]]] = u
    BY <2>1 DEF RequestsKept
  <2>a. Alone(u)'
    BY <2>1, <2>p DEF Alone, UnderWay
  <2>3. sid[BrowserOf[u]] \notin {held[t], Changed(t)}
    <3>1. sid[BrowserOf[u]] \in Sessions /\ held[t] \in Sessions /\ BrowserOf[u] \in Browsers
      BY <2>1, <2>2 DEF Holding
    <3>2. /\ BrowserOf[OwnerOf(sid[BrowserOf[u]])] = BrowserOf[u]
          /\ BrowserOf[OwnerOf(held[t])] = BrowserOf[t]
      BY <3>1 DEF OwnSessions
    <3> QED BY <2>1, <3>2
  <2> QED BY <2>2, <2>3, <2>a
<1>9. TokensOfOwnUser'
  BY <1>1 DEF TokensOfOwnUser
<1>10. CallbackFailsOnlyByOverlap'
  BY <1>1 DEF CallbackFailsOnlyByOverlap
<1> QED BY <1>1, <1>2, <1>3, <1>4, <1>5, <1>6, <1>f, <1>7, <1>8, <1>9, <1>10

\* The success handler ends the session and writes the tokens of its own user.
LEMMA KeepSuccess ==
  ASSUME IInv, NEW t \in Tabs, Success(t)
  PROVE  IInv'
<1> USE TabsAssumption, SessionFacts DEF IInv, TypeOK, Goto, Success
<1>h. held[t] = Changed(t) /\ Changed(t) \in Sessions
  BY DEF Holding
<1>1. TypeOK'
  <2>1. jar' \in [Browsers -> [access : Tabs \cup {None}, id : Tabs \cup {None}]]
    BY DEF TypeOK
  <2>2. /\ landed' \in [Tabs -> Pages \cup {Root, None}]
        /\ \A u \in Tabs : phase'[u] = "done" => landed'[u] # None
    BY <1>h
  <2>3. sid' \in [Browsers -> Sessions \cup {None}] /\ saved' \in [Sessions -> Pages \cup {None}]
    BY <1>h
  <2> QED BY <2>1, <2>2, <2>3
<1>2. OwnSessions'
  BY <1>1 DEF OwnSessions
<1>3. Holding'
  BY <1>1 DEF Holding
<1>4. CreatedSessions'
  BY <1>1 DEF CreatedSessions
<1>5. ChangedSessions'
  BY <1>h, <1>1 DEF ChangedSessions
<1>6. LanguageSessions'
  BY <1>1 DEF LanguageSessions
<1>f. FailureSessions'
  BY <1>1 DEF FailureSessions
<1>7. LiveStates'
  BY <1>1 DEF LiveStates
<1>8. RequestsKept'
  <2> SUFFICES ASSUME NEW u \in Tabs, phase'[u] = "atServer", u \notin disturbed
               PROVE  /\ Alone(u)'
                      /\ sid'[BrowserOf[u]] \in live' /\ state'[sid'[BrowserOf[u]]] = u
    BY DEF RequestsKept
  <2>p. /\ phase[t] \in {"exchanging", "authenticated"}
        /\ \A q \in Tabs : q # t => phase'[q] = phase[q]
    OBVIOUS
  <2>1. u # t /\ phase[u] = "atServer" /\ Alone(u) /\ BrowserOf[u] # BrowserOf[t]
    BY <2>p DEF RequestsKept, Alone, UnderWay
  <2>2. sid[BrowserOf[u]] \in live /\ state[sid[BrowserOf[u]]] = u
    BY <2>1 DEF RequestsKept
  <2>a. Alone(u)'
    BY <2>1, <2>p DEF Alone, UnderWay
  <2>3. sid[BrowserOf[u]] # held[t]
    BY <1>h, <2>1, <2>2 DEF OwnSessions
  <2> QED BY <2>1, <2>2, <2>3, <2>a
<1>9. TokensOfOwnUser'
  <2> SUFFICES ASSUME NEW b \in Browsers, jar'[b].access # None
               PROVE  \E u \in Tabs : BrowserOf[u] = b /\ phase'[u] = "done"
                                        /\ UserOf[u] = UserOf[jar'[b].access]
    BY DEF TokensOfOwnUser
  <2>1. CASE jar'[b].access = jar[b].access
    BY <2>1 DEF TokensOfOwnUser
  <2>2. CASE jar'[b].access # jar[b].access
    <3>1. /\ b = BrowserOf[t] /\ client[UserOf[t]] # None
          /\ jar'[b].access = client[UserOf[t]]
      BY <2>2
    <3>2. UserOf[client[UserOf[t]]] = UserOf[t] /\ phase'[t] = "done"
      BY <3>1 DEF Holding
    <3> QED BY <3>1, <3>2
  <2> QED BY <2>1, <2>2
<1>10. CallbackFailsOnlyByOverlap'
  BY <1>1 DEF CallbackFailsOnlyByOverlap
<1> QED BY <1>1, <1>2, <1>3, <1>4, <1>5, <1>6, <1>f, <1>7, <1>8, <1>9, <1>10

\* A new session for a language holds no request.
LEMMA KeepChangeLanguage ==
  ASSUME IInv, NEW t \in Tabs, NEW l \in Languages, ChangeLanguage(t, l)
  PROVE  IInv'
<1> USE TabsAssumption, SessionFacts DEF IInv, TypeOK, Goto, ChangeLanguage
<1> DEFINE s == IF sid[BrowserOf[t]] \in live THEN sid[BrowserOf[t]] ELSE ForLanguage(t)
<1>s. /\ s \in Sessions /\ BrowserOf[OwnerOf(s)] = BrowserOf[t]
      /\ s \notin live => s = ForLanguage(t) /\ state[s] = None
      /\ live' = live \cup {s} /\ lang' = [lang EXCEPT ![s] = l]
      /\ sid' = [sid EXCEPT ![BrowserOf[t]] = s]
  BY DEF OwnSessions, LanguageSessions
<1> HIDE DEF s
<1>1. TypeOK'
  BY <1>s DEF TypeOK
<1>2. OwnSessions'
  BY <1>1 DEF OwnSessions
<1>3. Holding'
  BY <1>1 DEF Holding
<1>4. CreatedSessions'
  BY <1>s, <1>1 DEF CreatedSessions
<1>5. ChangedSessions'
  BY <1>1 DEF ChangedSessions
<1>6. LanguageSessions'
  BY <1>1 DEF LanguageSessions
<1>f. FailureSessions'
  BY <1>1 DEF FailureSessions
<1>7. LiveStates'
  BY <1>s, <1>1 DEF LiveStates
<1>8. RequestsKept'
  BY <1>1 DEF RequestsKept, Alone, UnderWay
<1>9. TokensOfOwnUser'
  BY <1>1 DEF TokensOfOwnUser
<1>10. CallbackFailsOnlyByOverlap'
  BY <1>1 DEF CallbackFailsOnlyByOverlap
<1> QED BY <1>1, <1>2, <1>3, <1>4, <1>5, <1>6, <1>f, <1>7, <1>8, <1>9, <1>10

\* Cookies that lapse take nothing else with them.
LEMMA KeepLapse ==
  ASSUME IInv, NEW b \in Browsers, Lapse(b)
  PROVE  IInv'
<1> USE TabsAssumption, SessionFacts DEF IInv, TypeOK, Goto, Lapse
<1>1. TypeOK'
  <2>1. jar' \in [Browsers -> [access : Tabs \cup {None}, id : Tabs \cup {None}]]
    OBVIOUS
  <2> QED BY <2>1
<1>2. OwnSessions'
  BY <1>1 DEF OwnSessions
<1>3. Holding'
  BY <1>1 DEF Holding
<1>4. CreatedSessions'
  BY <1>1 DEF CreatedSessions
<1>5. ChangedSessions'
  BY <1>1 DEF ChangedSessions
<1>6. LanguageSessions'
  BY <1>1 DEF LanguageSessions
<1>f. FailureSessions'
  BY <1>1 DEF FailureSessions
<1>7. LiveStates'
  BY <1>1 DEF LiveStates
<1>8. RequestsKept'
  BY <1>1 DEF RequestsKept, Alone, UnderWay
<1>9. TokensOfOwnUser'
  BY <1>1 DEF TokensOfOwnUser
<1>10. CallbackFailsOnlyByOverlap'
  BY <1>1 DEF CallbackFailsOnlyByOverlap
<1> QED BY <1>1, <1>2, <1>3, <1>4, <1>5, <1>6, <1>f, <1>7, <1>8, <1>9, <1>10

\* A logout ends the session of its browser only, in which a login is done.
LEMMA KeepLogout ==
  ASSUME IInv, NEW b \in Browsers, Logout(b)
  PROVE  IInv'
<1> USE TabsAssumption, SessionFacts DEF IInv, TypeOK, Goto, Logout
<1>1. TypeOK'
  BY DEF TypeOK
<1>2. OwnSessions'
  BY <1>1 DEF OwnSessions
<1>3. Holding'
  BY <1>1 DEF Holding
<1>4. CreatedSessions'
  BY <1>1 DEF CreatedSessions
<1>5. ChangedSessions'
  BY <1>1 DEF ChangedSessions
<1>6. LanguageSessions'
  BY <1>1 DEF LanguageSessions
<1>f. FailureSessions'
  BY <1>1 DEF FailureSessions
<1>7. LiveStates'
  BY <1>1 DEF LiveStates
<1>8. RequestsKept'
  <2> SUFFICES ASSUME NEW u \in Tabs, phase[u] = "atServer", u \notin disturbed'
               PROVE  /\ Alone(u)'
                      /\ sid[BrowserOf[u]] \in live' /\ state[sid[BrowserOf[u]]] = u
    BY DEF RequestsKept
  <2>1. BrowserOf[u] # b /\ u \notin disturbed
    OBVIOUS
  <2>2. Alone(u) /\ sid[BrowserOf[u]] \in live /\ state[sid[BrowserOf[u]]] = u
    BY <2>1 DEF RequestsKept
  <2>3. sid[BrowserOf[u]] # sid[b]
    BY <2>1, <2>2 DEF OwnSessions
  <2>4. Alone(u)'
    BY <2>2 DEF Alone, UnderWay
  <2> QED BY <2>2, <2>3, <2>4
<1>9. TokensOfOwnUser'
  BY <1>1 DEF TokensOfOwnUser
<1>10. CallbackFailsOnlyByOverlap'
  BY <1>1 DEF CallbackFailsOnlyByOverlap
<1> QED BY <1>1, <1>2, <1>3, <1>4, <1>5, <1>6, <1>f, <1>7, <1>8, <1>9, <1>10

\* A session that times out takes only its own request with it.
LEMMA KeepSessionTimesOut ==
  ASSUME IInv, NEW s \in Sessions, SessionTimesOut(s)
  PROVE  IInv'
<1> USE TabsAssumption, SessionFacts DEF IInv, TypeOK, Goto, SessionTimesOut
<1>1. TypeOK'
  BY DEF TypeOK
<1>2. OwnSessions'
  BY <1>1 DEF OwnSessions
<1>3. Holding'
  BY <1>1 DEF Holding
<1>4. CreatedSessions'
  BY <1>1 DEF CreatedSessions
<1>5. ChangedSessions'
  BY <1>1 DEF ChangedSessions
<1>6. LanguageSessions'
  BY <1>1 DEF LanguageSessions
<1>f. FailureSessions'
  BY <1>1 DEF FailureSessions
<1>7. LiveStates'
  BY <1>1 DEF LiveStates
<1>8. RequestsKept'
  <2> SUFFICES ASSUME NEW u \in Tabs, phase[u] = "atServer", u \notin disturbed'
               PROVE  /\ Alone(u)'
                      /\ sid[BrowserOf[u]] \in live' /\ state[sid[BrowserOf[u]]] = u
    BY DEF RequestsKept
  <2>1. sid[BrowserOf[u]] # s /\ u \notin disturbed
    OBVIOUS
  <2>2. Alone(u) /\ sid[BrowserOf[u]] \in live /\ state[sid[BrowserOf[u]]] = u
    BY <2>1 DEF RequestsKept
  <2>3. Alone(u)'
    BY <2>2 DEF Alone, UnderWay
  <2> QED BY <2>1, <2>2, <2>3
<1>9. TokensOfOwnUser'
  BY <1>1 DEF TokensOfOwnUser
<1>10. CallbackFailsOnlyByOverlap'
  BY <1>1 DEF CallbackFailsOnlyByOverlap
<1> QED BY <1>1, <1>2, <1>3, <1>4, <1>5, <1>6, <1>f, <1>7, <1>8, <1>9, <1>10

\* Nor does anything change in a step of others.
LEMMA KeepStutter ==
  ASSUME IInv, UNCHANGED vars
  PROVE  IInv'
<1> USE TabsAssumption, SessionFacts DEF IInv, TypeOK, Goto, vars
<1>1. TypeOK'
  BY DEF TypeOK
<1>2. OwnSessions'
  BY <1>1 DEF OwnSessions
<1>3. Holding'
  BY <1>1 DEF Holding
<1>4. CreatedSessions'
  BY <1>1 DEF CreatedSessions
<1>5. ChangedSessions'
  BY <1>1 DEF ChangedSessions
<1>6. LanguageSessions'
  BY <1>1 DEF LanguageSessions
<1>f. FailureSessions'
  BY <1>1 DEF FailureSessions
<1>7. LiveStates'
  BY <1>1 DEF LiveStates
<1>8. RequestsKept'
  BY <1>1 DEF RequestsKept, Alone, UnderWay
<1>9. TokensOfOwnUser'
  BY <1>1 DEF TokensOfOwnUser
<1>10. CallbackFailsOnlyByOverlap'
  BY <1>1 DEF CallbackFailsOnlyByOverlap
<1> QED BY <1>1, <1>2, <1>3, <1>4, <1>5, <1>6, <1>f, <1>7, <1>8, <1>9, <1>10

-----------------------------------------------------------------------------
(* The theorems *)

\* The invariant holds before any login, ...
LEMMA InitIInv == Init => IInv
  BY TabsAssumption, SessionFacts
  DEF Init, IInv, TypeOK, OwnSessions, Holding, CreatedSessions, ChangedSessions, FailureSessions,
      LanguageSessions, LiveStates, RequestsKept, Alone, UnderWay, TokensOfOwnUser, CallbackFailsOnlyByOverlap

\* ... and every step keeps it.
LEMMA NextIInv == IInv /\ [Next]_vars => IInv'
  BY KeepChallenge, KeepAuthorize, KeepCallback, KeepExchangeFails, KeepExchange, KeepSuccess,
     KeepChangeLanguage, KeepLapse, KeepLogout, KeepSessionTimesOut, KeepStutter DEF Next

\* It holds in every state.
LEMMA Invariance == Spec => []IInv
  BY InitIInv, NextIInv, PTL DEF Spec

\* Types, and every finished login has been sent to a page.
THEOREM TypeCorrect == Spec => []TypeOK
<1>1. IInv => TypeOK
  BY DEF IInv
<1> QED BY Invariance, <1>1, PTL

\* The token cookies of a browser belong to a user who logged in there.
THEOREM OwnTokens == Spec => []TokensOfOwnUser
<1>1. IInv => TokensOfOwnUser
  BY DEF IInv
<1> QED BY Invariance, <1>1, PTL

\* Only another login of the browser that is under way while the tab is at the
\* server, its logout or the age of its session can make a callback fail.
THEOREM CallbackFails == Spec => []CallbackFailsOnlyByOverlap
<1>1. IInv => CallbackFailsOnlyByOverlap
  BY DEF IInv
<1> QED BY Invariance, <1>1, PTL

\* When the logins of a browser are done, none of their sessions is left.
THEOREM SessionEnds == Spec => []SessionEndsWithLogin
<1>1. IInv => SessionEndsWithLogin
  <2> SUFFICES ASSUME IInv, NEW b \in Browsers,
                      \A t \in Tabs : BrowserOf[t] = b => phase[t] \in {"idle", "challenged", "done"},
                      NEW s \in live, BrowserOf[OwnerOf(s)] = b
               PROVE  s = ForLanguage(OwnerOf(s)) /\ state[s] = None
    BY DEF SessionEndsWithLogin
  <2>1. s \in Sessions /\ OwnerOf(s) \in Tabs
    BY SessionFacts DEF IInv, TypeOK
  <2>2. s # Created(OwnerOf(s)) /\ s # Changed(OwnerOf(s)) /\ s # ForFailure(OwnerOf(s))
    BY <2>1 DEF IInv, CreatedSessions, ChangedSessions, FailureSessions
  <2>3. state[s] # None => state[s] \in Tabs
    BY <2>1 DEF IInv, TypeOK
  <2>4. state[s] = None
    BY <2>3 DEF IInv, LiveStates
  <2> QED BY <2>1, <2>2, <2>4, SessionFacts
<1> QED BY Invariance, <1>1, PTL

\* A chosen language is lost only to the end of a login, to the logout of the
\* same browser, or to the age of the session.
THEOREM LanguageIsKept == Spec => LanguageKept
<1>1. IInv /\ [Next]_vars =>
        [\A b \in Browsers : LanguageOf(b) # None /\ LanguageOf(b)' = None =>
           \/ phase' = phase
           \/ \E t \in Tabs : /\ BrowserOf[t] = b
                            /\ phase[t] # phase'[t]
                            /\ phase'[t] \in {"authenticated", "done", "failed"}]_vars
  <2> SUFFICES ASSUME IInv, Next, NEW b \in Browsers, phase' # phase,
                      LanguageOf(b) # None, LanguageOf(b)' = None
               PROVE  \E t \in Tabs : /\ BrowserOf[t] = b
                                    /\ phase[t] # phase'[t]
                                    /\ phase'[t] \in {"authenticated", "done", "failed"}
    OBVIOUS
  <2> USE TabsAssumption, SessionFacts DEF IInv, TypeOK, Goto
  <2>1. sid[b] \in live /\ sid[b] \in Sessions /\ lang[sid[b]] # None
    BY DEF LanguageOf
  <2>2. ASSUME NEW t \in Tabs, NEW p \in Pages, Challenge(t, p) PROVE FALSE
    BY <2>1, <2>2 DEF Challenge, LanguageOf
  <2>3. ASSUME NEW t \in Tabs, Authorize(t) PROVE FALSE
    <3>1. sid'[b] = sid[b] /\ sid[b] \in live' /\ lang' = lang
      BY <2>1, <2>3 DEF Authorize
    <3> QED BY <2>1, <3>1 DEF LanguageOf
  <2>4. ASSUME NEW t \in Tabs, Callback(t) \/ ExchangeFails(t)
        PROVE  BrowserOf[t] = b /\ phase[t] # phase'[t] /\ phase'[t] = "failed"
    <3>1. lang' = lang /\ live \subseteq live'
      BY <2>4 DEF Callback, ExchangeFails, Failure
    <3>2. sid'[b] # sid[b]
      BY <2>1, <3>1 DEF LanguageOf
    <3>3. Failure(t, sid[BrowserOf[t]]) \/ Failure(t, held[t])
      BY <2>4, <3>2 DEF Callback, ExchangeFails
    <3>4. phase[t] \in {"atServer", "exchanging"}
      BY <2>4 DEF Callback, ExchangeFails
    <3> QED BY <3>2, <3>3, <3>4 DEF Failure
  <2>5. ASSUME NEW t \in Tabs, Exchange(t)
        PROVE  BrowserOf[t] = b /\ phase[t] # phase'[t] /\ phase'[t] = "authenticated"
    <3>1. phase[t] = "exchanging" /\ phase'[t] = "authenticated" /\ held[t] \in Sessions
      BY <2>5 DEF Exchange, Holding
    <3>2. sid[b] # Changed(t)
      BY <3>1 DEF ChangedSessions
    <3>3. sid'[b] = sid[b] /\ lang'[sid[b]] = lang[sid[b]] /\ live' = (live \ {held[t]}) \cup {Changed(t)}
      BY <2>1, <2>5, <3>2 DEF Exchange
    <3>4. sid[b] = held[t]
      BY <2>1, <3>3 DEF LanguageOf
    <3> QED BY <3>1, <3>4 DEF OwnSessions
  <2>6. ASSUME NEW t \in Tabs, Success(t)
        PROVE  BrowserOf[t] = b /\ phase[t] # phase'[t] /\ phase'[t] = "done"
    <3>1. phase[t] = "authenticated" /\ phase'[t] = "done" /\ held[t] = Changed(t)
      BY <2>6 DEF Success, Holding
    <3>2. CASE BrowserOf[t] # b
      <4>1. sid'[b] = sid[b] /\ lang' = lang /\ live' = live \ {held[t]}
        BY <2>6, <3>2 DEF Success
      <4>2. sid[b] # held[t]
        BY <2>1, <3>1, <3>2 DEF OwnSessions
      <4> QED BY <2>1, <4>1, <4>2 DEF LanguageOf
    <3> QED BY <3>1, <3>2
  <2>7. ASSUME NEW c \in Browsers, Lapse(c) \/ Logout(c) PROVE FALSE
    BY <2>7 DEF Lapse, Logout
  <2>8. ASSUME NEW t \in Tabs, NEW l \in Languages, ChangeLanguage(t, l) PROVE FALSE
    BY <2>8 DEF ChangeLanguage
  <2>9. ASSUME NEW s \in Sessions, SessionTimesOut(s) PROVE FALSE
    BY <2>9 DEF SessionTimesOut
  <2> QED BY <2>2, <2>3, <2>4, <2>5, <2>6, <2>7, <2>8, <2>9 DEF Next
<1> QED BY Invariance, <1>1, PTL DEF Spec, LanguageKept
=============================================================================
