--------------------------- MODULE LoginHandshake ---------------------------
(***************************************************************************)
(* The handshake chain: logins that users run in the tabs of their         *)
(* browsers, the HTTP sessions that hold the state of a login, the store   *)
(* of authorized clients, and OAuth2LoginSuccessHandler.  A tab logs in    *)
(* once; the tokens its code is exchanged for, and the state value of its  *)
(* authorization request, are named by the tab.                            *)
(***************************************************************************)
EXTENDS Naturals, FiniteSets

CONSTANTS
  Tabs,       \* each runs one login
  Browsers,
  BrowserOf,  \* tab |-> browser whose cookies it shares
  Users,
  UserOf,     \* tab |-> user who logs in at the server
  Pages,      \* what a tab asks for before it is sent to log in
  Languages,
  None

\* Session identifiers: one a tab's redirect may create, one its callback
\* changes it to, one its failure may create, one the tab's choice of a language
\* may create.
Sessions == Tabs \X {"created", "changed", "failure", "language"}
Created(t)     == <<t, "created">>
Changed(t)     == <<t, "changed">>
ForFailure(t)  == <<t, "failure">>
ForLanguage(t) == <<t, "language">>
OwnerOf(s)     == s[1]
Root == "/"

ASSUME TabsAssumption == /\ BrowserOf \in [Tabs -> Browsers]
                         /\ UserOf \in [Tabs -> Users]
                         /\ None \notin Tabs \cup Pages \cup Languages \cup Sessions \cup {Root}

VARIABLES
  phase,    \* how far the login of a tab is
  goal,     \* the page the tab asked for
  landed,   \* the page it is sent to after the login
  sid,      \* browser |-> its EGOV_SESSION cookie
  live,     \* the sessions that exist
  state,    \* session |-> the authorization request it holds
  saved,    \* session |-> the request saved for after the login
  lang,     \* session |-> the language chosen in it
  held,     \* the session of the callback request a tab's login ends with
  client,   \* OAuth2AuthorizedClientService: user |-> tokens, by their tab
  jar,      \* browser |-> its token cookies
  disturbed \* history: tabs that met another login, or the end of the session,
            \* while their login was under way

vars == <<phase, goal, landed, sid, live, state, saved, lang, held,
          client, jar, disturbed>>

TypeOK ==
  /\ phase \in [Tabs -> {"idle", "challenged", "atServer", "exchanging",
                         "authenticated", "done", "failed"}]
  /\ goal \in [Tabs -> Pages \cup {None}]
  /\ landed \in [Tabs -> Pages \cup {Root, None}]
  /\ \A t \in Tabs : phase[t] = "done" => landed[t] # None
  /\ sid \in [Browsers -> Sessions \cup {None}]
  /\ live \subseteq Sessions
  /\ state \in [Sessions -> Tabs \cup {None}]
  /\ saved \in [Sessions -> Pages \cup {None}]
  /\ lang \in [Sessions -> Languages \cup {None}]
  /\ held \in [Tabs -> Sessions \cup {None}]
  /\ client \in [Users -> Tabs \cup {None}]
  /\ jar \in [Browsers -> [access : Tabs \cup {None}, id : Tabs \cup {None}]]
  /\ disturbed \subseteq Tabs

Init ==
  /\ phase = [t \in Tabs |-> "idle"]
  /\ goal = [t \in Tabs |-> None]
  /\ landed = [t \in Tabs |-> None]
  /\ sid = [b \in Browsers |-> None]
  /\ live = {}
  /\ state = [s \in Sessions |-> None]
  /\ saved = [s \in Sessions |-> None]
  /\ lang = [s \in Sessions |-> None]
  /\ held = [t \in Tabs |-> None]
  /\ client = [u \in Users |-> None]
  /\ jar = [b \in Browsers |-> [access |-> None, id |-> None]]
  /\ disturbed = {}

Goto(t, p) == phase' = [phase EXCEPT ![t] = p]

\* The other logins of a tab's browser that have been redirected to the server
\* and have not ended.
Rivals(t) == {u \in Tabs \ {t} : /\ BrowserOf[u] = BrowserOf[t]
                                  /\ phase[u] \in {"atServer", "exchanging", "authenticated"}}
MeetRivals(t) ==
  disturbed' = disturbed \cup Rivals(t) \cup {u \in {t} : Rivals(t) # {}}

\* The main chain meets a request without cookies: its entry point redirects to
\* the login.  The chain is STATELESS: it makes no session and saves no request.
Challenge(t, p) ==
  /\ phase[t] = "idle" /\ jar[BrowserOf[t]].access = None
  /\ Goto(t, "challenged")
  /\ goal' = [goal EXCEPT ![t] = p]
  /\ UNCHANGED <<landed, lang, sid, live, state, saved, held, client, jar, disturbed>>

\* Mutants of Authorize: the handshake chain is stateless, too ...
AuthorizeStateless(t) ==
  /\ phase[t] = "challenged"
  /\ Goto(t, "atServer") /\ MeetRivals(t)
  /\ UNCHANGED <<goal, lang, landed, sid, live, state, saved, held, client, jar>>

\* ... or it makes a session of its own for every login.
AuthorizeNewSession(t) ==
  /\ phase[t] = "challenged"
  /\ Goto(t, "atServer") /\ MeetRivals(t)
  /\ live' = live \cup {Created(t)}
  /\ state' = [state EXCEPT ![Created(t)] = t]
  /\ sid' = [sid EXCEPT ![BrowserOf[t]] = Created(t)]
  /\ UNCHANGED <<goal, lang, landed, saved, held, client, jar>>

\* The redirect filter of the handshake chain stores the authorization request
\* in the browser's session, over an earlier one, and makes a session if there
\* is none.
Authorize(t) ==
  LET b == BrowserOf[t]
      s == IF sid[b] \in live THEN sid[b] ELSE Created(t)
  IN  /\ phase[t] = "challenged"
      /\ Goto(t, "atServer") /\ MeetRivals(t)
      /\ live' = live \cup {s}
      /\ state' = [state EXCEPT ![s] = t]
      /\ sid' = [sid EXCEPT ![b] = s]
      /\ UNCHANGED <<goal, lang, landed, saved, held, client, jar>>

\* The failure handler of a failureUrl keeps the exception in session s of the
\* request, or in a new one if that is gone.
Failure(t, s) ==
  /\ Goto(t, "failed")
  /\ IF s \in live
       THEN UNCHANGED <<live, sid>>
       ELSE /\ live' = live \cup {ForFailure(t)}
            /\ sid' = [sid EXCEPT ![BrowserOf[t]] = ForFailure(t)]

\* The server sends the tab back.  The login filter takes the authorization
\* request out of the session, or fails if the session does not hold it.
Callback(t) ==
  LET s == sid[BrowserOf[t]]
  IN  /\ phase[t] = "atServer"
      /\ IF s \in live /\ state[s] = t
           THEN /\ Goto(t, "exchanging")
                /\ state' = [state EXCEPT ![s] = None]
                /\ held' = [held EXCEPT ![t] = s]
                /\ UNCHANGED <<live, sid>>
           ELSE Failure(t, s) /\ UNCHANGED <<state, held>>
      /\ UNCHANGED <<goal, lang, landed, saved, client, jar, disturbed>>

\* The server rejects the code, or cannot be reached.
ExchangeFails(t) ==
  /\ phase[t] = "exchanging"
  /\ Failure(t, held[t])
  /\ UNCHANGED <<goal, lang, landed, state, saved, held, client, jar, disturbed>>

\* The code is exchanged: the filter saves the tokens as the user's authorized
\* client and moves the session, or a new one if it is gone, to a new
\* identifier.
Exchange(t) ==
  LET s == Changed(t)
  IN  /\ phase[t] = "exchanging"
      /\ Goto(t, "authenticated")
      /\ client' = [client EXCEPT ![UserOf[t]] = t]
      /\ live' = (live \ {held[t]}) \cup {s}
      /\ state' = [state EXCEPT ![s] = IF held[t] \in live THEN state[held[t]] ELSE None]
      /\ saved' = [saved EXCEPT ![s] = IF held[t] \in live THEN saved[held[t]] ELSE None]
      /\ lang' = [lang EXCEPT ![s] = IF held[t] \in live THEN lang[held[t]] ELSE None]
      /\ held' = [held EXCEPT ![t] = s]
      /\ UNCHANGED <<goal, landed, sid, jar, disturbed>>

\* Mutants of onAuthenticationSuccess: the session is not invalidated; the tokens
\* are taken from whichever client was saved.

SuccessKeepsSession(t) ==
  LET b == BrowserOf[t]
  IN  /\ phase[t] = "authenticated"
      /\ Goto(t, "done")
      /\ landed' = [landed EXCEPT ![t] = Root]
      /\ jar' = [jar EXCEPT ![b] = [access |-> client[UserOf[t]], id |-> t]]
      /\ sid' = [sid EXCEPT ![b] = held[t]]
      /\ UNCHANGED <<goal, lang, live, state, saved, held, client, disturbed>>

SuccessAnyClient(t) ==
  LET b == BrowserOf[t]
  IN  /\ phase[t] = "authenticated"
      /\ Goto(t, "done")
      /\ landed' = [landed EXCEPT ![t] = Root]
      /\ \E u \in Users : client[u] # None
                          /\ jar' = [jar EXCEPT ![b] = [access |-> client[u], id |-> t]]
      /\ sid' = [sid EXCEPT ![b] = held[t]]
      /\ live' = live \ {held[t]}
      /\ UNCHANGED <<goal, lang, state, saved, held, client, disturbed>>

\* onAuthenticationSuccess: picks the saved request, writes the tokens of the
\* user's authorized client and the id token of this login as cookies,
\* invalidates the session and redirects.
Success(t) ==
  LET b == BrowserOf[t]
      c == client[UserOf[t]]
  IN  /\ phase[t] = "authenticated"
      /\ Goto(t, "done")
      /\ landed' = [landed EXCEPT ![t] = IF saved[held[t]] # None THEN saved[held[t]] ELSE Root]
      /\ jar' = [jar EXCEPT ![b] = [access |-> IF c # None THEN c ELSE @.access, id |-> t]]
      /\ sid' = [sid EXCEPT ![b] = held[t]]
      /\ live' = live \ {held[t]}
      /\ saved' = [saved EXCEPT ![held[t]] = None]
      /\ UNCHANGED <<goal, lang, state, held, client, disturbed>>

\* LocaleChangeInterceptor and SessionLocaleResolver: a request with a language
\* parameter stores it in the session, and makes a session if there is none.
\* An authenticated page takes one, and so does a static resource, which asks
\* for no login.
ChangeLanguage(t, l) ==
  LET b == BrowserOf[t]
      s == IF sid[b] \in live THEN sid[b] ELSE ForLanguage(t)
  IN  /\ s \notin live => lang[s] = None
      /\ live' = live \cup {s}
      /\ lang' = [lang EXCEPT ![s] = l]
      /\ sid' = [sid EXCEPT ![b] = s]
      /\ UNCHANGED <<phase, goal, landed, state, saved, held, client, jar, disturbed>>

\* The access and the id cookie reach their Max-Age.
Lapse(b) ==
  /\ jar[b].access # None
  /\ jar' = [jar EXCEPT ![b] = [access |-> None, id |-> None]]
  /\ UNCHANGED <<phase, goal, landed, sid, live, state, saved, lang, held, client, disturbed>>

\* Logout, from a page that a finished login has led to, clears the token
\* cookies, if there still are any, and as a logout does by default ends the
\* session.
Logout(b) ==
  /\ \E t \in Tabs : BrowserOf[t] = b /\ phase[t] = "done"
  /\ jar[b].access # None \/ sid[b] \in live
  /\ jar' = [jar EXCEPT ![b] = [access |-> None, id |-> None]]
  /\ live' = live \ {sid[b]}
  /\ disturbed' = disturbed \cup {t \in Tabs : BrowserOf[t] = b /\ phase[t] = "atServer"}
  /\ UNCHANGED <<phase, goal, landed, sid, state, saved, lang, held, client>>

\* A session that no request is using times out.
SessionTimesOut(s) ==
  /\ s \in live
  /\ \A t \in Tabs : phase[t] \in {"exchanging", "authenticated"} => held[t] # s
  /\ live' = live \ {s}
  /\ disturbed' =
       disturbed \cup {t \in Tabs : sid[BrowserOf[t]] = s /\ phase[t] = "atServer"}
  /\ UNCHANGED <<phase, goal, landed, sid, state, saved, lang, held, client, jar>>

Next ==
  \/ \E b \in Browsers : Lapse(b) \/ Logout(b)
  \/ \E s \in Sessions : SessionTimesOut(s)
  \/ \E t \in Tabs, l \in Languages : ChangeLanguage(t, l)
  \/ \E t \in Tabs :
       \/ \E p \in Pages : Challenge(t, p)
       \/ Authorize(t) \/ Callback(t)
       \/ ExchangeFails(t) \/ Exchange(t) \/ Success(t)

Spec == Init /\ [][Next]_vars

-----------------------------------------------------------------------------
(* Properties *)

\* The token cookies of a browser belong to a user who logged in there.
TokensOfOwnUser ==
  \A b \in Browsers : jar[b].access # None =>
    \E t \in Tabs : BrowserOf[t] = b /\ phase[t] = "done"
                    /\ UserOf[t] = UserOf[jar[b].access]

\* The handshake leaves no session: unless one of the logins of a browser has
\* failed, what outlives them was made for a language and holds no state.
SessionEndsWithLogin ==
  \A b \in Browsers :
    (\A t \in Tabs : BrowserOf[t] = b => phase[t] \in {"idle", "challenged", "done"}) =>
      \A s \in live : BrowserOf[OwnerOf(s)] = b => s = ForLanguage(OwnerOf(s)) /\ state[s] = None

\* A callback finds its authorization request, unless while the tab was at the
\* server another login of the same browser was under way as well, the browser
\* logged out, or its session timed out.  A login that had ended before, well or
\* not, takes nothing from it.
CallbackFailsOnlyByOverlap ==
  \A t \in Tabs : phase[t] = "failed" /\ held[t] = None => t \in disturbed

LanguageOf(b) == IF sid[b] \in live THEN lang[sid[b]] ELSE None

\* A chosen language is kept until the end of a login of its browser, well or
\* not, the logout, or its age ends the session or puts another in its place: the
\* redirect that starts a login does not lose it, nor does a login of another
\* browser.
LanguageKept ==
  [][\A b \in Browsers : LanguageOf(b) # None /\ LanguageOf(b)' = None =>
       \/ phase' = phase
       \/ \E t \in Tabs : /\ BrowserOf[t] = b
                        /\ phase[t] # phase'[t]
                        /\ phase'[t] \in {"authenticated", "done", "failed"}]_vars
=============================================================================
