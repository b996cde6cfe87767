----------------------------- MODULE CookieAuth -----------------------------
(***************************************************************************)
(* One browser and its cookies, the requests it has outstanding, and the   *)
(* filters of the main chain that answer them: JwtCookieAuthenticationFilter*)
(* with TokenRefreshService behind it, the logout filter, and the callback *)
(* that ends a login.  A request calls refresh at most once, so requests   *)
(* are the Calls of TokenRefresh.                                          *)
(*                                                                         *)
(* Tokens are named by where they come from: token g is the access, the id *)
(* or the refresh token that the grant of future g, or the login that      *)
(* request g completed, has issued.  FirstLogin issued the cookies the     *)
(* browser starts with.                                                    *)
(***************************************************************************)
EXTENDS TokenRefresh

CONSTANTS
  FirstLogin,  \* the login before the behaviour starts
  Returned,    \* what a granted refresh returns beside an access token
  LoginCookies, \* the sets of cookies that a login may write
  Kinds,       \* the kinds of request the browser sends
  Faults,      \* what the environment may do wrong
  Lapsing      \* the cookies whose Max-Age may run out

ASSUME OriginAssumption == FirstLogin \notin Calls /\ Tokens = Calls \cup {FirstLogin}
ASSUME ReturnedAssumption == /\ Returned \subseteq {"refresh", "id"}
                             /\ Rotates => "refresh" \in Returned
\* A login writes no refresh cookie without an access cookie.
ASSUME LoginCookiesAssumption ==
  /\ LoginCookies \subseteq SUBSET {"access", "refresh", "id"}
  /\ \A K \in LoginCookies : "refresh" \in K => "access" \in K
ASSUME KindsAssumption == Kinds \subseteq {"page", "crossSite", "logout", "login"}
ASSUME FaultsAssumption ==
  Faults \subseteq {"slow", "refuse", "drop", "jwks"}
ASSUME LapsingAssumption == Lapsing \subseteq {"access", "refresh", "id"}

VARIABLES
  jar,       \* the browser's cookies
  stage,     \* how far a request is
  kind,      \* what a request asks for
  sent,      \* the cookies a request carries
  reply,     \* the Set-Cookie headers of its response
  expired,   \* access tokens whose exp has passed
  overdue,   \* those of them for which the decoder's leeway is over, too
  \* history, for the properties about logout
  loggedOut, \* a logout was delivered and no login since
  since,     \* requests sent since that logout
  revived    \* a request sent before that logout has set cookies after it

serviceVars == vars
history  == <<loggedOut, since, revived>>
requestVars == <<stage, kind, sent, reply>>
ages     == <<expired, overdue>>
cookieVars == <<serviceVars, jar, requestVars, ages, history>>

Cookies == {"access", "refresh", "id"}
Strict  == {"refresh", "id"}        \* SameSite=Strict; the access cookie is Lax
NoCookies == [k \in {} |-> None]
NoJar   == [k \in Cookies |-> None]

CookieTypeOK ==
  /\ TypeOK
  /\ jar \in [Cookies -> Tokens \cup {None}]
  /\ stage \in [Calls -> {"new", "sent", "refreshing", "answered", "over"}]
  /\ kind \in [Calls -> Kinds \cup {None}]
  /\ sent \in [Calls -> [Cookies -> Tokens \cup {None}]]
  /\ reply \in [Calls -> UNION {[K -> Tokens \cup {None}] : K \in SUBSET Cookies}]
  /\ expired \subseteq Tokens /\ overdue \subseteq expired
  /\ loggedOut \in BOOLEAN /\ since \subseteq Calls /\ revived \in BOOLEAN

CookieInit ==
  /\ Init
  /\ jar = [k \in Cookies |-> FirstLogin]
  /\ stage = [r \in Calls |-> "new"]
  /\ kind = [r \in Calls |-> None]
  /\ sent = [r \in Calls |-> NoJar]
  /\ reply = [r \in Calls |-> NoCookies]
  /\ expired = {} /\ overdue = {}
  /\ loggedOut = FALSE /\ since = {} /\ revived = FALSE

-----------------------------------------------------------------------------
(* The browser *)

\* The browser sends a request with the cookies it holds; a request that
\* another site starts carries no Strict cookie.
Send(r, k) ==
  /\ stage[r] = "new"
  /\ stage' = [stage EXCEPT ![r] = "sent"]
  /\ kind' = [kind EXCEPT ![r] = k]
  /\ sent' = [sent EXCEPT ![r] =
       [c \in Cookies |-> IF k = "crossSite" /\ c \in Strict THEN None ELSE jar[c]]]
  /\ since' = IF loggedOut THEN since \cup {r} ELSE since
  /\ UNCHANGED <<serviceVars, jar, reply, ages, loggedOut, revived>>

\* A response reaches the browser, in any order, and its Set-Cookie headers
\* take effect together.  One whose request was abandoned never does.
Deliver(r) ==
  /\ stage[r] = "answered"
  /\ stage' = [stage EXCEPT ![r] = "over"]
  /\ jar' = [c \in Cookies |-> IF c \in DOMAIN reply[r] THEN reply[r][c] ELSE jar[c]]
  /\ CASE kind[r] = "logout" ->
            loggedOut' = TRUE /\ since' = {} /\ revived' = FALSE
       [] kind[r] = "login" ->
            loggedOut' = FALSE /\ since' = {} /\ revived' = FALSE
       [] OTHER ->
            /\ revived' = (revived \/ ( /\ loggedOut /\ r \notin since
                                        /\ \E c \in DOMAIN reply[r] : reply[r][c] # None))
            /\ UNCHANGED <<loggedOut, since>>
  /\ UNCHANGED <<serviceVars, kind, sent, reply, ages>>

\* Login g has written an access cookie and no refresh cookie.
Bare(g) == /\ g \in Calls /\ kind[g] = "login"
           /\ "access" \in DOMAIN reply[g] /\ "refresh" \notin DOMAIN reply[g]

\* A cookie reaches its Max-Age, which does not depend on the token's expiry.
\* The access cookie's is the shortest; a cookie that is written whenever the
\* access cookie is does not lapse before it.
Lapse(c) ==
  /\ c \in Lapsing
  /\ jar[c] # None
  /\ c \in Returned => \/ jar["access"] = None
                       \/ c = "refresh" /\ Bare(jar["access"])
  /\ jar' = [jar EXCEPT ![c] = None]
  /\ UNCHANGED <<serviceVars, requestVars, ages, history>>

IsPage(r) == kind[r] \in {"page", "crossSite"}

\* The access tokens that the filter is still to look at.  Another one runs out,
\* too, but nothing asks for its age before a request carries it.
Carried == {sent[r]["access"] : r \in {q \in Calls : stage[q] = "sent" /\ IsPage(q)}} \ {None}

\* The exp of one passes ...
Expire(g) ==
  /\ g \in Carried \ expired
  /\ expired' = expired \cup {g}
  /\ UNCHANGED <<serviceVars, jar, requestVars, overdue, history>>

\* ... and then the leeway that the decoder, but not isExpiredToken, grants.
LeewayEnds(g) ==
  /\ g \in Carried /\ g \in expired \ overdue
  /\ overdue' = overdue \cup {g}
  /\ UNCHANGED <<serviceVars, jar, requestVars, expired, history>>

-----------------------------------------------------------------------------
(* The filters *)

Answer(r, cookies) ==
  /\ stage' = [stage EXCEPT ![r] = "answered"]
  /\ reply' = [reply EXCEPT ![r] = cookies]

ClearAll == [c \in Cookies |-> None]

\* JwtDecoder.decode: an expired token passes until the leeway is over, if the
\* signing keys can be had.
Decodes(g) == g \notin overdue
DecodeFails(g) == g \in overdue \/ "jwks" \in Faults

\* Mutant of RefreshedCookies: only the access cookie is written.
AccessCookieOnly(g) == [c \in {"access"} |-> g]

\* The cookies of the response to a page whose refresh returned grant g.
RefreshedCookies(g) ==
  [c \in {"access"} \cup Returned |-> IF c = "refresh" /\ ~Rotates THEN tok[g] ELSE g]

\* doFilterInternal on a request without access cookie: it stays anonymous.
Anonymous(r) ==
  /\ stage[r] = "sent" /\ IsPage(r)
  /\ sent[r]["access"] = None
  /\ Answer(r, NoCookies)
  /\ UNCHANGED <<serviceVars, jar, kind, sent, ages, history>>

\* ... with an access token that decodes: it is authenticated.
Authenticated(r) ==
  /\ stage[r] = "sent" /\ IsPage(r)
  /\ sent[r]["access"] # None
  /\ Decodes(sent[r]["access"])
  /\ Answer(r, NoCookies)
  /\ UNCHANGED <<serviceVars, jar, kind, sent, ages, history>>

\* Mutant of TryRefresh: any token that does not decode is refreshed.
TryRefreshAlways(r) ==
  /\ stage[r] = "sent" /\ IsPage(r)
  /\ sent[r]["access"] # None /\ DecodeFails(sent[r]["access"])
  /\ sent[r]["refresh"] # None
  /\ Refresh(r, sent[r]["refresh"])
  /\ stage' = [stage EXCEPT ![r] = "refreshing"]
  /\ UNCHANGED <<jar, kind, sent, reply, ages, history>>

\* ... with one that does not decode and has expired, and a refresh token:
\* tryRefresh calls refresh.
TryRefresh(r) ==
  /\ stage[r] = "sent" /\ IsPage(r)
  /\ sent[r]["access"] \in expired /\ DecodeFails(sent[r]["access"])
  /\ sent[r]["refresh"] # None
  /\ Refresh(r, sent[r]["refresh"])
  /\ stage' = [stage EXCEPT ![r] = "refreshing"]
  /\ UNCHANGED <<jar, kind, sent, reply, ages, history>>

\* ... with such a one and no refresh token, or one that does not decode for
\* another reason than its age: all cookies are cleared.
Reject(r) ==
  /\ stage[r] = "sent" /\ IsPage(r)
  /\ sent[r]["access"] # None
  /\ DecodeFails(sent[r]["access"])
  /\ sent[r]["access"] \in expired => sent[r]["refresh"] = None
  /\ Answer(r, ClearAll)
  /\ UNCHANGED <<serviceVars, jar, kind, sent, ages, history>>

\* Mutant of Refreshed: the answer is used without asking if there is one.
RefreshedUnchecked(r) ==
  /\ stage[r] = "refreshing" /\ pc[r] = "returned"
  /\ Decodes(res[r])
  /\ Answer(r, [c \in Cookies |-> res[r]])
  /\ UNCHANGED <<serviceVars, jar, kind, sent, ages, history>>

\* refresh has returned tokens that decode: they become the cookies.
Refreshed(r) ==
  /\ stage[r] = "refreshing" /\ pc[r] = "returned"
  /\ res[r] # Empty
  /\ Decodes(res[r])
  /\ Answer(r, RefreshedCookies(res[r]))
  /\ UNCHANGED <<serviceVars, jar, kind, sent, ages, history>>

\* refresh has returned nothing, or tokens that do not decode.
RefreshFailed(r) ==
  /\ stage[r] = "refreshing" /\ pc[r] = "returned"
  /\ res[r] # Empty => DecodeFails(res[r])
  /\ Answer(r, ClearAll)
  /\ UNCHANGED <<serviceVars, jar, kind, sent, ages, history>>

\* Mutant of Logout: the refresh cookie is forgotten.
LogoutKeepsRefresh(r) ==
  /\ stage[r] = "sent" /\ kind[r] = "logout"
  /\ Answer(r, [c \in {"access", "id"} |-> None])
  /\ UNCHANGED <<serviceVars, jar, kind, sent, ages, history>>

\* The logout filter runs before the cookie filter: all cookies are cleared
\* whatever the request carries.
Logout(r) ==
  /\ stage[r] = "sent" /\ kind[r] = "logout"
  /\ Answer(r, ClearAll)
  /\ UNCHANGED <<serviceVars, jar, kind, sent, ages, history>>

\* The login callback writes the cookies of a new login: the access cookie if
\* there is an authorized client, the refresh cookie if that has a refresh token.
LoginSuccess(r) ==
  /\ stage[r] = "sent" /\ kind[r] = "login"
  /\ \E K \in LoginCookies : Answer(r, [c \in K |-> r])
  /\ UNCHANGED <<serviceVars, jar, kind, sent, ages, history>>

Serve(r) == \/ Anonymous(r) \/ Authenticated(r) \/ TryRefresh(r) \/ Reject(r)
            \/ Refreshed(r) \/ RefreshFailed(r) \/ Logout(r) \/ LoginSuccess(r)

-----------------------------------------------------------------------------
(* The refresh service under these requests *)

AtService(A) == A /\ UNCHANGED <<jar, requestVars, ages, history>>

\* "slow": a call gives up its wait, by the timeout or by an interrupt, which
\* TokenRefresh allows at any moment.
ServiceStep(r) ==
  \/ AtService(Get(r))
  \/ "slow" \in Faults /\ AtService(Interrupt(r))
  \/ AtService(Remove(r))
  \/ AtService(RunTask(r))
  \/ AtService(Respond(r))
  \/ "drop" \in Faults /\ AtService(Fail(r))
  \/ AtService(Grant(r))
  \/ (tok[r] \in spent \/ "refuse" \in Faults) /\ AtService(Refuse(r))

BrowserStep(r) == (\E k \in Kinds : Send(r, k)) \/ Deliver(r)

CookieNext == \/ \E r \in Calls : BrowserStep(r) \/ Serve(r) \/ ServiceStep(r)
              \/ \E c \in Cookies : Lapse(c)
              \/ \E g \in Tokens : Expire(g) \/ LeewayEnds(g)

CookieSpec == CookieInit /\ [][CookieNext]_cookieVars

-----------------------------------------------------------------------------
(* Properties *)

\* Whatever the order of the responses, the access and the refresh cookie of
\* the browser were issued together (by a server that rotates), unless the
\* access cookie is of a login that had no refresh token to write: only then an
\* older refresh cookie stays beside a newer access cookie.
OneGenerationInJar ==
  jar["access"] # None /\ jar["refresh"] # None
    => jar["access"] = jar["refresh"] \/ Bare(jar["access"])

\* A refresh token is not spent before the access token issued with it has
\* expired, as tryRefresh is for expired tokens only: but for one that was left
\* beside the access token of a login without refresh token.
SpentAfterExpiry ==
  \A t \in spent \ expired :
    \E r \in Calls : pc[r] # "idle" /\ tok[r] = t /\ Bare(sent[r]["access"])

\* After a logout has reached the browser, cookies can come back only by a
\* login or by the response to a request that was already on its way.
CookiesBackOnlyByOverlap ==
  loggedOut /\ (\E c \in Cookies : jar[c] # None) => revived

-----------------------------------------------------------------------------
(* A claim of the documentation that the code does not keep *)

Clears(r) == "access" \in DOMAIN reply[r] /\ reply[r]["access"] = None

\* README 4: merging concurrent refreshes prevents that of several requests
\* with one refresh token one is rotated and the others log the user out.  A
\* request sent with the same cookies, but filtered after the first refresh has
\* left the map, presents the spent token and is answered with cleared cookies.
NoForcedLogout == \A r \in Calls : ~Clears(r)
=============================================================================
