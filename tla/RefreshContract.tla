--------------------------- MODULE RefreshContract ---------------------------
(***************************************************************************)
(* What TokenRefreshService.refresh promises a request thread, without its *)
(* map, its futures and its pool: a call for a refresh token returns       *)
(* nothing, or tokens that were granted for that token while calls for it  *)
(* were being served.  Tokens granted while nobody waits are never served, *)
(* and none outlive the last call that waited for them.                    *)
(***************************************************************************)
EXTENDS Naturals

CONSTANTS
  Calls,   \* the calls of refresh; a grant is named by one of them
  Tokens,  \* refresh token values
  Empty,   \* Optional.empty()
  None     \* no argument yet

VARIABLES
  status,  \* of each call
  arg,     \* its refresh token
  ans,     \* what it returned
  issued,  \* the grants the server has made
  fresh    \* refresh token |-> grants a call for it may still return

cvars == <<status, arg, ans, issued, fresh>>

Active(t) == {c \in Calls : status[c] = "active" /\ arg[c] = t}

Init ==
  /\ status = [c \in Calls |-> "idle"]
  /\ arg = [c \in Calls |-> None]
  /\ ans = [c \in Calls |-> Empty]
  /\ issued = {}
  /\ fresh = [t \in Tokens |-> {}]

Begin(c, t) ==
  /\ status[c] = "idle"
  /\ status' = [status EXCEPT ![c] = "active"]
  /\ arg' = [arg EXCEPT ![c] = t]
  /\ UNCHANGED <<ans, issued, fresh>>

\* The server grants token t; the tokens reach the service only while a call
\* for t waits for them.
Grant(t, g) ==
  /\ g \notin issued
  /\ issued' = issued \cup {g}
  /\ \/ fresh' = fresh
     \/ Active(t) # {} /\ fresh' = [fresh EXCEPT ![t] = @ \cup {g}]
  /\ UNCHANGED <<status, arg, ans>>

\* The response with the granted tokens is lost.
Lose(t, g) ==
  /\ fresh' = [fresh EXCEPT ![t] = @ \ {g}]
  /\ UNCHANGED <<status, arg, ans, issued>>

Return(c) ==
  /\ status[c] = "active"
  /\ status' = [status EXCEPT ![c] = "returned"]
  /\ \E a \in fresh[arg[c]] \cup {Empty} : ans' = [ans EXCEPT ![c] = a]
  /\ \E kept \in SUBSET fresh[arg[c]] :
       /\ Active(arg[c]) = {c} => kept = {}
       /\ fresh' = [fresh EXCEPT ![arg[c]] = kept]
  /\ UNCHANGED <<arg, issued>>

Next ==
  \/ \E c \in Calls : Return(c) \/ \E t \in Tokens : Begin(c, t)
  \/ \E t \in Tokens, g \in Calls : Grant(t, g) \/ Lose(t, g)

Spec == Init /\ [][Next]_cvars
=============================================================================
