---------------------------- MODULE MCCookieAuth ----------------------------
(* Bounds for CookieAuth: two or three requests, which are also the calls  *)
(* of refresh, on top of the session the browser starts with.              *)
EXTENDS CookieAuth, TLC

CONSTANTS r1, r2, r3, first

TwoRequests   == {r1, r2}
ThreeRequests == {r1, r2, r3}
Origins       == Calls \cup {first}

BothReturned == {"refresh", "id"}
\* Without an authorized client, without a refresh token, and with all.
AllLogins    == {{"id"}, {"access", "id"}, {"access", "refresh", "id"}}
AllKinds     == {"page", "crossSite", "logout", "login"}
PagesOnly    == {"page"}
NoFaults     == {}
\* A refusal that is not the server's answer to a spent token comes back to the
\* filter as a lost answer does: "refuse" adds nothing to "drop".
MostFaults   == {"slow", "drop", "jwks"}
\* Only the logout reads the id cookie, as a hint for the server it goes to.
ReadCookies  == {"access", "refresh"}
NoneLapse    == {}

Symmetry == Permutations(Calls)
=============================================================================
