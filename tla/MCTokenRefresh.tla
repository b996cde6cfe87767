--------------------------- MODULE MCTokenRefresh ---------------------------
(* Bounds for TokenRefresh: three calls for one or two tokens.  Calls are   *)
(* not permuted, as the runs check liveness.                                *)
EXTENDS TokenRefresh

CONSTANTS c1, c2, c3, t1, t2

ThreeCalls == {c1, c2, c3}
OneToken   == {t1}
TwoTokens  == {t1, t2}
=============================================================================
