-------------------------- MODULE MCLoginHandshake --------------------------
(* Bounds for LoginHandshake: one browser with two tabs, in which two users *)
(* log in, and another in which one of them does.                          *)
EXTENDS LoginHandshake

CONSTANTS t1, t2, t3, b1, b2, u1, u2, home, en

ThreeTabs   == {t1, t2, t3}
TwoBrowsers == {b1, b2}
TwoUsers    == {u1, u2}
OnePage     == {home}
OneLanguage == {en}
TabBrowser  == [t \in ThreeTabs |-> IF t = t3 THEN b2 ELSE b1]
TabUser     == [t \in ThreeTabs |-> IF t = t2 THEN u2 ELSE u1]
=============================================================================
