----------------------------- MODULE PageTimers ------------------------------
(***************************************************************************)
(* The timers of a page, as the scripts use setTimeout of the browser.     *)
(* The pending timers are kept in the order in which they were set, each   *)
(* a record with its job, what it is for and its delay in milliseconds.    *)
(* Time is not modelled beyond the order it imposes: a timer may run once  *)
(* no timer that was set before it, for the same delay or a shorter one,   *)
(* is pending.  Events of the user may come between any two callbacks.     *)
(***************************************************************************)
EXTENDS Naturals, Sequences, SequencesExt

Timer(job, of, delay) == [job |-> job, of |-> of, delay |-> delay]

MayRun(ts, i) == \A j \in 1 .. i - 1 : ts[j].delay > ts[i].delay

Pending(ts, job, of) == \E i \in DOMAIN ts : ts[i].job = job /\ ts[i].of = of

Without(ts, i) == RemoveAt(ts, i)

=============================================================================
