----------------------------- MODULE MC_GuestExec -----------------------------
(* Instances of GuestExec: the waits the title issues. *)
EXTENDS GuestExec

CONSTANTS t1, t2, t3, ev, au, tm, se

One(o, timed) == [objs |-> <<o>>, all |-> TRUE, timed |-> timed]
Any(s, timed) == [objs |-> s, all |-> FALSE, timed |-> timed]
All(s, timed) == [objs |-> s, all |-> TRUE, timed |-> timed]

\* A join, a semaphore, and waits on several objects.
MixedRequests == {One(t2, FALSE), One(se, FALSE), Any(<<au, se>>, TRUE),
                  All(<<au, ev>>, FALSE)}
\* Waits on an auto-reset event and on a timer.
TimerRequests == {One(au, FALSE), One(tm, FALSE), Any(<<au, tm>>, TRUE)}
\* Waits on events alone.
EventRequests == {One(ev, FALSE), One(au, TRUE), One(t2, FALSE)}
==============================================================================
