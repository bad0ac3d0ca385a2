--------------------------- MODULE DispatchObjects ---------------------------
(***************************************************************************)
(* What the kernel's dispatch objects promise the guest: a wait succeeds   *)
(* only in one atomic step in which the objects it asked for are signaled  *)
(* and the auto-reset ones among them give up exactly one signal each, and *)
(* a wait times out only while it is not satisfied.  Nothing here says     *)
(* how: no token, no condition variable, no host thread.                   *)
(***************************************************************************)
EXTENDS Integers, Sequences

CONSTANTS Waiters,     \* the guest threads
          Events,      \* manual-reset events
          AutoEvents,  \* auto-reset events and timers
          Semaphores,
          Exits,       \* thread objects: signaled once, when the thread ends
          NoWait       \* the request of a thread that does not wait

VARIABLES signal,      \* object -> signal_state
          request      \* thread -> [objs, all, timed], or NoWait

vars == <<signal, request>>

Objects == Events \union AutoEvents \union Semaphores \union Exits
Consumed == AutoEvents \union Semaphores

Asked(t) == {request[t].objs[i] : i \in DOMAIN request[t].objs}
Signaled(o) == signal[o] > 0
Satisfied(t) == IF request[t].all THEN \A o \in Asked(t) : Signaled(o)
                                  ELSE \E o \in Asked(t) : Signaled(o)

Init ==
  /\ signal = [o \in Objects |-> 0]
  /\ request = [t \in Waiters |-> NoWait]

\* A thread starts to wait.
Begin(t) ==
  /\ request[t] = NoWait
  /\ request'[t] # NoWait
  /\ \A u \in Waiters \ {t} : request'[u] = request[u]
  /\ DOMAIN request' = Waiters
  /\ UNCHANGED signal

\* A wait succeeds and takes, in the same step, what it waited for.
Succeed(t) ==
  /\ request[t] # NoWait /\ Satisfied(t)
  /\ \E taken \in IF request[t].all THEN {Asked(t)} ELSE {{o} : o \in Asked(t)} :
       /\ \A o \in taken : Signaled(o)
       /\ signal' = [o \in Objects |-> IF o \in taken \intersect Consumed
                                       THEN signal[o] - 1 ELSE signal[o]]
  /\ request' = [request EXCEPT ![t] = NoWait]

\* A wait with a timeout gives up, unsatisfied.
GiveUp(t) ==
  /\ request[t] # NoWait /\ request[t].timed /\ ~Satisfied(t)
  /\ request' = [request EXCEPT ![t] = NoWait]
  /\ UNCHANGED signal

\* Events are set and reset, a semaphore only grows by a release, and the
\* object of a thread is signaled once for all.
Post(o) ==
  /\ signal' = [signal EXCEPT ![o] = signal'[o]]
  /\ \/ o \in Events \union AutoEvents /\ signal'[o] \in {0, 1}
     \/ o \in Semaphores /\ signal'[o] > signal[o]
     \/ o \in Exits /\ signal'[o] = 1
  /\ UNCHANGED request

\* An object nobody waits for is initialised.
Initialize(o) ==
  /\ o \notin Exits
  /\ \A t \in Waiters : request[t] # NoWait => o \notin Asked(t)
  /\ signal' = [signal EXCEPT ![o] = signal'[o]]
  /\ signal'[o] \in {0, 1}
  /\ UNCHANGED request

Next ==
  \/ \E t \in Waiters : Begin(t) \/ Succeed(t) \/ GiveUp(t)
  \/ \E o \in Objects : Post(o) \/ Initialize(o)

Spec == Init /\ [][Next]_vars
==============================================================================
