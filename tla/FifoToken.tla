------------------------------ MODULE FifoToken ------------------------------
(***************************************************************************)
(* What the guest-execution token promises under REX_FAIRSCHED: at most    *)
(* one thread holds it, only the holder gives it back, and it is granted   *)
(* in the order in which it was asked for.  FairToken, the ticket lock of  *)
(* the runtime, implements this; GuestExec uses it.                        *)
(***************************************************************************)
EXTENDS Naturals, Sequences

CONSTANTS Threads,  \* the threads that may ask for the token
          None      \* nobody holds the token

VARIABLES holder,   \* the thread that holds the token, or None
          queue     \* the threads that asked and wait, first come first

vars == <<holder, queue>>

Init == holder = None /\ queue = <<>>

Waiting(t) == \E i \in 1 .. Len(queue) : queue[i] = t

\* Ask for the token and wait.
Request(t) ==
  /\ holder # t /\ ~Waiting(t)
  /\ queue' = Append(queue, t)
  /\ UNCHANGED holder

\* Ask for a token nobody holds or waits for: granted in the same step.
RequestAndTake(t) ==
  /\ holder = None /\ queue = <<>>
  /\ holder' = t
  /\ UNCHANGED queue

\* The longest waiting thread gets the free token.
Grant ==
  /\ holder = None /\ queue # <<>>
  /\ holder' = Head(queue)
  /\ queue' = Tail(queue)

\* The holder, and nobody else, gives the token back.
Release(t) ==
  /\ holder = t
  /\ holder' = None
  /\ UNCHANGED queue

Next ==
  \/ Grant
  \/ \E t \in Threads : Request(t) \/ RequestAndTake(t) \/ Release(t)

Spec == Init /\ [][Next]_vars
==============================================================================
