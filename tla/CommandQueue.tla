----------------------------- MODULE CommandQueue -----------------------------
(***************************************************************************)
(* What the command processor promises the title: command segments run     *)
(* one by one in the order in which they were submitted, each once, and    *)
(* the ring space of a segment is announced free only after it ran.        *)
(***************************************************************************)
EXTENDS Naturals

CONSTANT Capacity      \* segments the ring holds

VARIABLES submitted,   \* number of segments handed over
          executed,    \* the last segment that ran; segments are numbered
          announced    \* number of segments whose space was given back

vars == <<submitted, executed, announced>>

Init == submitted = 0 /\ executed = 0 /\ announced = 0

Submit ==
  /\ submitted - announced < Capacity
  /\ submitted' = submitted + 1
  /\ UNCHANGED <<executed, announced>>

Execute ==
  /\ executed < submitted
  /\ executed' = executed + 1
  /\ UNCHANGED <<submitted, announced>>

Announce ==
  /\ announced' \in (announced + 1) .. executed
  /\ UNCHANGED <<submitted, executed>>

Next == Submit \/ Execute \/ Announce

Spec == Init /\ [][Next]_vars
==============================================================================
