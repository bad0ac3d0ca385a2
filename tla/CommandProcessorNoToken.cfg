SPECIFICATION Spec
CONSTANTS
  g1 = g1
  g2 = g2
  Guests = {g1, g2}
  Pump = Pump
  None = None
  NoToken = TRUE
  RingSize = 3
  Interrupting = {2, 3}
  MaxSegments = 4
INVARIANTS NoWildCompletion
PROPERTIES ImplementsQueue
\* Once all segments are kicked and waited for the title is at its end.
CHECK_DEADLOCK FALSE
