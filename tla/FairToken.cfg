SPECIFICATION FairSpec
CONSTANTS
  Threads = {t1, t2, t3}
  None = None
  MaxTicket = 7
INVARIANTS NoLostTurn
PROPERTIES EveryoneIsServed ImplementsFifo
\* Once MaxTicket tickets were taken nobody asks again and the model stops.
CHECK_DEADLOCK FALSE
