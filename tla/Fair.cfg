SPECIFICATION FairSpec
CONSTANTS
  t1 = t1
  t2 = t2
  t3 = t3
  ev = ev
  au = au
  tm = tm
  se = se
  Threads = {t1, t2}
  Main = t1
  Events = {}
  AutoEvents = {au}
  Timers = {tm}
  Semaphores = {}
  Resettable = {au}
  Requests <- TimerRequests
  CritSecs = {}
  SpinLocks = {}
  HostTimers = {h1, h2}
  Mode = "fair"
  MaxCount = 1
  MaxDepth = 1
  None = None
INVARIANTS NoLostWakeup LiveTimersAreArmed
PROPERTIES EveryThreadGetsATurn 
\* The title may wait for a signal that never comes.
CHECK_DEADLOCK FALSE
