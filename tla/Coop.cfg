SPECIFICATION Spec
CONSTANTS
  t1 = t1
  t2 = t2
  t3 = t3
  ev = ev
  au = au
  tm = tm
  se = se
  Threads = {t1, t2, t3}
  Main = t1
  Events = {ev}
  AutoEvents = {au}
  Timers = {}
  Semaphores = {se}
  Resettable = {ev, au}
  Requests <- MixedRequests
  CritSecs = {cs}
  SpinLocks = {sl}
  HostTimers = {}
  Mode = "coop"
  MaxCount = 2
  MaxDepth = 2
  None = None
INVARIANTS OneGuestAtATime
PROPERTIES EntryRunsOnce ImplementsDispatch
\* The title may wait for a signal that never comes.
CHECK_DEADLOCK FALSE
