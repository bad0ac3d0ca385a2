--------------------------- MODULE GuestExec_proofs ---------------------------
(***************************************************************************)
(* Proofs about the execution of guest threads, for every set of threads,  *)
(* objects, locks, timers and waits, and for the three ways of scheduling: *)
(* the invariants, then that the token is used as FifoToken allows, last   *)
(* that waits and signals implement DispatchObjects.                       *)
(***************************************************************************)
EXTENDS GuestExec, WellFoundedInduction, TLAPS

\* SignalObject writes a signal state.
LEMMA SignalTyped ==
  ASSUME signal \in [Objects -> Int], NEW o, NEW state \in Int, NEW at,
         SignalObject(o, state, at)
  PROVE  signal' \in [Objects -> Int]
BY DEF SignalObject

\* Entering a lock keeps the types of the lock state.
LEMMA EnterTyped ==
  ASSUME owner \in [Locks -> Threads \union {None}], depth \in [Locks -> Nat],
         heldCS \in [Threads -> [CritSecs -> Nat]],
         NEW t \in Threads, NEW l, EnterLock(t, l)
  PROVE  /\ owner' \in [Locks -> Threads \union {None}]
         /\ depth' \in [Locks -> Nat]
         /\ heldCS' \in [Threads -> [CritSecs -> Nat]]
<1>1. owner' \in [Locks -> Threads \union {None}]
  BY DEF EnterLock
<1>2. depth' \in [Locks -> Nat]
  <2>1. CASE l \in Locks
    BY <2>1 DEF EnterLock
  <2>2. CASE l \notin Locks
    BY <2>2 DEF EnterLock
  <2>3. QED
    BY <2>1, <2>2
<1>3. heldCS' \in [Threads -> [CritSecs -> Nat]]
  BY DEF EnterLock, Tracked
<1>4. QED
  BY <1>1, <1>2, <1>3

\* The state keeps its types.  That no depth drops below zero rests on
\* LocksInv: only the owner unlocks, and an owned lock has been locked.
LEMMA TypeStep == TypeOK /\ LocksInv /\ [Next]_vars => TypeOK'
<1> SUFFICES ASSUME TypeOK, LocksInv, [Next]_vars PROVE TypeOK'
  OBVIOUS
<1> USE NoneAssumption, MainAssumption, BoundsAssumption
<1> USE DEF TypeOK, execVars, waitVars, lockVars, timerVars
<1>1. ASSUME NEW t \in Threads, Ask(t) PROVE TypeOK'
  BY <1>1 DEF Ask
<1>2. ASSUME NEW t \in Threads, Acquire(t) PROVE TypeOK'
  <2>1. queue' \in Seq(Threads)
    <3>1. CASE Fair
      <4>1. queue # <<>> /\ queue' = Tail(queue)
        BY <1>2, <3>1 DEF Acquire
      <4>2. QED
        BY <4>1
    <3>2. CASE ~Fair
      BY <1>2, <3>2 DEF Acquire
    <3>3. QED
      BY <3>1, <3>2
  <2>2. pc' \in [Threads -> PCs]
    BY <1>2 DEF Acquire, PCs
  <2>3. QED
    BY <1>2, <2>1, <2>2 DEF Acquire
<1>3. ASSUME NEW t \in Threads, NoToken(t) PROVE TypeOK'
  BY <1>3 DEF NoToken, PCs
<1>4. ASSUME NEW t \in Threads, Delay(t) PROVE TypeOK'
  BY <1>4 DEF Delay, Unlocked, PCs
<1>5. ASSUME NEW t \in Threads, NEW o \in Objects, NEW s \in {0, 1}, Initialize(t, o, s)
      PROVE  TypeOK'
  BY <1>5 DEF Initialize
<1>6. ASSUME NEW t \in Threads, NEW o \in Objects, SetEvent(t, o) PROVE TypeOK'
  <2>1. signal' \in [Objects -> Int]
    BY <1>6, SignalTyped DEF SetEvent
  <2>2. pc' \in [Threads -> PCs]
    BY <1>6 DEF SetEvent, SignalObject, NotifyAll, PCs
  <2>3. UNCHANGED <<arg, prev, holder>>
    BY <1>6 DEF SetEvent
  <2>4. QED
    BY <1>6, <2>1, <2>2, <2>3 DEF SetEvent
<1>7. ASSUME NEW t \in Threads, NEW o \in Objects, ResetEvent(t, o) PROVE TypeOK'
  BY <1>7 DEF ResetEvent
<1>8. ASSUME NEW t \in Threads, NEW o \in Events \union AutoEvents, PulseEvent(t, o) PROVE TypeOK'
  <2>1. signal' \in [Objects -> Int]
    BY <1>8, SignalTyped DEF PulseEvent
  <2>2. pc' \in [Threads -> PCs]
    BY <1>8 DEF PulseEvent, SignalObject, NotifyAll, PCs
  <2>3. arg' \in [Threads -> Objects \union Locks \union {None}]
    BY <1>8 DEF PulseEvent, Objects
  <2>4. QED
    BY <1>8, <2>1, <2>2, <2>3 DEF PulseEvent
<1>9. ASSUME NEW t \in Threads, EndPulse(t) PROVE TypeOK'
  <2>1. signal' \in [Objects -> Int]
    BY <1>9, SignalTyped DEF EndPulse
  <2>2. pc' \in [Threads -> PCs]
    BY <1>9 DEF EndPulse, SignalObject, NotifyAll, PCs
  <2>3. arg' \in [Threads -> Objects \union Locks \union {None}]
    BY <1>9 DEF EndPulse
  <2>4. QED
    BY <1>9, <2>1, <2>2, <2>3 DEF EndPulse
<1>10. ASSUME NEW t \in Threads, NEW s \in Semaphores, ReleaseSemaphore(t, s) PROVE TypeOK'
  BY <1>10 DEF ReleaseSemaphore, PCs, Objects
<1>11. ASSUME NEW t \in Threads, EndRelease(t) PROVE TypeOK'
  <2>1. signal' \in [Objects -> Int]
    BY <1>11, SignalTyped DEF EndRelease
  <2>2. pc' \in [Threads -> PCs]
    BY <1>11 DEF EndRelease, SignalObject, NotifyAll, PCs
  <2>3. prev' \in [Threads -> Int] /\ arg' \in [Threads -> Objects \union Locks \union {None}]
    BY <1>11 DEF EndRelease
  <2>4. QED
    BY <1>11, <2>1, <2>2, <2>3 DEF EndRelease
<1>12. ASSUME NEW t \in Threads, NEW w \in Requests, BeginWait(t, w) PROVE TypeOK'
  BY <1>12 DEF BeginWait, PCs
<1>13. ASSUME NEW t \in Threads, Test(t) PROVE TypeOK'
  BY <1>13 DEF Test, EndWait, PCs
<1>14. ASSUME NEW t \in Threads, Sleep(t) PROVE TypeOK'
  BY <1>14 DEF Sleep, PCs
<1>15. ASSUME NEW t \in Threads, FairSleep(t) PROVE TypeOK'
  BY <1>15 DEF FairSleep, PCs
<1>16. ASSUME NEW t \in Threads, Timeout(t) PROVE TypeOK'
  BY <1>16 DEF Timeout, PCs
<1>17. ASSUME NEW t \in Threads, Consume(t) PROVE TypeOK'
  BY <1>17 DEF Consume, EndWait, PCs
<1>18. ASSUME NEW t \in Threads, NEW u \in Threads, CreateThread(t, u) PROVE TypeOK'
  BY <1>18 DEF CreateThread, PCs, Objects
<1>19. ASSUME NEW t \in Threads, NEW s \in BOOLEAN, EndCreate(t, s) PROVE TypeOK'
  BY <1>19 DEF EndCreate, PCs
<1>20. ASSUME NEW t \in Threads, NEW u \in Threads, ResumeThread(t, u) PROVE TypeOK'
  BY <1>20 DEF ResumeThread, PCs
<1>21. ASSUME NEW t \in Threads, EntryReturns(t) PROVE TypeOK'
  <2>1. depth' \in [Locks -> Nat]
    <3>1. ASSUME NEW l \in CritSecs, owner[l] = t PROVE depth[l] - heldCS[t][l] \in Nat
      <4>1. owner[l] # None /\ l \in Locks
        BY <3>1 DEF Locks
      <4>2. heldCS[t][l] = IF Preempt THEN depth[l] ELSE 0
        BY <3>1 DEF LocksInv
      <4>3. QED
        BY <4>1, <4>2
    <3>2. QED
      BY <1>21, <3>1 DEF EntryReturns, Locks
  <2>2. owner' \in [Locks -> Threads \union {None}]
    BY <1>21 DEF EntryReturns
  <2>3. heldCS' \in [Threads -> [CritSecs -> Nat]]
    BY <1>21 DEF EntryReturns
  <2>4. pc' \in [Threads -> PCs]
    BY <1>21 DEF EntryReturns, PCs
  <2>5. QED
    BY <1>21, <2>1, <2>2, <2>3, <2>4 DEF EntryReturns
<1>22. ASSUME NEW t \in Threads, ExitThread(t) PROVE TypeOK'
  <2>1. signal' \in [Objects -> Int]
    BY <1>22, SignalTyped DEF ExitThread
  <2>2. pc' \in [Threads -> PCs]
    BY <1>22 DEF ExitThread, SignalObject, NotifyAll, PCs
  <2>3. holder' \in Threads \union {None}
    BY <1>22 DEF ExitThread, Unlocked
  <2>4. QED
    BY <1>22, <2>1, <2>2, <2>3 DEF ExitThread
<1>23. ASSUME NEW t \in Threads, NEW l \in Locks, TryLock(t, l) PROVE TypeOK'
  BY <1>23 DEF TryLock, EnterLock, Tracked
<1>24. ASSUME NEW t \in Threads, NEW l \in Locks, LockContended(t, l) PROVE TypeOK'
  BY <1>24 DEF LockContended, Unlocked, PCs
<1>25. ASSUME NEW t \in Threads, LockGranted(t) PROVE TypeOK'
  <2>1. EnterLock(t, arg[t])
    BY <1>25 DEF LockGranted
  <2>2. /\ owner' \in [Locks -> Threads \union {None}] /\ depth' \in [Locks -> Nat]
        /\ heldCS' \in [Threads -> [CritSecs -> Nat]]
    BY <2>1, EnterTyped
  <2>3. pc' \in [Threads -> PCs]
    BY <1>25 DEF LockGranted, PCs
  <2>4. QED
    BY <1>25, <2>2, <2>3 DEF LockGranted
<1>26. ASSUME NEW t \in Threads, NEW l \in Locks, Unlock(t, l) PROVE TypeOK'
  BY <1>26 DEF Unlock, LocksInv, Tracked, Locks
<1>27. ASSUME NEW t \in Threads, NEW o \in Timers, NEW h \in HostTimers, NEW p \in BOOLEAN,
              SetTimer(t, o, h, p)
       PROVE  TypeOK'
  BY <1>27, ZenonT(40) DEF SetTimer, Stopped
<1>28. ASSUME NEW t \in Threads, NEW o \in Timers, CancelTimer(t, o) PROVE TypeOK'
  BY <1>28, ZenonT(40) DEF CancelTimer, Stopped
<1>29. ASSUME NEW h \in HostTimers, TimerExpires(h) PROVE TypeOK'
  BY <1>29, ZenonT(40) DEF TimerExpires, IdleTimer
<1>30. ASSUME NEW h \in HostTimers, TimerFires(h) PROVE TypeOK'
  <2>1. signal' \in [Objects -> Int]
    <3>1. SignalObject(host[h].obj, 1, pc)
      BY <1>30 DEF TimerFires
    <3>2. QED
      BY <3>1, SignalTyped
  <2>2. pc' \in [Threads -> PCs]
    BY <1>30 DEF TimerFires, SignalObject, NotifyAll, PCs
  <2>3. host' \in [HostTimers -> [obj : Timers \union {None}, stop : BOOLEAN,
                               periodic : BOOLEAN, at : {"idle", "sleep", "fire"}]]
    BY <1>30, ZenonT(40) DEF TimerFires, IdleTimer
  <2>4. QED
    BY <1>30, <2>1, <2>2, <2>3 DEF TimerFires
<1>31. CASE UNCHANGED vars
  BY <1>31 DEF vars
<1> HIDE DEF TypeOK
<1>32. ASSUME NEW t \in Threads, GuestCall(t) PROVE TypeOK'
  BY <1>4, <1>5, <1>6, <1>7, <1>8, <1>10, <1>12, <1>18, <1>20, <1>21, <1>23, <1>24, <1>26,
     <1>27, <1>28, <1>32 DEF GuestCall, Objects
<1>33. ASSUME NEW t \in Threads, RuntimeStep(t) PROVE TypeOK'
  BY <1>1, <1>2, <1>3, <1>9, <1>11, <1>13, <1>14, <1>15, <1>16, <1>17, <1>19, <1>22, <1>25,
     <1>33 DEF RuntimeStep
<1>34. QED
  BY <1>29, <1>30, <1>31, <1>32, <1>33 DEF Next

\* Only five kinds of steps touch a lock, and all others leave every lock alone.
LEMMA LockSteps ==
  ASSUME [Next]_vars
  PROVE  \/ UNCHANGED lockVars
         \/ \E t \in Threads : EntryReturns(t) \/ LockGranted(t)
         \/ \E t \in Threads, l \in Locks : TryLock(t, l) \/ Unlock(t, l)
<1>1. ASSUME NEW t \in Threads, GuestCall(t)
      PROVE  \/ UNCHANGED lockVars
             \/ EntryReturns(t)
             \/ \E l \in Locks : TryLock(t, l) \/ Unlock(t, l)
  BY <1>1 DEF GuestCall, Delay, SetEvent, ResetEvent, PulseEvent, Initialize, ReleaseSemaphore,
     BeginWait, CreateThread, ResumeThread, LockContended, CancelTimer, SetTimer
<1>2. ASSUME NEW t \in Threads, RuntimeStep(t)
      PROVE  UNCHANGED lockVars \/ LockGranted(t)
  BY <1>2 DEF RuntimeStep, Ask, Acquire, NoToken, EndPulse, EndRelease, EndCreate, Test, Sleep,
     FairSleep, Timeout, Consume, ExitThread
<1>3. ASSUME NEW h \in HostTimers, TimerExpires(h) \/ TimerFires(h)
      PROVE  UNCHANGED lockVars
  BY <1>3 DEF TimerExpires, TimerFires
<1>4. QED
  BY <1>1, <1>2, <1>3 DEF Next, vars

\* Owner, depth and the records of held critical sections stay in step.
LEMMA LocksStep == TypeOK /\ LocksInv /\ [Next]_vars => LocksInv'
<1> SUFFICES ASSUME TypeOK, LocksInv, [Next]_vars PROVE LocksInv'
  OBVIOUS
<1> USE NoneAssumption
<1> USE DEF LocksInv
<1> DEFINE Ty == /\ owner \in [Locks -> Threads \union {None}]
                 /\ depth \in [Locks -> Nat]
                 /\ heldCS \in [Threads -> [CritSecs -> Nat]]
<1>0. Ty
  BY DEF TypeOK
<1>1. ASSUME NEW t \in Threads, NEW l \in Locks, EnterLock(t, l) PROVE LocksInv'
  BY <1>0, <1>1 DEF EnterLock, Tracked, Locks
<1>2. ASSUME NEW t \in Threads, NEW l \in Locks, Unlock(t, l) PROVE LocksInv'
  BY <1>0, <1>2 DEF Unlock, Tracked, Locks
<1>3. ASSUME NEW t \in Threads, EntryReturns(t) PROVE LocksInv'
  BY <1>0, <1>3 DEF EntryReturns, Locks
<1>4. CASE UNCHANGED lockVars
  BY <1>4 DEF lockVars
<1>5. ASSUME NEW t \in Threads, LockGranted(t) PROVE LocksInv'
  <2>1. EnterLock(t, arg[t])
    BY <1>5 DEF LockGranted
  <2>2. CASE arg[t] \in Locks
    BY <1>1, <2>1, <2>2
  <2>3. CASE arg[t] \notin Locks
    BY <1>0, <1>4, <2>1, <2>3 DEF EnterLock, Tracked, Locks, lockVars
  <2>4. QED
    BY <2>2, <2>3
<1>6. QED
  BY <1>1, <1>2, <1>3, <1>4, <1>5, LockSteps DEF TryLock

\* The state keeps its types under every scheduling.
THEOREM TypeCorrect == Spec => []TypeOK
<1>1. Init => TypeOK /\ LocksInv
  BY NoneAssumption, MainAssumption
     DEF Init, TypeOK, LocksInv, PCs, IdleTimer, Locks
<1>2. TypeOK /\ LocksInv /\ [Next]_vars => TypeOK' /\ LocksInv'
  BY TypeStep, LocksStep
<1>3. QED
  BY <1>1, <1>2, PTL DEF Spec

\* Every lock is locked exactly while it has an owner, and the records of held
\* critical sections agree with it.
THEOREM LocksCorrect == Spec => []LocksInv
<1>1. Init => LocksInv
  BY NoneAssumption DEF Init, LocksInv, Locks
<1>2. TypeOK /\ LocksInv /\ [Next]_vars => LocksInv'
  BY LocksStep
<1>3. QED
  BY <1>1, <1>2, TypeCorrect, PTL DEF Spec

\* What CsExitCleanup unlocks is what the ending thread owns.
THEOREM HeldCorrect == Spec => []HeldIsExact
<1>1. LocksInv => HeldIsExact
  BY DEF LocksInv, HeldIsExact
<1>2. QED
  BY <1>1, LocksCorrect, PTL
\* One guest at a time, and no thread is started twice.  The two belong
\* together: a creator holds the token until the thread it creates is started,
\* so nobody can resume that thread meanwhile.
ThreadMoves ==
  /\ StartsFromCreated
  /\ \A u \in Threads : pc'[u] \in {"exiting", "exited"} =>
                          pc[u] \in {"exiting", "exited"} \/ EntryReturns(u)

LEMMA ThreadsStep ==
  TypeOK /\ OneGuestAtATime /\ ThreadsInv /\ [Next]_vars => OneGuestAtATime' /\ ThreadsInv' /\ ThreadMoves
<1> SUFFICES ASSUME TypeOK, OneGuestAtATime, ThreadsInv, [Next]_vars
             PROVE  OneGuestAtATime' /\ ThreadsInv' /\ ThreadMoves
  OBVIOUS
<1> DEFINE Ty == /\ pc \in [Threads -> PCs] /\ holder \in Threads \union {None}
                 /\ arg \in [Threads -> Objects \union Locks \union {None}]
                 /\ started \in [Threads -> BOOLEAN]
<1>0. Ty
  BY DEF TypeOK
<1> USE NoneAssumption, ModeAssumption
<1> USE DEF OneGuestAtATime, ThreadsInv, ThreadMoves, StartsFromCreated, HolderPCs, Preempt, Fair
<1>1. ASSUME NEW t \in Threads, Acquire(t) PROVE OneGuestAtATime' /\ ThreadsInv' /\ ThreadMoves
  BY <1>0, <1>1 DEF Acquire, Contends
<1>2. ASSUME NEW t \in Threads, NoToken(t) PROVE OneGuestAtATime' /\ ThreadsInv' /\ ThreadMoves
  BY <1>0, <1>2 DEF NoToken
<1>3. ASSUME NEW t \in Threads, Delay(t) PROVE OneGuestAtATime' /\ ThreadsInv' /\ ThreadMoves
  BY <1>0, <1>3 DEF Delay, Unlocked
<1>4. ASSUME NEW t \in Threads, NEW o \in Objects, SetEvent(t, o) PROVE OneGuestAtATime' /\ ThreadsInv' /\ ThreadMoves
  BY <1>0, <1>4 DEF SetEvent, SignalObject, NotifyAll
<1>5. ASSUME NEW t \in Threads, NEW o \in Objects, PulseEvent(t, o) PROVE OneGuestAtATime' /\ ThreadsInv' /\ ThreadMoves
  BY <1>0, <1>5 DEF PulseEvent, SignalObject, NotifyAll
<1>6. ASSUME NEW t \in Threads, EndPulse(t) PROVE OneGuestAtATime' /\ ThreadsInv' /\ ThreadMoves
  BY <1>0, <1>6 DEF EndPulse, SignalObject, NotifyAll
<1>7. ASSUME NEW t \in Threads, NEW s \in Semaphores, ReleaseSemaphore(t, s) PROVE OneGuestAtATime' /\ ThreadsInv' /\ ThreadMoves
  BY <1>0, <1>7 DEF ReleaseSemaphore
<1>8. ASSUME NEW t \in Threads, EndRelease(t) PROVE OneGuestAtATime' /\ ThreadsInv' /\ ThreadMoves
  BY <1>0, <1>8 DEF EndRelease, SignalObject, NotifyAll
<1>9. ASSUME NEW t \in Threads, NEW w \in Requests, BeginWait(t, w) PROVE OneGuestAtATime' /\ ThreadsInv' /\ ThreadMoves
  BY <1>0, <1>9 DEF BeginWait
<1>10. ASSUME NEW t \in Threads, Test(t) PROVE OneGuestAtATime' /\ ThreadsInv' /\ ThreadMoves
  BY <1>0, <1>10 DEF Test, EndWait
<1>11. ASSUME NEW t \in Threads, Sleep(t) PROVE OneGuestAtATime' /\ ThreadsInv' /\ ThreadMoves
  BY <1>0, <1>11 DEF Sleep
<1>12. ASSUME NEW t \in Threads, FairSleep(t) PROVE OneGuestAtATime' /\ ThreadsInv' /\ ThreadMoves
  BY <1>0, <1>12 DEF FairSleep
<1>13. ASSUME NEW t \in Threads, Timeout(t) PROVE OneGuestAtATime' /\ ThreadsInv' /\ ThreadMoves
  BY <1>0, <1>13 DEF Timeout
<1>14. ASSUME NEW t \in Threads, Consume(t) PROVE OneGuestAtATime' /\ ThreadsInv' /\ ThreadMoves
  BY <1>0, <1>14 DEF Consume, EndWait
<1>15. ASSUME NEW t \in Threads, NEW u \in Threads, CreateThread(t, u) PROVE OneGuestAtATime' /\ ThreadsInv' /\ ThreadMoves
  BY <1>0, <1>15 DEF CreateThread
<1>16. ASSUME NEW t \in Threads, NEW s \in BOOLEAN, EndCreate(t, s) PROVE OneGuestAtATime' /\ ThreadsInv' /\ ThreadMoves
  BY <1>0, <1>16 DEF EndCreate
<1>17. ASSUME NEW t \in Threads, NEW u \in Threads, ResumeThread(t, u) PROVE OneGuestAtATime' /\ ThreadsInv' /\ ThreadMoves
  BY <1>0, <1>17 DEF ResumeThread
<1>18. ASSUME NEW t \in Threads, EntryReturns(t) PROVE OneGuestAtATime' /\ ThreadsInv' /\ ThreadMoves
  <2>1. pc' = [pc EXCEPT ![t] = "exiting"] /\ UNCHANGED <<holder, arg, started>> /\ pc[t] = "run"
    BY <1>18 DEF EntryReturns
  <2>2. OneGuestAtATime' /\ ThreadsInv' /\ StartsFromCreated
    BY <1>0, <2>1
  <2>3. \A u \in Threads \ {t} : pc'[u] = pc[u]
    BY <1>0, <2>1
  <2>4. QED
    BY <1>18, <2>2, <2>3
<1>19. ASSUME NEW t \in Threads, ExitThread(t) PROVE OneGuestAtATime' /\ ThreadsInv' /\ ThreadMoves
  BY <1>0, <1>19 DEF ExitThread, Unlocked, SignalObject, NotifyAll
<1>20. ASSUME NEW t \in Threads, NEW l \in Locks, LockContended(t, l) PROVE OneGuestAtATime' /\ ThreadsInv' /\ ThreadMoves
  BY <1>0, <1>20 DEF LockContended, Unlocked
<1>21. ASSUME NEW t \in Threads, LockGranted(t) PROVE OneGuestAtATime' /\ ThreadsInv' /\ ThreadMoves
  BY <1>0, <1>21 DEF LockGranted
<1>22. ASSUME NEW h \in HostTimers, TimerFires(h) PROVE OneGuestAtATime' /\ ThreadsInv' /\ ThreadMoves
  BY <1>0, <1>22 DEF TimerFires, SignalObject, NotifyAll
<1>23. CASE UNCHANGED <<pc, holder, arg, started>>
  BY <1>0, <1>23
<1> HIDE DEF OneGuestAtATime, ThreadsInv, ThreadMoves
<1>24. ASSUME NEW t \in Threads, GuestCall(t) PROVE OneGuestAtATime' /\ ThreadsInv' /\ ThreadMoves
  BY <1>3, <1>4, <1>5, <1>7, <1>9, <1>15, <1>17, <1>18, <1>20, <1>23, <1>24
     DEF GuestCall, Objects, Initialize, ResetEvent, TryLock, Unlock, SetTimer, CancelTimer, execVars
<1>25. ASSUME NEW t \in Threads, RuntimeStep(t) PROVE OneGuestAtATime' /\ ThreadsInv' /\ ThreadMoves
  BY <1>1, <1>2, <1>6, <1>8, <1>10, <1>11, <1>12, <1>13, <1>14, <1>16, <1>19, <1>21, <1>23, <1>25
     DEF RuntimeStep, Ask
<1>26. QED
  BY <1>22, <1>23, <1>24, <1>25 DEF Next, vars, execVars, TimerExpires

\* One guest thread runs at a time, under every scheduling with a token, and the
\* token is never left with a thread that blocks or ends.
THEOREM OneGuestCorrect == Spec => []OneGuestAtATime
<1>1. Init => OneGuestAtATime /\ ThreadsInv
  <2>1. Init => OneGuestAtATime
    BY NoneAssumption, ModeAssumption, ZenonT(40) DEF Init, OneGuestAtATime, HolderPCs
  <2>2. Init => ThreadsInv
    BY MainAssumption, ZenonT(40) DEF Init, ThreadsInv
  <2>3. QED
    BY <2>1, <2>2
<1>2. TypeOK /\ OneGuestAtATime /\ ThreadsInv /\ [Next]_vars
      => OneGuestAtATime' /\ ThreadsInv'
  BY ThreadsStep
<1>3. QED
  BY <1>1, <1>2, TypeCorrect, PTL DEF Spec

\* `started` says what it should, and a thread being created has one creator.
THEOREM ThreadsCorrect == Spec => []ThreadsInv
<1>1. Init => ThreadsInv
  BY MainAssumption, ZenonT(40) DEF Init, ThreadsInv
<1>2. TypeOK /\ OneGuestAtATime /\ ThreadsInv /\ [Next]_vars => ThreadsInv'
  BY ThreadsStep
<1>3. QED
  BY <1>1, <1>2, TypeCorrect, OneGuestCorrect, PTL DEF Spec

\* No entry function of a thread runs twice.
THEOREM EntryCorrect == Spec => EntryRunsOnce
<1>1. TypeOK /\ OneGuestAtATime /\ ThreadsInv /\ [Next]_vars => [StartsFromCreated]_vars
  BY ThreadsStep DEF ThreadMoves
<1>2. QED
  BY <1>1, TypeCorrect, OneGuestCorrect, ThreadsCorrect, PTL DEF Spec, EntryRunsOnce

\* A thread that ends leaves no critical section behind when there is no token.
THEOREM OrphansCorrect == Spec => []NoOrphan
<1>1. Init => OwnersInv
  BY NoneAssumption DEF Init, OwnersInv, Locks
<1>2. /\ TypeOK /\ LocksInv /\ OneGuestAtATime /\ ThreadsInv /\ OwnersInv /\ [Next]_vars
      => OwnersInv'
  <2> SUFFICES ASSUME TypeOK, LocksInv, OneGuestAtATime, ThreadsInv, OwnersInv, [Next]_vars,
                      Preempt, NEW c \in CritSecs, owner'[c] # None
               PROVE  pc'[owner'[c]] \notin {"exiting", "exited"}
    BY DEF OwnersInv
  <2>0. c \in Locks /\ owner[c] \in Threads \union {None} /\ owner'[c] \in Threads
    BY TypeStep DEF TypeOK, Locks
  <2>1. \A u \in Threads : pc'[u] \in {"exiting", "exited"} =>
                             pc[u] \in {"exiting", "exited"} \/ EntryReturns(u)
    BY ThreadsStep DEF ThreadMoves
  <2>2. CASE owner'[c] = owner[c]
    <3>1. ASSUME EntryReturns(owner[c]) PROVE FALSE
      <4>1. owner[c] = None \/ heldCS[owner[c]][c] = depth[c]
        BY <2>0 DEF LocksInv
      <4>2. QED
        BY <2>0, <2>2, <3>1, <4>1 DEF EntryReturns
    <3>2. QED
      BY <2>0, <2>1, <2>2, <3>1 DEF OwnersInv
  <2>3. CASE owner'[c] # owner[c]
    <3>1. \E t \in Threads : \E l : EnterLock(t, l) /\ pc'[t] \in {"run", "relock"}
                                  /\ owner'[c] = t
      BY <2>0, <2>3, LockSteps, ZenonT(40) DEF EntryReturns, LockGranted, TryLock, Unlock,
         EnterLock, lockVars, execVars, TypeOK
    <3>2. QED
      BY <3>1
  <2>4. QED
    BY <2>2, <2>3
<1>3. OwnersInv => NoOrphan
  BY DEF OwnersInv, NoOrphan
<1>4. QED
  BY <1>1, <1>2, <1>3, TypeCorrect, LocksCorrect, OneGuestCorrect, ThreadsCorrect, PTL DEF Spec

\* Nobody blocks, or is about to, on a wait that is satisfied.  Every signal wakes
\* all blocked threads, and nobody signals between a look at the objects and the
\* block: the sleeper holds the token or the mutex, except that the host thread
\* of a timer does not care about a cooperative token.
LEMMA WaitsStep ==
  TypeOK /\ OneGuestAtATime /\ ThreadsInv /\ WaitsInv /\ [Next]_vars => WaitsInv'
<1> SUFFICES ASSUME TypeOK, OneGuestAtATime, ThreadsInv, WaitsInv, [Next]_vars PROVE WaitsInv'
  OBVIOUS
<1> DEFINE Ty == /\ pc \in [Threads -> PCs] /\ holder \in Threads \union {None}
                 /\ request \in [Threads -> Requests \union {None}]
                 /\ signal \in [Objects -> Int] /\ started \in [Threads -> BOOLEAN]
<1>0. Ty
  BY DEF TypeOK
<1> USE NoneAssumption, ModeAssumption
<1> USE DEF OneGuestAtATime, WaitsInv, ReadyWhenConsumed, NoForeignSignals, NoForeignResets, Watching, HolderPCs, Preempt, Fair
<1>1. ASSUME NEW t \in Threads, Acquire(t) PROVE WaitsInv'
  BY <1>0, <1>1 DEF Acquire, Contends, waitVars, Satisfied, Signaled
<1>2. ASSUME NEW t \in Threads, NoToken(t) PROVE WaitsInv'
  BY <1>0, <1>2 DEF NoToken, waitVars, Satisfied, Signaled
<1>3. ASSUME NEW t \in Threads, Delay(t) PROVE WaitsInv'
  BY <1>0, <1>3 DEF Delay, Unlocked, waitVars, Satisfied, Signaled
<1>4. ASSUME NEW t \in Threads, NEW s \in Semaphores, ReleaseSemaphore(t, s) PROVE WaitsInv'
  BY <1>0, <1>4 DEF ReleaseSemaphore, waitVars, Satisfied, Signaled
<1>5. ASSUME NEW t \in Threads, NEW w \in Requests, BeginWait(t, w) PROVE WaitsInv'
  BY <1>0, <1>5 DEF BeginWait, waitVars, Satisfied, Signaled
<1>6. ASSUME NEW t \in Threads, Test(t) PROVE WaitsInv'
  BY <1>0, <1>6 DEF Test, EndWait, waitVars, Satisfied, Signaled
<1>7. ASSUME NEW t \in Threads, Sleep(t) PROVE WaitsInv'
  BY <1>0, <1>7 DEF Sleep, waitVars, Satisfied, Signaled
<1>8. ASSUME NEW t \in Threads, FairSleep(t) PROVE WaitsInv'
  BY <1>0, <1>8 DEF FairSleep, waitVars, Satisfied, Signaled
<1>9. ASSUME NEW t \in Threads, Timeout(t) PROVE WaitsInv'
  BY <1>0, <1>9 DEF Timeout, waitVars, Satisfied, Signaled
<1>10. ASSUME NEW t \in Threads, NEW u \in Threads, CreateThread(t, u) PROVE WaitsInv'
  BY <1>0, <1>10 DEF CreateThread, waitVars, Satisfied, Signaled
<1>11. ASSUME NEW t \in Threads, NEW s \in BOOLEAN, EndCreate(t, s) PROVE WaitsInv'
  BY <1>0, <1>11 DEF EndCreate, ThreadsInv, waitVars, Satisfied, Signaled
<1>12. ASSUME NEW t \in Threads, NEW u \in Threads, ResumeThread(t, u) PROVE WaitsInv'
  BY <1>0, <1>12 DEF ResumeThread, ThreadsInv, waitVars, Satisfied, Signaled
<1>13. ASSUME NEW t \in Threads, EntryReturns(t) PROVE WaitsInv'
  BY <1>0, <1>13 DEF EntryReturns, waitVars, Satisfied, Signaled
<1>14. ASSUME NEW t \in Threads, NEW l \in Locks, LockContended(t, l) PROVE WaitsInv'
  BY <1>0, <1>14 DEF LockContended, Unlocked, waitVars, Satisfied, Signaled
<1>15. ASSUME NEW t \in Threads, LockGranted(t) PROVE WaitsInv'
  BY <1>0, <1>15 DEF LockGranted, waitVars, Satisfied, Signaled
<1>16. ASSUME NEW t \in Threads, NEW o \in Objects, SetEvent(t, o) PROVE WaitsInv'
  BY <1>0, <1>16 DEF SetEvent, SignalObject, NotifyAll
<1>17. ASSUME NEW t \in Threads, NEW o \in Objects, PulseEvent(t, o) PROVE WaitsInv'
  BY <1>0, <1>17 DEF PulseEvent, SignalObject, NotifyAll
<1>18. ASSUME NEW t \in Threads, EndPulse(t) PROVE WaitsInv'
  BY <1>0, <1>18 DEF EndPulse, SignalObject, NotifyAll
<1>19. ASSUME NEW t \in Threads, EndRelease(t) PROVE WaitsInv'
  BY <1>0, <1>19 DEF EndRelease, SignalObject, NotifyAll
<1>20. ASSUME NEW t \in Threads, ExitThread(t) PROVE WaitsInv'
  BY <1>0, <1>20 DEF ExitThread, SignalObject, NotifyAll
<1>21. ASSUME NEW h \in HostTimers, TimerFires(h) PROVE WaitsInv'
  <2>1. \A o \in Objects : signal[o] > 0 => signal'[o] > 0
    BY <1>0, <1>21 DEF TimerFires, SignalObject
  <2>2. \A w \in Requests : Satisfied(w) => Satisfied(w)'
    BY <2>1, RequestsAssumption DEF Satisfied, Signaled
  <2>3. QED
    BY <1>0, <1>21, <2>2 DEF TimerFires, SignalObject, NotifyAll
<1>22. ASSUME NEW t \in Threads, NEW o \in Objects, NEW s \in {0, 1}, Initialize(t, o, s) PROVE WaitsInv'
  BY <1>0, <1>22 DEF Initialize, execVars, waitVars, Satisfied, Signaled
<1>23. ASSUME NEW t \in Threads, NEW o \in Objects, ResetEvent(t, o) PROVE WaitsInv'
  BY <1>0, <1>23 DEF ResetEvent, execVars, waitVars, Satisfied, Signaled
<1>24. ASSUME NEW t \in Threads, Consume(t) PROVE WaitsInv'
  <2>1. \A o \in Objects : signal'[o] > 0 => signal[o] > 0
    BY <1>0, <1>24 DEF Consume
  <2>2. \A w \in Requests : Satisfied(w)' => Satisfied(w)
    BY <2>1, RequestsAssumption DEF Satisfied, Signaled
  <2>3. QED
    BY <1>0, <1>24, <2>2 DEF Consume, EndWait
<1>25. CASE UNCHANGED <<pc, request, signal>>
  BY <1>0, <1>25 DEF waitVars, Satisfied, Signaled
<1> HIDE DEF WaitsInv, OneGuestAtATime
<1>26. ASSUME NEW t \in Threads, GuestCall(t) PROVE WaitsInv'
  BY <1>3, <1>4, <1>5, <1>10, <1>12, <1>13, <1>14, <1>16, <1>17, <1>22, <1>23, <1>25, <1>26
     DEF GuestCall, Objects, TryLock, Unlock, SetTimer, CancelTimer, execVars, waitVars
<1>27. ASSUME NEW t \in Threads, RuntimeStep(t) PROVE WaitsInv'
  BY <1>1, <1>2, <1>6, <1>7, <1>8, <1>9, <1>11, <1>15, <1>18, <1>19, <1>20, <1>24, <1>25, <1>27
     DEF RuntimeStep, Ask, waitVars
<1>28. QED
  BY <1>21, <1>25, <1>26, <1>27 DEF Next, vars, execVars, waitVars, TimerExpires

\* The waits of the guest stay as they should under every scheduling.
THEOREM WaitsCorrect == Spec => []WaitsInv
<1>1. Init => WaitsInv
  BY MainAssumption, NoneAssumption DEF Init, WaitsInv, Watching, ReadyWhenConsumed
<1>2. TypeOK /\ OneGuestAtATime /\ ThreadsInv /\ WaitsInv /\ [Next]_vars => WaitsInv'
  BY WaitsStep
<1>3. QED
  BY <1>1, <1>2, TypeCorrect, OneGuestCorrect, ThreadsCorrect, PTL DEF Spec

\* No wake-up is lost, under every scheduling, as long as no timer fires into a
\* run with the plain token.
THEOREM WakeupsCorrect ==
  ASSUME NoForeignSignals
  PROVE  Spec => []NoLostWakeup
<1>1. WaitsInv => NoLostWakeup
  BY DEF WaitsInv, Watching, NoLostWakeup
<1>2. QED
  BY <1>1, WaitsCorrect, PTL

\* What ended a wait is still there when the wait takes it, as long as nothing is
\* reset without a token.
THEOREM ReadyCorrect ==
  ASSUME NoForeignResets
  PROVE  Spec => []ReadyWhenConsumed
<1>1. WaitsInv => ReadyWhenConsumed
  BY DEF WaitsInv
<1>2. QED
  BY <1>1, WaitsCorrect, PTL

\* Only four kinds of steps touch a timer.
LEMMA TimerSteps ==
  ASSUME [Next]_vars
  PROVE  \/ UNCHANGED timerVars
         \/ \E t \in Threads, o \in Timers :
              CancelTimer(t, o) \/ \E h \in HostTimers, p \in BOOLEAN : SetTimer(t, o, h, p)
         \/ \E h \in HostTimers : UNCHANGED armed /\ (TimerExpires(h) \/ TimerFires(h))
<1>1. ASSUME NEW t \in Threads, GuestCall(t)
      PROVE  \/ UNCHANGED timerVars
             \/ \E o \in Timers : \/ CancelTimer(t, o)
                                  \/ \E h \in HostTimers, p \in BOOLEAN : SetTimer(t, o, h, p)
  BY <1>1 DEF GuestCall, Delay, SetEvent, ResetEvent, PulseEvent, Initialize, ReleaseSemaphore,
     BeginWait, CreateThread, ResumeThread, LockContended, EntryReturns, TryLock, Unlock
<1>2. ASSUME NEW t \in Threads, RuntimeStep(t) PROVE UNCHANGED timerVars
  BY <1>2 DEF RuntimeStep, Ask, Acquire, NoToken, EndPulse, EndRelease, EndCreate, Test, Sleep,
     FairSleep, Timeout, Consume, ExitThread, LockGranted
<1>3. ASSUME NEW h \in HostTimers, TimerExpires(h) \/ TimerFires(h) PROVE UNCHANGED armed
  BY <1>3 DEF TimerExpires, TimerFires
<1>4. QED
  BY <1>1, <1>2, <1>3 DEF Next, vars

\* Arming a timer again or cancelling it reaches the host thread of the previous
\* arming, so a timer object never has two host threads that go on signaling it.
THEOREM TimersCorrect == Spec => []LiveTimersAreArmed
<1>1. Init => LiveTimersAreArmed
  BY DEF Init, LiveTimersAreArmed, IdleTimer
<1>2. TypeOK /\ LiveTimersAreArmed /\ [Next]_vars => LiveTimersAreArmed'
  <2> SUFFICES ASSUME TypeOK, LiveTimersAreArmed, [Next]_vars PROVE LiveTimersAreArmed'
    OBVIOUS
  <2> DEFINE Host == [obj : Timers \union {None}, stop : BOOLEAN,
                      periodic : BOOLEAN, at : {"idle", "sleep", "fire"}]
  <2>0. armed \in [Timers -> HostTimers \union {None}] /\ host \in [HostTimers -> Host]
    BY DEF TypeOK
  <2> USE NoneAssumption DEF LiveTimersAreArmed
  <2>1. CASE UNCHANGED timerVars
    BY <2>1 DEF timerVars
  <2>2. ASSUME NEW t \in Threads, NEW o \in Timers, CancelTimer(t, o)
        PROVE  LiveTimersAreArmed'
    BY <2>0, <2>2 DEF CancelTimer, Stopped
  <2>3. ASSUME NEW t \in Threads, NEW o \in Timers, NEW h \in HostTimers, NEW p \in BOOLEAN,
               SetTimer(t, o, h, p)
        PROVE  LiveTimersAreArmed'
    BY <2>0, <2>3 DEF SetTimer, Stopped
  <2>4. ASSUME NEW h \in HostTimers, UNCHANGED armed, TimerExpires(h)
        PROVE  LiveTimersAreArmed'
    BY <2>0, <2>4 DEF TimerExpires, IdleTimer
  <2>5. ASSUME NEW h \in HostTimers, UNCHANGED armed, TimerFires(h)
        PROVE  LiveTimersAreArmed'
    BY <2>0, <2>5 DEF TimerFires, IdleTimer
  <2>6. QED
    BY <2>1, <2>2, <2>3, <2>4, <2>5, TimerSteps
<1>3. QED
  BY <1>1, <1>2, TypeCorrect, PTL DEF Spec
\* Without REX_FAIRSCHED nobody takes a ticket.
Tickets == ~Fair => queue = <<>>

\* Only the lock takes tickets and grants the token; every other step leaves the
\* token alone, or gives it up.
LEMMA TokenSteps ==
  ASSUME [Next]_vars
  PROVE  \/ UNCHANGED <<holder, queue>>
         \/ \E t \in Threads : Ask(t) \/ Acquire(t)
         \/ UNCHANGED queue /\ holder' = None
<1>1. ASSUME NEW t \in Threads, GuestCall(t)
      PROVE  UNCHANGED queue /\ (holder' = holder \/ holder' = None)
  BY <1>1 DEF GuestCall, Delay, Unlocked, SetEvent, ResetEvent, PulseEvent, Initialize,
     ReleaseSemaphore, BeginWait, CreateThread, ResumeThread, LockContended, EntryReturns,
     TryLock, Unlock, CancelTimer, SetTimer, execVars
<1>2. ASSUME NEW t \in Threads, RuntimeStep(t)
      PROVE  \/ Ask(t) \/ Acquire(t)
             \/ UNCHANGED queue /\ (holder' = holder \/ holder' = None)
  BY <1>2 DEF RuntimeStep, NoToken, EndPulse, EndRelease, EndCreate, Test, EndWait, Sleep,
     FairSleep, Timeout, Consume, ExitThread, Unlocked, LockGranted
<1>3. ASSUME NEW h \in HostTimers, TimerExpires(h) \/ TimerFires(h)
      PROVE  UNCHANGED <<holder, queue>>
  BY <1>3 DEF TimerExpires, TimerFires, execVars
<1>4. CASE UNCHANGED vars  BY <1>4 DEF vars, execVars
<1> QED  BY <1>1, <1>2, <1>3, <1>4 DEF Next

\* Under every scheduling the threads use the token as the lock that FairToken
\* is shown to implement: who holds it does not ask again, only the holder gives
\* it up, and the oldest ticket is served first.
THEOREM TokenIsUsedAsFifo == Spec => UsesFifoToken
<1>1. Init => Token!Init /\ Tickets
  BY DEF Init, Token!Init, Tickets
<1>2. TypeOK /\ OneGuestAtATime /\ Tickets /\ [Next]_vars => [Token!Next]_(Token!vars) /\ Tickets'
  <2> SUFFICES ASSUME TypeOK, OneGuestAtATime, Tickets, [Next]_vars
               PROVE  [Token!Next]_(Token!vars) /\ Tickets'
    OBVIOUS
  <2>0. holder \in Threads \union {None} /\ queue \in Seq(Threads)  BY DEF TypeOK
  <2>1. CASE UNCHANGED <<holder, queue>>  BY <2>1 DEF Token!vars, Tickets
  <2>2. ASSUME NEW t \in Threads, Ask(t) PROVE Token!Request(t) /\ Tickets'
    <3>1. holder # t
      BY <2>2, ModeAssumption DEF Ask, Contends, OneGuestAtATime, HolderPCs, Preempt, Fair
    <3>2. ~Token!Waiting(t)
      BY <2>0, <2>2 DEF Ask, Queued, Token!Waiting
    <3> QED  BY <2>2, <3>1, <3>2 DEF Ask, Token!Request, Tickets
  <2>3. ASSUME NEW t \in Threads, Acquire(t)
        PROVE  (Token!Grant \/ Token!RequestAndTake(t)) /\ Tickets'
    BY <2>3 DEF Acquire, Token!Grant, Token!RequestAndTake, Tickets
  <2>4. CASE UNCHANGED queue /\ holder' = None
    BY <2>0, <2>4 DEF Token!Next, Token!Release, Token!vars, Tickets
  <2> QED  BY <2>1, <2>2, <2>3, <2>4, TokenSteps DEF Token!Next
<1> QED  BY <1>1, <1>2, TypeCorrect, OneGuestCorrect, PTL DEF Spec, UsesFifoToken, Token!Spec

\* The locals of the calls that take two steps stay true from one to the other.
\* A release relies on the token: nobody else stores a count between its steps.
LEMMA CallsStep ==
  TypeOK /\ OneGuestAtATime /\ WaitsInv /\ CallsInv /\ [Next]_vars => CallsInv'
<1> SUFFICES ASSUME TypeOK, OneGuestAtATime, WaitsInv, CallsInv, [Next]_vars PROVE CallsInv'
  OBVIOUS
<1>0. /\ pc \in [Threads -> PCs] /\ holder \in Threads \union {None}
      /\ request \in [Threads -> Requests \union {None}] /\ late \in [Threads -> BOOLEAN]
      /\ arg \in [Threads -> Objects \union Locks \union {None}] /\ prev \in [Threads -> Int]
      /\ signal \in [Objects -> Int]
      /\ host \in [HostTimers -> [obj : Timers \union {None}, stop : BOOLEAN,
                                  periodic : BOOLEAN, at : {"idle", "sleep", "fire"}]]
  BY DEF TypeOK
\* With a token nobody but the releasing thread is in guest code.
<1>a. \A t, u \in Threads : ~Preempt /\ pc[t] = "release"
        /\ pc[u] \in {"run", "pulse", "release", "consume", "exiting"} => t = u
  BY ModeAssumption DEF OneGuestAtATime, HolderPCs, Preempt
<1>b. \A t \in Threads : request[t] # None <=>
        pc[t] \in {"woken", "test", "consume", "sleep", "blocked"}
  BY DEF WaitsInv
<1> USE DEF CallsInv, execVars, waitVars, timerVars
<1>1. ASSUME NEW t \in Threads, Acquire(t) PROVE CallsInv'
  BY <1>0, <1>1 DEF Acquire
<1>2. ASSUME NEW t \in Threads, NoToken(t) PROVE CallsInv'
  BY <1>0, <1>2 DEF NoToken
<1>3. ASSUME NEW t \in Threads, Delay(t) PROVE CallsInv'
  BY <1>0, <1>3 DEF Delay
<1>4. ASSUME NEW t \in Threads, NEW s \in Semaphores, ReleaseSemaphore(t, s) PROVE CallsInv'
  BY <1>0, <1>4 DEF ReleaseSemaphore
<1>5. ASSUME NEW t \in Threads, NEW w \in Requests, BeginWait(t, w) PROVE CallsInv'
  BY <1>0, <1>b, <1>5 DEF BeginWait
<1>6. ASSUME NEW t \in Threads, Test(t) PROVE CallsInv'
  BY <1>0, <1>6 DEF Test, EndWait
<1>7. ASSUME NEW t \in Threads, Sleep(t) PROVE CallsInv'
  BY <1>0, <1>7 DEF Sleep
<1>8. ASSUME NEW t \in Threads, FairSleep(t) PROVE CallsInv'
  BY <1>0, <1>8 DEF FairSleep
<1>9. ASSUME NEW t \in Threads, Timeout(t) PROVE CallsInv'
  BY <1>0, <1>b, <1>9 DEF Timeout
<1>10. ASSUME NEW t \in Threads, NEW u \in Threads, CreateThread(t, u) PROVE CallsInv'
  BY <1>0, <1>10 DEF CreateThread
<1>11. ASSUME NEW t \in Threads, NEW s \in BOOLEAN, EndCreate(t, s) PROVE CallsInv'
  BY <1>0, <1>11 DEF EndCreate
<1>12. ASSUME NEW t \in Threads, NEW u \in Threads, ResumeThread(t, u) PROVE CallsInv'
  BY <1>0, <1>12 DEF ResumeThread
<1>13. ASSUME NEW t \in Threads, EntryReturns(t) PROVE CallsInv'
  BY <1>0, <1>13 DEF EntryReturns
<1>14. ASSUME NEW t \in Threads, NEW l \in Locks, LockContended(t, l) PROVE CallsInv'
  BY <1>0, <1>14 DEF LockContended
<1>15. ASSUME NEW t \in Threads, LockGranted(t) PROVE CallsInv'
  BY <1>0, <1>15 DEF LockGranted
<1>16. ASSUME NEW t \in Threads, NEW o \in Objects, SetEvent(t, o) PROVE CallsInv'
  BY <1>0, <1>a, <1>16 DEF SetEvent, SignalObject, NotifyAll
<1>17. ASSUME NEW t \in Threads, NEW o \in Objects, PulseEvent(t, o) PROVE CallsInv'
  BY <1>0, <1>a, <1>17 DEF PulseEvent, SignalObject, NotifyAll
<1>18. ASSUME NEW t \in Threads, EndPulse(t) PROVE CallsInv'
  BY <1>0, <1>a, <1>18 DEF EndPulse, SignalObject, NotifyAll
<1>19. ASSUME NEW t \in Threads, EndRelease(t) PROVE CallsInv'
  BY <1>0, <1>a, <1>19 DEF EndRelease, SignalObject, NotifyAll
<1>20. ASSUME NEW t \in Threads, ExitThread(t) PROVE CallsInv'
  BY <1>0, <1>a, <1>20 DEF ExitThread, SignalObject, NotifyAll
<1>21. ASSUME NEW h \in HostTimers, TimerFires(h) PROVE CallsInv'
  <2>1. \A o \in Semaphores : signal'[o] = signal[o]
    BY <1>0, <1>21, KindsAssumption DEF TimerFires, SignalObject, Objects
  <2> QED
    BY <1>0, <1>21, <2>1 DEF TimerFires, SignalObject, NotifyAll, IdleTimer
<1>22. ASSUME NEW t \in Threads, NEW o \in Objects, NEW s \in {0, 1}, Initialize(t, o, s)
       PROVE  CallsInv'
  BY <1>0, <1>22 DEF Initialize
<1>23. ASSUME NEW t \in Threads, NEW o \in Objects, ResetEvent(t, o) PROVE CallsInv'
  BY <1>0, <1>a, <1>23 DEF ResetEvent
<1>24. ASSUME NEW t \in Threads, Consume(t) PROVE CallsInv'
  BY <1>0, <1>a, <1>24 DEF Consume, EndWait
<1>25. ASSUME NEW t \in Threads, NEW o \in Timers, NEW h \in HostTimers, NEW p \in BOOLEAN,
              SetTimer(t, o, h, p)
       PROVE  CallsInv'
  BY <1>0, <1>25 DEF SetTimer, Stopped
<1>26. ASSUME NEW t \in Threads, NEW o \in Timers, CancelTimer(t, o) PROVE CallsInv'
  BY <1>0, <1>26 DEF CancelTimer, Stopped
<1>27. ASSUME NEW h \in HostTimers, TimerExpires(h) PROVE CallsInv'
  BY <1>0, <1>27 DEF TimerExpires, IdleTimer
<1>28. CASE UNCHANGED <<pc, request, signal, late, arg, prev, host>>
  BY <1>0, <1>28
<1> HIDE DEF CallsInv
<1>29. ASSUME NEW t \in Threads, GuestCall(t) PROVE CallsInv'
  BY <1>3, <1>4, <1>5, <1>10, <1>12, <1>13, <1>14, <1>16, <1>17, <1>22, <1>23, <1>25, <1>26,
     <1>28, <1>29 DEF GuestCall, Objects, TryLock, Unlock
<1>30. ASSUME NEW t \in Threads, RuntimeStep(t) PROVE CallsInv'
  BY <1>1, <1>2, <1>6, <1>7, <1>8, <1>9, <1>11, <1>15, <1>18, <1>19, <1>20, <1>24, <1>28, <1>30
     DEF RuntimeStep, Ask
<1> QED
  BY <1>21, <1>27, <1>28, <1>29, <1>30 DEF Next, vars
LEMMA CallsInit == Init => CallsInv
BY NoneAssumption DEF Init, CallsInv, IdleTimer

\* A set of natural numbers that is not empty has a least member.
LEMMA LeastOf ==
  ASSUME NEW S, S \subseteq Nat, S # {}
  PROVE  \E i \in S : \A k \in S : i <= k
<1>1. PICK i \in S : \A k \in S : <<k, i>> \notin OpToRel(<, Nat)
  BY WFMin, NatLessThanWellFounded, Zenon
<1>2. \A k \in S : ~(k < i)  BY <1>1, Zenon DEF OpToRel
<1> QED  BY <1>2

\* A satisfied wait takes all its objects, or just one of them, and only signals
\* that are there.
LEMMA TakenIs ==
  ASSUME NEW w \in Requests, Satisfied(w)
  PROVE  /\ Taken(w) \in IF w.all THEN {{w.objs[i] : i \in DOMAIN w.objs}}
                         ELSE {{o} : o \in {w.objs[i] : i \in DOMAIN w.objs}}
         /\ \A o \in Taken(w) : Signaled(o)
<1>1. CASE w.all  BY <1>1 DEF Taken, Satisfied
<1>2. CASE ~w.all
  <2>1. PICK n \in Nat : DOMAIN w.objs = 1 .. n
    <3>1. w.objs \in Seq(Objects)  BY RequestsAssumption
    <3> QED  BY <3>1
  <2> DEFINE Ready == {i \in 1 .. n : Signaled(w.objs[i])}
  <2>2. Ready # {}  BY <1>2, <2>1 DEF Satisfied
  <2>3. Ready \subseteq Nat  OBVIOUS
  <2>4. PICK i \in Ready : \A k \in Ready : i <= k
    <3> HIDE DEF Ready
    <3> QED  BY <2>2, <2>3, LeastOf
  <2>5. {j \in DOMAIN w.objs : /\ Signaled(w.objs[j])
                               /\ \A k \in 1 .. (j - 1) : ~Signaled(w.objs[k])} = {i}
    BY <2>1, <2>4
  <2>6. Taken(w) = {w.objs[i]}  BY <1>2, <2>5 DEF Taken
  <2> QED  BY <1>2, <2>1, <2>4, <2>6
<1>3. w.all \in BOOLEAN  BY RequestsAssumption
<1> QED  BY <1>1, <1>2, <1>3

\* What the abstract objects see of a wait.
LEMMA SameWait ==
  ASSUME NEW t \in Threads
  PROVE  /\ Dispatch!Asked(t) = {request[t].objs[i] : i \in DOMAIN request[t].objs}
         /\ Dispatch!Satisfied(t) = Satisfied(request[t])
<1>1. Dispatch!Asked(t) = {request[t].objs[i] : i \in DOMAIN request[t].objs}
  BY DEF Dispatch!Asked
<1> QED
  BY <1>1 DEF Dispatch!Satisfied, Satisfied, Dispatch!Signaled, Signaled

\* A call that signals changes one object, and no request.
Posts(o, n) ==
  /\ UNCHANGED request
  /\ signal' = [signal EXCEPT ![o] = n]
  /\ \/ o \in Events \union AutoEvents \union Timers /\ n \in {0, 1}
     \/ o \in Semaphores /\ n > signal[o]
     \/ o \in Threads /\ n = 1

LEMMA PostStep ==
  ASSUME TypeOK, NEW o \in Objects, NEW n \in Int, Posts(o, n)
  PROVE  Dispatch!Next
<1>1. signal'[o] = n  BY DEF TypeOK, Posts
<1>2. Dispatch!Post(o)  BY <1>1 DEF Dispatch!Post, Posts
<1>3. o \in Dispatch!Objects  BY DEF Dispatch!Objects, Objects
<1> QED  BY <1>2, <1>3 DEF Dispatch!Next

\* Every step is one of the dispatch objects, or none.
LEMMA DispatchStep ==
  ASSUME NoForeignResets, NoForeignReleases, TypeOK, WaitsInv, CallsInv, [Next]_vars
  PROVE  [Dispatch!Next]_(Dispatch!vars)
<1>0. /\ request \in [Threads -> Requests \union {None}] /\ signal \in [Objects -> Int]
      /\ pc \in [Threads -> PCs]
  BY DEF TypeOK
<1> USE DEF execVars, waitVars
<1>1. ASSUME NEW t \in Threads, NEW o \in Objects, NEW s \in {0, 1}, Initialize(t, o, s)
      PROVE  Dispatch!Next
  <2>1. signal'[o] = s  BY <1>0, <1>1 DEF Initialize
  <2>2. \A u \in Threads : request[u] # None => o \notin Dispatch!Asked(u)
    BY <1>1, SameWait DEF Initialize
  <2>3. o \notin Threads  BY <1>1, KindsAssumption DEF Initialize
  <2>4. Dispatch!Initialize(o)
    BY <1>1, <2>1, <2>2, <2>3 DEF Dispatch!Initialize, Initialize
  <2> QED  BY <2>4 DEF Dispatch!Next, Dispatch!Objects, Objects
<1>2. ASSUME NEW t \in Threads, NEW o \in Objects, SetEvent(t, o) PROVE Dispatch!Next
  <2>1. Posts(o, 1)  BY <1>2 DEF SetEvent, SignalObject, Posts
  <2> QED  BY <2>1, PostStep
<1>3. ASSUME NEW t \in Threads, NEW o \in Objects, PulseEvent(t, o) PROVE Dispatch!Next
  <2>1. Posts(o, 1)
    BY <1>3, ResettableAssumption DEF PulseEvent, SignalObject, Posts
  <2> QED  BY <2>1, PostStep
<1>4. ASSUME NEW t \in Threads, NEW o \in Objects, ResetEvent(t, o) PROVE Dispatch!Next
  <2>1. Posts(o, 0)  BY <1>4, ResettableAssumption DEF ResetEvent, Posts
  <2> QED  BY <2>1, PostStep
<1>5. ASSUME NEW t \in Threads, EndPulse(t) PROVE Dispatch!Next
  <2>1. arg[t] \in Events \union AutoEvents
    BY <1>5, ResettableAssumption DEF EndPulse, CallsInv
  <2>2. Posts(arg[t], 0)  BY <1>5, <2>1 DEF EndPulse, SignalObject, Posts
  <2> QED  BY <2>1, <2>2, PostStep DEF Objects
<1>6. ASSUME NEW t \in Threads, EndRelease(t) PROVE Dispatch!Next
  <2>1. arg[t] \in Semaphores /\ prev[t] = signal[arg[t]] /\ signal[arg[t]] \in Int
    BY <1>0, <1>6 DEF EndRelease, CallsInv, NoForeignReleases, Objects
  <2>2. Posts(arg[t], prev[t] + 1)
    BY <1>6, <2>1 DEF EndRelease, SignalObject, Posts
  <2> QED  BY <2>1, <2>2, PostStep DEF Objects
<1>7. ASSUME NEW t \in Threads, ExitThread(t) PROVE Dispatch!Next
  <2>1. Posts(t, 1)  BY <1>7 DEF ExitThread, SignalObject, Posts
  <2> QED  BY <2>1, PostStep DEF Objects
<1>8. ASSUME NEW h \in HostTimers, TimerFires(h) PROVE Dispatch!Next
  <2>1. host[h].obj \in Timers  BY <1>8 DEF TimerFires, CallsInv
  <2>2. Posts(host[h].obj, 1)
    BY <1>8, <2>1 DEF TimerFires, SignalObject, Posts
  <2> QED  BY <2>1, <2>2, PostStep DEF Objects
<1>9. ASSUME NEW t \in Threads, NEW w \in Requests, BeginWait(t, w) PROVE Dispatch!Next
  <2>1. request[t] = None  BY <1>9 DEF BeginWait, WaitsInv
  <2>2. request' = [request EXCEPT ![t] = w] /\ UNCHANGED signal /\ w # None
    BY <1>9, NoneAssumption DEF BeginWait
  <2>3. Dispatch!Begin(t)  BY <1>0, <2>1, <2>2 DEF Dispatch!Begin
  <2> QED  BY <2>3 DEF Dispatch!Next
<1>10. ASSUME NEW t \in Threads, Test(t) PROVE [Dispatch!Next]_(Dispatch!vars)
  <2>1. CASE UNCHANGED request  BY <1>10, <2>1 DEF Test, Dispatch!vars
  <2>2. CASE ~Satisfied(request[t]) /\ late[t] /\ EndWait(t)
    <3>1. Dispatch!GiveUp(t)
      BY <1>10, <2>2, SameWait DEF Test, EndWait, CallsInv, Dispatch!GiveUp
    <3> QED  BY <3>1 DEF Dispatch!Next
  <2> QED  BY <1>10, <2>1, <2>2 DEF Test
<1>11. ASSUME NEW t \in Threads, Consume(t) PROVE Dispatch!Next
  <2> DEFINE w == request[t]
  <2>1. w # None /\ w \in Requests /\ Satisfied(w)
    BY <1>0, <1>11 DEF Consume, WaitsInv, ReadyWhenConsumed
  <2>2. /\ Taken(w) \in IF w.all THEN {Dispatch!Asked(t)} ELSE {{o} : o \in Dispatch!Asked(t)}
        /\ \A o \in Taken(w) : Dispatch!Signaled(o)
    <3>1. \A o : Dispatch!Signaled(o) = Signaled(o)  BY DEF Dispatch!Signaled, Signaled
    <3> HIDE DEF w
    <3>2. Dispatch!Asked(t) = {w.objs[i] : i \in DOMAIN w.objs}  BY SameWait DEF w
    <3> QED  BY <2>1, <3>1, <3>2, TakenIs
  <2>3. signal' = [o \in Dispatch!Objects |->
                     IF o \in Taken(w) \intersect Dispatch!Consumed
                     THEN signal[o] - 1 ELSE signal[o]]
    BY <1>11 DEF Consume, Decremented, Dispatch!Consumed, Dispatch!Objects, Objects
  <2>4. request' = [request EXCEPT ![t] = None]  BY <1>11 DEF Consume, EndWait
  <2>5. Dispatch!Satisfied(t)  BY <2>1, SameWait
  <2> HIDE DEF w
  <2>6. Dispatch!Succeed(t)
    BY <2>1, <2>2, <2>3, <2>4, <2>5 DEF Dispatch!Succeed, w
  <2> QED  BY <2>6 DEF Dispatch!Next
<1>12. CASE UNCHANGED <<signal, request>>  BY <1>12 DEF Dispatch!vars
<1>13. ASSUME NEW t \in Threads, GuestCall(t) PROVE [Dispatch!Next]_(Dispatch!vars)
  BY <1>1, <1>2, <1>3, <1>4, <1>9, <1>12, <1>13
     DEF GuestCall, Objects, Delay, ReleaseSemaphore, CreateThread, ResumeThread, LockContended,
         EntryReturns, TryLock, Unlock, SetTimer, CancelTimer
<1>14. ASSUME NEW t \in Threads, RuntimeStep(t) PROVE [Dispatch!Next]_(Dispatch!vars)
  BY <1>5, <1>6, <1>7, <1>10, <1>11, <1>12, <1>14
     DEF RuntimeStep, Ask, Acquire, NoToken, EndCreate, Sleep, FairSleep, Timeout, LockGranted
<1> QED
  BY <1>8, <1>12, <1>13, <1>14 DEF Next, vars, TimerExpires

\* Waits and signals implement the dispatch objects under every scheduling: a
\* wait takes what it waited for in one step, never a signal that is not there,
\* and gives up only when nothing is there to take.  Without a token this needs
\* a title that resets nothing and releases no semaphore.
THEOREM DispatchCorrect ==
  ASSUME NoForeignResets, NoForeignReleases
  PROVE  Spec => ImplementsDispatch
<1>1. Init => Dispatch!Init
  BY DEF Init, Dispatch!Init, Dispatch!Objects, Objects
<1>2. TypeOK /\ OneGuestAtATime /\ WaitsInv /\ CallsInv /\ [Next]_vars
      => [Dispatch!Next]_(Dispatch!vars) /\ CallsInv'
  BY DispatchStep, CallsStep
<1> QED
  BY <1>1, <1>2, CallsInit, TypeCorrect, OneGuestCorrect, WaitsCorrect, PTL
     DEF Spec, ImplementsDispatch, Dispatch!Spec
==============================================================================
