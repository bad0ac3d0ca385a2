------------------------------ MODULE GuestExec ------------------------------
(***************************************************************************)
(* The execution of guest threads in the from-scratch runtime              *)
(* (varianta/runtime/kernel.cpp): thread creation and exit, the            *)
(* guest-execution token, waits and signals on dispatch objects, critical  *)
(* sections and spin locks, delays, and the host threads behind timers.    *)
(*                                                                         *)
(* Mode is the scheduling the environment variables choose:                *)
(*   "coop"     default: the token is g_waitMutex, a plain std::mutex      *)
(*   "fair"     REX_FAIRSCHED: the token is g_tok, a FIFO ticket lock, and *)
(*              the objects have a lock of their own, g_objM               *)
(*   "preempt"  REX_NOTOKEN: no token; g_waitMutex only guards the objects *)
(*                                                                         *)
(* `holder` is the owner of g_waitMutex (coop, preempt) or of g_tok        *)
(* (fair).  Guest code may call any operation at any time, within the      *)
(* contracts named at the actions.                                         *)
(***************************************************************************)
EXTENDS Integers, Sequences

CONSTANTS Threads, Main,          \* guest threads; Main enters the title
          Events, AutoEvents,     \* manual-reset and auto-reset events
          Timers,                 \* timer objects (auto-reset)
          Semaphores,
          Resettable,             \* the events the title resets or pulses
          Requests,               \* the waits the title issues
          CritSecs, SpinLocks,    \* the two users of the per-address host lock
          HostTimers,             \* host threads available to timers
          Mode,
          MaxCount,               \* model bound on a semaphore's count
          MaxDepth,               \* model bound on the recursion of a lock
          None                    \* no thread, no wait, no operand

Objects == Events \union AutoEvents \union Timers \union Semaphores \union Threads
Locks == CritSecs \union SpinLocks

Preempt == Mode = "preempt"
Fair == Mode = "fair"

ASSUME ModeAssumption == Mode \in {"coop", "fair", "preempt"}
ASSUME MainAssumption == Main \in Threads
ASSUME NoneAssumption == None \notin Threads \union Locks \union HostTimers \union Requests
ASSUME BoundsAssumption == MaxCount \in Nat /\ MaxDepth \in Nat
ASSUME ResettableAssumption == Resettable \subseteq Events \union AutoEvents
ASSUME RequestsAssumption ==
  \A w \in Requests : /\ w = [objs |-> w.objs, all |-> w.all, timed |-> w.timed]
                      /\ w.objs \in Seq(Objects) /\ w.objs # <<>>
                      /\ w.all \in BOOLEAN /\ w.timed \in BOOLEAN
\* The kinds of objects do not overlap.
ASSUME KindsAssumption ==
  /\ Threads \intersect (Events \union AutoEvents \union Timers \union Semaphores) = {}
  /\ Semaphores \intersect (Events \union AutoEvents \union Timers) = {}
  /\ Events \intersect (AutoEvents \union Timers) = {}
  /\ AutoEvents \intersect Timers = {}
  /\ CritSecs \intersect SpinLocks = {}

VARIABLES
  signal,   \* object -> signal_state of its dispatch header
  pc,       \* where each guest thread is, see PCs
  request,  \* the wait a thread is in: [objs, all, timed], or None
  late,     \* the timed wait of a thread has passed its deadline
  arg,      \* the operand of the call a thread is in
  prev,     \* KeReleaseSemaphore's local `prev`
  holder,   \* owner of the token (coop, fair) or of g_waitMutex (preempt)
  queue,    \* fair: the threads inside g_tok.lock(), by ticket
  owner,    \* lock -> thread that owns its std::recursive_mutex
  depth,    \* lock -> recursion depth of that mutex
  heldCS,   \* thread -> critical section -> depth in tl_heldCS
  started,  \* ThreadRec::started
  armed,    \* g_hostTimers: timer object -> its current host timer
  host      \* the host timer threads

execVars  == <<pc, arg, holder, queue, started>>
waitVars  == <<signal, request, late, prev>>
lockVars  == <<owner, depth, heldCS>>
timerVars == <<armed, host>>
vars == <<execVars, waitVars, lockVars, timerVars>>

\* "none"    not created           "born"     created, not started
\* "start"   spawned, at the token "run"      in guest code
\* "create"  in ExCreateThread, the handle is published
\* "pulse"   in KePulseEvent, between the two signals
\* "release" in KeReleaseSemaphore, the count is read
\* "woken"   waits for the token or g_waitMutex to go on with its wait
\* "test"    has it, about to evaluate the predicate of the wait
\* "consume" the predicate was true
\* "sleep"   the predicate was false (coop, preempt: the mutex still held;
\*           fair: the token given up, about to evaluate under g_objM)
\* "blocked" in the condition variable
\* "lockwait" blocked in m->lock() of a critical section or spin lock
\* "relock"  about to call LockGuestExecution
\* "exiting" the entry function returned   "exited" the thread is over
PCs == {"none", "born", "start", "run", "create", "pulse", "release", "woken",
        "test", "consume", "sleep", "blocked", "lockwait", "relock", "exiting",
        "exited"}

IdleTimer == [obj |-> None, stop |-> FALSE, periodic |-> FALSE, at |-> "idle"]

\* Main is about to take the token and call the entry point.
Init ==
  /\ signal = [o \in Objects |-> 0]
  /\ pc = [t \in Threads |-> IF t = Main THEN "start" ELSE "none"]
  /\ request = [t \in Threads |-> None]
  /\ late = [t \in Threads |-> FALSE]
  /\ arg = [t \in Threads |-> None]
  /\ prev = [t \in Threads |-> 0]
  /\ holder = None
  /\ queue = <<>>
  /\ owner = [l \in Locks |-> None]
  /\ depth = [l \in Locks |-> 0]
  /\ heldCS = [t \in Threads |-> [c \in CritSecs |-> 0]]
  /\ started = [t \in Threads |-> t = Main]
  /\ armed = [o \in Timers |-> None]
  /\ host = [h \in HostTimers |-> IdleTimer]
------------------------------------------------------------------------------
(* The token: LockGuestExecution, UnlockGuestExecution *)

Queued(t) == \E i \in DOMAIN queue : queue[i] = t

\* Threads inside LockGuestExecution or the initial lock of GuestThreadRun, and
\* waiters that re-lock the mutex of their condition variable.
Contends(t) == pc[t] \in IF Preempt THEN {"woken"} ELSE {"start", "woken", "relock"}

\* Mutation: the ticket goes to the front, last come first served.
Ask_LastComeFirst(t) ==
  /\ Fair /\ Contends(t) /\ ~Queued(t)
  /\ queue' = <<t>> \o queue
  /\ UNCHANGED <<pc, arg, holder, started, waitVars, lockVars, timerVars>>

\* g_tok.lock() takes a ticket (FairMutex; see FairToken).
Ask(t) ==
  /\ Fair /\ Contends(t) /\ ~Queued(t)
  /\ queue' = Append(queue, t)
  /\ UNCHANGED <<pc, arg, holder, started, waitVars, lockVars, timerVars>>

\* Mutation: a waiter that is woken takes its signals without another look.
Acquire_Unchecked(t) ==
  /\ Contends(t) /\ holder = None
  /\ IF Fair THEN /\ queue # <<>> /\ Head(queue) = t
                  /\ queue' = Tail(queue)
             ELSE UNCHANGED queue
  /\ holder' = t
  /\ pc' = [pc EXCEPT ![t] = IF @ = "woken" THEN "consume" ELSE "run"]
  /\ UNCHANGED <<arg, started, waitVars, lockVars, timerVars>>

\* Mutation: the token of REX_FAIRSCHED is an unordered mutex again.
Acquire_Unordered(t) ==
  /\ Contends(t) /\ holder = None
  /\ IF Fair THEN /\ Queued(t)
                  /\ queue' = SelectSeq(queue, LAMBDA u : u # t)
             ELSE UNCHANGED queue
  /\ holder' = t
  /\ pc' = [pc EXCEPT ![t] = IF @ = "woken" THEN "test" ELSE "run"]
  /\ UNCHANGED <<arg, started, waitVars, lockVars, timerVars>>

\* The free token goes to the oldest ticket (fair) or to any contender: a
\* std::mutex gives no order.
Acquire(t) ==
  /\ Contends(t) /\ holder = None
  /\ IF Fair THEN /\ queue # <<>> /\ Head(queue) = t
                  /\ queue' = Tail(queue)
             ELSE UNCHANGED queue
  /\ holder' = t
  /\ pc' = [pc EXCEPT ![t] = IF @ = "woken" THEN "test" ELSE "run"]
  /\ UNCHANGED <<arg, started, waitVars, lockVars, timerVars>>

\* Under REX_NOTOKEN LockGuestExecution does nothing.
NoToken(t) ==
  /\ Preempt /\ pc[t] \in {"start", "relock"}
  /\ pc' = [pc EXCEPT ![t] = "run"]
  /\ UNCHANGED <<arg, holder, queue, started, waitVars, lockVars, timerVars>>

\* The value of `holder` after UnlockGuestExecution.
Unlocked == IF Preempt THEN holder ELSE None

\* KeDelayExecutionThread, NtDelayExecution and the GPU back-off sub_821B9270:
\* give the token up, sleep a bounded time, take it again.
Delay(t) ==
  /\ pc[t] = "run"
  /\ pc' = [pc EXCEPT ![t] = "relock"]
  /\ holder' = Unlocked
  /\ UNCHANGED <<arg, queue, started, waitVars, lockVars, timerVars>>

------------------------------------------------------------------------------
(* Signals *)

\* Mutation: notify_one.
NotifyAll_One(at) ==
  LET blocked == {t \in Threads : at[t] = "blocked"}
  IN  [t \in Threads |-> IF t \in blocked /\ t = CHOOSE u \in blocked : TRUE
                         THEN IF Fair THEN "sleep" ELSE "woken"
                         ELSE at[t]]

\* notify_all on g_waitCv or g_objCv.  A fair waiter re-evaluates under g_objM
\* before it asks for the token, the others re-lock g_waitMutex first.
NotifyAll(at) ==
  [t \in Threads |-> IF at[t] # "blocked" THEN at[t]
                     ELSE IF Fair THEN "sleep" ELSE "woken"]

\* SignalObject: store and notify.  Under REX_NOTOKEN the store takes
\* g_waitMutex; in coop mode it relies on the caller holding it already.
SignalObject(o, state, at) ==
  /\ Preempt => holder = None
  /\ signal' = [signal EXCEPT ![o] = state]
  /\ pc' = NotifyAll(at)

\* KeInitializeEvent, NtCreateEvent, KeInitializeSemaphore: a plain store.
\* Contract: nobody waits on an object that is being initialised.
Initialize(t, o, state) ==
  /\ pc[t] = "run"
  /\ o \in Events \union AutoEvents \union Semaphores
  /\ \A u \in Threads : request[u] # None =>
                          \A i \in DOMAIN request[u].objs : request[u].objs[i] # o
  /\ \A u \in Threads : arg[u] # o
  /\ signal' = [signal EXCEPT ![o] = state]
  /\ UNCHANGED <<execVars, request, late, prev, lockVars, timerVars>>

\* KeSetEvent, NtSetEvent.
SetEvent(t, o) ==
  /\ pc[t] = "run" /\ o \in Events \union AutoEvents
  /\ SignalObject(o, 1, pc)
  /\ UNCHANGED <<arg, holder, queue, started, request, late, prev, lockVars, timerVars>>

\* KeResetEvent, NtClearEvent: a plain store, under no lock of its own.
ResetEvent(t, o) ==
  /\ pc[t] = "run" /\ o \in Resettable
  /\ signal' = [signal EXCEPT ![o] = 0]
  /\ UNCHANGED <<execVars, request, late, prev, lockVars, timerVars>>

\* KePulseEvent, NtPulseEvent: SignalObject(1), then SignalObject(0).
PulseEvent(t, o) ==
  /\ pc[t] = "run" /\ o \in Resettable
  /\ SignalObject(o, 1, [pc EXCEPT ![t] = "pulse"])
  /\ arg' = [arg EXCEPT ![t] = o]
  /\ UNCHANGED <<holder, queue, started, request, late, prev, lockVars, timerVars>>

EndPulse(t) ==
  /\ pc[t] = "pulse"
  /\ SignalObject(arg[t], 0, [pc EXCEPT ![t] = "run"])
  /\ arg' = [arg EXCEPT ![t] = None]
  /\ UNCHANGED <<holder, queue, started, request, late, prev, lockVars, timerVars>>

\* KeReleaseSemaphore reads the count under no lock ...
ReleaseSemaphore(t, s) ==
  /\ pc[t] = "run" /\ s \in Semaphores /\ signal[s] < MaxCount
  /\ prev' = [prev EXCEPT ![t] = signal[s]]
  /\ arg' = [arg EXCEPT ![t] = s]
  /\ pc' = [pc EXCEPT ![t] = "release"]
  /\ UNCHANGED <<holder, queue, started, signal, request, late, lockVars, timerVars>>

\* ... and stores the sum.
EndRelease(t) ==
  /\ pc[t] = "release"
  /\ SignalObject(arg[t], prev[t] + 1, [pc EXCEPT ![t] = "run"])
  /\ prev' = [prev EXCEPT ![t] = 0]
  /\ arg' = [arg EXCEPT ![t] = None]
  /\ UNCHANGED <<holder, queue, started, request, late, lockVars, timerVars>>
------------------------------------------------------------------------------
(* Waits: WaitObject, FairWaitUntil, KeWaitForMultipleObjects and its Nt twin *)

Signaled(o) == signal[o] > 0

\* The predicate of a wait (firstReady() >= 0); a single wait asks for "all" of
\* one object.
Satisfied(w) == IF w.all THEN \A i \in DOMAIN w.objs : Signaled(w.objs[i])
                         ELSE \E i \in DOMAIN w.objs : Signaled(w.objs[i])

\* The objects a satisfied wait consumes: all of them, or the first signaled.
Taken(w) ==
  IF w.all THEN {w.objs[i] : i \in DOMAIN w.objs}
  ELSE {w.objs[i] : i \in {j \in DOMAIN w.objs :
                             /\ Signaled(w.objs[j])
                             /\ \A k \in 1 .. (j - 1) : ~Signaled(w.objs[k])}}

\* Header types 1, 2 and 5 lose one signal when a wait is satisfied by them.
Decremented(o) == o \in AutoEvents \union Timers \union Semaphores

\* A wait starts with the token held; without one it locks g_waitMutex first.
BeginWait(t, w) ==
  /\ pc[t] = "run"
  /\ request' = [request EXCEPT ![t] = w]
  /\ pc' = [pc EXCEPT ![t] = IF Preempt THEN "woken" ELSE "test"]
  /\ UNCHANGED <<arg, holder, queue, started, signal, late, prev, lockVars, timerVars>>

\* Back in guest code; without a token g_waitMutex is unlocked.
EndWait(t) ==
  /\ request' = [request EXCEPT ![t] = None]
  /\ late' = [late EXCEPT ![t] = FALSE]
  /\ pc' = [pc EXCEPT ![t] = "run"]
  /\ holder' = IF Preempt THEN None ELSE holder

\* Mutation: a wait that is late gives up without another look.
Test_LateGivesUp(t) ==
  /\ pc[t] = "test"
  /\ \/ /\ Satisfied(request[t]) /\ ~late[t]
        /\ pc' = [pc EXCEPT ![t] = "consume"]
        /\ UNCHANGED <<holder, request, late>>
     \/ /\ ~Satisfied(request[t]) /\ ~late[t]
        /\ pc' = [pc EXCEPT ![t] = "sleep"]
        /\ holder' = IF Fair THEN None ELSE holder
        /\ UNCHANGED <<request, late>>
     \/ /\ late[t]
        /\ EndWait(t)
  /\ UNCHANGED <<arg, queue, started, signal, prev, lockVars, timerVars>>

\* Evaluate the predicate with the mutex (fair: the token) held.
Test(t) ==
  /\ pc[t] = "test"
  /\ \/ /\ Satisfied(request[t])
        /\ pc' = [pc EXCEPT ![t] = "consume"]
        /\ UNCHANGED <<holder, request, late>>
     \/ /\ ~Satisfied(request[t]) /\ ~late[t]
        /\ pc' = [pc EXCEPT ![t] = "sleep"]
        /\ holder' = IF Fair THEN None ELSE holder
        /\ UNCHANGED <<request, late>>
     \/ /\ ~Satisfied(request[t]) /\ late[t]            \* STATUS_TIMEOUT
        /\ EndWait(t)
  /\ UNCHANGED <<arg, queue, started, signal, prev, lockVars, timerVars>>

\* coop, preempt: the condition variable unlocks the mutex and blocks, without
\* another look at the objects.
Sleep(t) ==
  /\ ~Fair /\ pc[t] = "sleep"
  /\ pc' = [pc EXCEPT ![t] = "blocked"]
  /\ holder' = None
  /\ UNCHANGED <<arg, queue, started, waitVars, lockVars, timerVars>>

\* Mutation: the wait blocks without a look under g_objM.
FairSleep_Blind(t) ==
  /\ Fair /\ pc[t] = "sleep"
  /\ pc' = [pc EXCEPT ![t] = "blocked"]
  /\ UNCHANGED <<arg, holder, queue, started, waitVars, lockVars, timerVars>>

\* fair: under g_objM the wait evaluates its predicate and blocks, or leaves the
\* condition variable and asks for the token.
FairSleep(t) ==
  /\ Fair /\ pc[t] = "sleep"
  /\ pc' = [pc EXCEPT ![t] = IF Satisfied(request[t]) THEN "woken" ELSE "blocked"]
  /\ UNCHANGED <<arg, holder, queue, started, waitVars, lockVars, timerVars>>

\* The deadline of a timed wait passes; the predicate is looked at again before
\* the wait gives up (fair: once now, and once more with the token).
Timeout(t) ==
  /\ pc[t] = "blocked" /\ request[t].timed
  /\ late' = [late EXCEPT ![t] = Fair => ~Satisfied(request[t])]
  /\ pc' = [pc EXCEPT ![t] = "woken"]
  /\ UNCHANGED <<arg, holder, queue, started, signal, request, prev, lockVars, timerVars>>

\* Take the signals the wait was satisfied by and return to guest code.
Consume(t) ==
  /\ pc[t] = "consume"
  /\ signal' = [o \in Objects |->
                  IF o \in Taken(request[t]) /\ Decremented(o)
                  THEN signal[o] - 1 ELSE signal[o]]
  /\ EndWait(t)
  /\ UNCHANGED <<arg, queue, started, prev, lockVars, timerVars>>

------------------------------------------------------------------------------
(* Threads: ExCreateThread, NtResumeThread, GuestThreadRun *)

\* ExCreateThread enters the record in g_handles and hands the handle out ...
CreateThread(t, u) ==
  /\ pc[t] = "run" /\ pc[u] = "none"
  /\ pc' = [pc EXCEPT ![t] = "create", ![u] = "born"]
  /\ arg' = [arg EXCEPT ![t] = u]
  /\ UNCHANGED <<holder, queue, started, waitVars, lockVars, timerVars>>

\* ... and then, unless the thread is created suspended, starts it.
EndCreate(t, suspended) ==
  /\ pc[t] = "create"
  /\ pc' = [pc EXCEPT ![t] = "run", ![arg[t]] = IF suspended THEN @ ELSE "start"]
  /\ started' = [started EXCEPT ![arg[t]] = @ \/ ~suspended]
  /\ arg' = [arg EXCEPT ![t] = None]
  /\ UNCHANGED <<holder, queue, waitVars, lockVars, timerVars>>

\* Mutation: NtResumeThread does not look at `started`.
ResumeThread_Again(t, u) ==
  /\ pc[t] = "run" /\ pc[u] # "none"
  /\ Preempt => \A x \in Threads : ~(pc[x] = "create" /\ arg[x] = u)
  /\ started' = [started EXCEPT ![u] = TRUE]
  /\ pc' = [pc EXCEPT ![u] = "start"]
  /\ UNCHANGED <<arg, holder, queue, waitVars, lockVars, timerVars>>

\* NtResumeThread: started.exchange(true) lets one caller start the thread.
\* Contract without a token: nobody resumes a thread whose creation has not
\* returned.
ResumeThread(t, u) ==
  /\ pc[t] = "run" /\ pc[u] # "none"
  /\ Preempt => \A x \in Threads : ~(pc[x] = "create" /\ arg[x] = u)
  /\ ~started[u]
  /\ started' = [started EXCEPT ![u] = TRUE]
  /\ pc' = [pc EXCEPT ![u] = "start"]
  /\ UNCHANGED <<arg, holder, queue, waitVars, lockVars, timerVars>>

\* The entry function of a thread returns: CsExitCleanup unlocks, once per
\* recorded entry, what tl_heldCS says the thread still owns.
\* Contract: no thread ends at raised IRQL, that is inside a spin lock.
EntryReturns(t) ==
  /\ pc[t] = "run" /\ t # Main
  /\ \A s \in SpinLocks : owner[s] # t
  /\ pc' = [pc EXCEPT ![t] = "exiting"]
  /\ depth' = [l \in Locks |-> IF l \in CritSecs /\ owner[l] = t
                               THEN depth[l] - heldCS[t][l] ELSE depth[l]]
  /\ owner' = [l \in Locks |-> IF l \in CritSecs /\ owner[l] = t
                                  /\ depth[l] = heldCS[t][l]
                               THEN None ELSE owner[l]]
  /\ heldCS' = [heldCS EXCEPT ![t] = [c \in CritSecs |-> 0]]
  /\ UNCHANGED <<arg, holder, queue, started, waitVars, timerVars>>

\* Signal the thread object for those who join, then give the token up.
ExitThread(t) ==
  /\ pc[t] = "exiting"
  /\ SignalObject(t, 1, [pc EXCEPT ![t] = "exited"])
  /\ holder' = Unlocked
  /\ UNCHANGED <<arg, queue, started, request, late, prev, lockVars, timerVars>>
------------------------------------------------------------------------------
(* Critical sections and spin locks: one std::recursive_mutex per address *)

\* tl_heldCS is kept for critical sections, without a token only.
Tracked(l) == Preempt /\ l \in CritSecs

EnterLock(t, l) ==
  /\ owner[l] \in {None, t}
  /\ owner' = [owner EXCEPT ![l] = t]
  /\ depth' = [depth EXCEPT ![l] = @ + 1]
  /\ heldCS' = IF Tracked(l) THEN [heldCS EXCEPT ![t][l] = @ + 1] ELSE heldCS

\* RtlTryEnterCriticalSection, KeTryToAcquireSpinLockAtRaisedIrql, and the
\* try_lock() that the blocking calls start with; a failed try changes nothing.
TryLock(t, l) ==
  /\ pc[t] = "run" /\ depth[l] < MaxDepth
  /\ EnterLock(t, l)
  /\ UNCHANGED <<execVars, waitVars, timerVars>>

\* RtlEnterCriticalSection, KfAcquireSpinLock and KeAcquireSpinLockAtRaisedIrql
\* on a lock somebody else owns: give the token up and block.
LockContended(t, l) ==
  /\ pc[t] = "run" /\ owner[l] \notin {None, t}
  /\ pc' = [pc EXCEPT ![t] = "lockwait"]
  /\ arg' = [arg EXCEPT ![t] = l]
  /\ holder' = Unlocked
  /\ UNCHANGED <<queue, started, waitVars, lockVars, timerVars>>

\* Mutation: guest code goes on without taking the token again.
LockGranted_NoToken(t) ==
  /\ pc[t] = "lockwait" /\ EnterLock(t, arg[t])
  /\ pc' = [pc EXCEPT ![t] = "run"]
  /\ arg' = [arg EXCEPT ![t] = None]
  /\ UNCHANGED <<holder, queue, started, waitVars, timerVars>>

\* Mutation: a critical section that was contended is not recorded.
LockGranted_Untracked(t) ==
  /\ pc[t] = "lockwait" /\ owner[arg[t]] \in {None, t}
  /\ owner' = [owner EXCEPT ![arg[t]] = t]
  /\ depth' = [depth EXCEPT ![arg[t]] = @ + 1]
  /\ pc' = [pc EXCEPT ![t] = "relock"]
  /\ arg' = [arg EXCEPT ![t] = None]
  /\ UNCHANGED <<holder, queue, started, heldCS, waitVars, timerVars>>

\* m->lock() returns; the token is taken again after it.
LockGranted(t) ==
  /\ pc[t] = "lockwait" /\ EnterLock(t, arg[t])
  /\ pc' = [pc EXCEPT ![t] = "relock"]
  /\ arg' = [arg EXCEPT ![t] = None]
  /\ UNCHANGED <<holder, queue, started, waitVars, timerVars>>

\* RtlLeaveCriticalSection, KfReleaseSpinLock, KeReleaseSpinLockFromRaisedIrql.
\* Contract: the caller owns the lock.
Unlock(t, l) ==
  /\ pc[t] = "run" /\ owner[l] = t
  /\ depth' = [depth EXCEPT ![l] = @ - 1]
  /\ owner' = [owner EXCEPT ![l] = IF depth[l] = 1 THEN None ELSE t]
  /\ heldCS' = IF Tracked(l) THEN [heldCS EXCEPT ![t][l] = @ - 1] ELSE heldCS
  /\ UNCHANGED <<execVars, waitVars, timerVars>>

------------------------------------------------------------------------------
(* Timers (REX_TIMER): one host thread per arming *)

\* StopHostTimer: the current host thread of the timer is told to stop, and
\* detached; it looks at the flag when its sleep is over.
Stopped(o) ==
  [h \in HostTimers |-> IF h = armed[o] THEN [host[h] EXCEPT !.stop = TRUE]
                                        ELSE host[h]]

\* Mutation: NtSetTimerEx leaves the previous host thread alone.
SetTimer_NoStop(t, o, h, periodic) ==
  /\ pc[t] = "run"
  /\ host[h].at = "idle" /\ \A p \in Timers : armed[p] # h
  /\ host' = [host EXCEPT ![h] = [obj |-> o, stop |-> FALSE,
                                  periodic |-> periodic, at |-> "sleep"]]
  /\ armed' = [armed EXCEPT ![o] = h]
  /\ UNCHANGED <<execVars, waitVars, lockVars>>

\* NtSetTimerEx: stop the previous host thread, start another.  A record is
\* never freed, so a fresh one stands for one that nobody refers to.
SetTimer(t, o, h, periodic) ==
  /\ pc[t] = "run"
  /\ host[h].at = "idle" /\ \A p \in Timers : armed[p] # h
  /\ host' = [Stopped(o) EXCEPT ![h] = [obj |-> o, stop |-> FALSE,
                                        periodic |-> periodic, at |-> "sleep"]]
  /\ armed' = [armed EXCEPT ![o] = h]
  /\ UNCHANGED <<execVars, waitVars, lockVars>>

\* NtCancelTimer; a signal the timer raised already stays.
CancelTimer(t, o) ==
  /\ pc[t] = "run"
  /\ host' = Stopped(o)
  /\ armed' = [armed EXCEPT ![o] = None]
  /\ UNCHANGED <<execVars, waitVars, lockVars>>

\* The sleep of a host timer is over: it ends if it was stopped.
TimerExpires(h) ==
  /\ host[h].at = "sleep"
  /\ host' = [host EXCEPT ![h] = IF @.stop THEN IdleTimer
                                 ELSE [@ EXCEPT !.at = "fire"]]
  /\ UNCHANGED <<execVars, waitVars, lockVars, armed>>

\* SignalObject from the host thread, which never holds the token; a one-shot
\* timer, and a periodic one that was stopped meanwhile, ends.
TimerFires(h) ==
  /\ host[h].at = "fire"
  /\ SignalObject(host[h].obj, 1, pc)
  /\ host' = [host EXCEPT ![h] = IF @.periodic /\ ~@.stop
                                 THEN [@ EXCEPT !.at = "sleep"] ELSE IdleTimer]
  /\ UNCHANGED <<arg, holder, queue, started, request, late, prev, lockVars, armed>>

------------------------------------------------------------------------------
\* What guest code calls.
GuestCall(t) ==
  \/ Delay(t)
  \/ \E o \in Events \union AutoEvents :
       SetEvent(t, o) \/ ResetEvent(t, o) \/ PulseEvent(t, o)
  \/ \E o \in Objects, state \in {0, 1} : Initialize(t, o, state)
  \/ \E s \in Semaphores : ReleaseSemaphore(t, s)
  \/ \E w \in Requests : BeginWait(t, w)
  \/ \E u \in Threads : CreateThread(t, u) \/ ResumeThread(t, u)
  \/ \E l \in Locks : TryLock(t, l) \/ LockContended(t, l) \/ Unlock(t, l)
  \/ \E o \in Timers : CancelTimer(t, o) \/ \E h \in HostTimers, p \in BOOLEAN :
                                              SetTimer(t, o, h, p)
  \/ EntryReturns(t)

\* The rest of a call, which the runtime carries out by itself.
RuntimeStep(t) ==
  \/ Ask(t) \/ Acquire(t) \/ NoToken(t)
  \/ EndPulse(t) \/ EndRelease(t) \/ \E s \in BOOLEAN : EndCreate(t, s)
  \/ Test(t) \/ Sleep(t) \/ FairSleep(t) \/ Timeout(t) \/ Consume(t)
  \/ LockGranted(t) \/ ExitThread(t)

Next ==
  \/ \E t \in Threads : GuestCall(t) \/ RuntimeStep(t)
  \/ \E h \in HostTimers : TimerExpires(h) \/ TimerFires(h)

Spec == Init /\ [][Next]_vars

\* Fairness.  The host runs every runnable thread, so a call that can go on goes
\* on; a guest thread that gets to run again and again also yields again and
\* again (the token is cooperative: one that never yields starves the rest by
\* design).  Nothing is assumed of deadlines and timers.
Fairness ==
  \A t \in Threads :
    /\ WF_vars(Ask(t)) /\ WF_vars(Acquire(t)) /\ WF_vars(NoToken(t))
    /\ WF_vars(EndPulse(t)) /\ WF_vars(EndRelease(t))
    /\ WF_vars(\E s \in BOOLEAN : EndCreate(t, s))
    /\ WF_vars(Test(t)) /\ WF_vars(Sleep(t)) /\ WF_vars(FairSleep(t))
    /\ WF_vars(Consume(t)) /\ WF_vars(LockGranted(t)) /\ WF_vars(ExitThread(t))
    /\ SF_vars(Delay(t))

FairSpec == Spec /\ Fairness
------------------------------------------------------------------------------
(* Properties *)

TypeOK ==
  /\ signal \in [Objects -> Int]
  /\ pc \in [Threads -> PCs]
  /\ request \in [Threads -> Requests \union {None}]
  /\ late \in [Threads -> BOOLEAN]
  /\ arg \in [Threads -> Objects \union Locks \union {None}]
  /\ prev \in [Threads -> Int]
  /\ holder \in Threads \union {None}
  /\ queue \in Seq(Threads)
  /\ owner \in [Locks -> Threads \union {None}]
  /\ depth \in [Locks -> Nat]
  /\ heldCS \in [Threads -> [CritSecs -> Nat]]
  /\ started \in [Threads -> BOOLEAN]
  /\ armed \in [Timers -> HostTimers \union {None}]
  /\ host \in [HostTimers -> [obj : Timers \union {None}, stop : BOOLEAN,
                              periodic : BOOLEAN, at : {"idle", "sleep", "fire"}]]

\* A lock has an owner exactly when it is locked, and only a run without a token
\* keeps records of held critical sections.
LocksInv ==
  /\ \A l \in Locks : owner[l] = None <=> depth[l] = 0
  /\ \A t \in Threads, c \in CritSecs :
       heldCS[t][c] = IF Preempt /\ owner[c] = t THEN depth[c] ELSE 0

\* Where a thread holds the token: in guest code and in every call that does
\* not wait.  Without a token, where it holds g_waitMutex.
HolderPCs ==
  CASE Mode = "coop" -> {"run", "create", "pulse", "release", "test", "consume",
                         "sleep", "exiting"}
    [] Mode = "fair" -> {"run", "create", "pulse", "release", "test", "consume",
                         "exiting"}
    [] OTHER -> {"test", "consume", "sleep"}

\* One guest thread runs at a time, and the token is never left with a thread
\* that blocked, waits for a critical section or ended (kernel.h: "only one
\* guest thread runs at a time, releasing it across blocking waits").
OneGuestAtATime == \A t \in Threads : holder = t <=> pc[t] \in HolderPCs

\* No wake-up is lost: a thread is never blocked on objects that are signaled
\* already.  WaitObject, NtSetTimerEx: "so the worker's
\* KeWaitForSingleObject(timer) wakes per tick".
NoLostWakeup == \A t \in Threads : pc[t] = "blocked" => ~Satisfied(request[t])

\* A thread has been started exactly if it left the created state, and a thread
\* that is being created belongs to one creator.
ThreadsInv ==
  /\ \A u \in Threads : started[u] <=> pc[u] \notin {"none", "born"}
  /\ \A t \in Threads : pc[t] = "create" => arg[t] \in Threads /\ pc[arg[t]] = "born"
  /\ \A t, u \in Threads : pc[t] = "create" /\ pc[u] = "create" /\ arg[t] = arg[u] => t = u

\* What ended a wait is still there when the wait takes it, so no signal is
\* taken twice and no count drops below zero ("Coarse but correct").
ReadyWhenConsumed ==
  \A t \in Threads : pc[t] = "consume" => Satisfied(request[t])

\* Two things the code does not rule out: a host timer thread that signals while
\* the token is a plain mutex, and a reset when there is no token.
NoForeignSignals == Mode = "coop" => HostTimers = {}
NoForeignResets == Preempt => Resettable = {}

\* A third one: without a token two releases of a semaphore may read one count.
NoForeignReleases == Preempt => Semaphores = {}

\* A thread is in a wait exactly while it has a request; one that is about to
\* block, or blocked, is not satisfied; one that is about to consume is.
Watching(t) == pc[t] = "blocked" \/ (~Fair /\ pc[t] = "sleep")
WaitsInv ==
  /\ \A t \in Threads :
       request[t] # None <=> pc[t] \in {"woken", "test", "consume", "sleep", "blocked"}
  /\ NoForeignSignals => \A t \in Threads : Watching(t) => ~Satisfied(request[t])
  /\ NoForeignResets => ReadyWhenConsumed

\* The record of held critical sections is exact, which makes the unlocks of
\* CsExitCleanup legal and complete.
HeldIsExact ==
  Preempt => \A t \in Threads, c \in CritSecs :
               heldCS[t][c] = IF owner[c] = t THEN depth[c] ELSE 0

\* No critical section belongs to a thread that ended, which is what CsExitCleanup
\* is for; it runs without a token only.
NoOrphan == Preempt => \A c \in CritSecs : owner[c] # None => pc[owner[c]] # "exited"

\* What makes NoOrphan inductive: an ending thread has left its sections already.
OwnersInv == Preempt => \A c \in CritSecs :
               owner[c] # None => pc[owner[c]] \notin {"exiting", "exited"}

\* The entry function of a guest thread runs once, whoever creates and resumes
\* it: a thread is only ever started from the created state.
StartsFromCreated == \A u \in Threads : pc'[u] = "start" => pc[u] \in {"start", "born"}
EntryRunsOnce == [][StartsFromCreated]_vars

\* NtCancelTimer and NtSetTimerEx reach every host thread that is going to go
\* on signaling, so each timer object has at most one of them.
LiveTimersAreArmed ==
  \A h \in HostTimers :
    host[h].at # "idle" /\ ~host[h].stop => armed[host[h].obj] = h

\* Under REX_FAIRSCHED every thread that is ready gets a turn.
EveryThreadGetsATurn == \A t \in Threads : Contends(t) ~> holder = t

\* The waits and signals implement the dispatch objects of DispatchObjects.
Dispatch == INSTANCE DispatchObjects WITH
  Waiters <- Threads, AutoEvents <- AutoEvents \union Timers, Exits <- Threads,
  NoWait <- None

ImplementsDispatch == Dispatch!Spec

\* What makes every step one of the dispatch objects: only timed waits are late,
\* the locals of a call in between two steps name the right kind of object, and
\* with a token the count a release has read is still the count.
CallsInv ==
  /\ \A t \in Threads :
       /\ late[t] => request[t] # None /\ request[t].timed
       /\ pc[t] = "pulse" => arg[t] \in Resettable
       /\ pc[t] = "release" => /\ arg[t] \in Semaphores
                               /\ ~Preempt => prev[t] = signal[arg[t]]
  /\ \A h \in HostTimers : host[h].at # "idle" => host[h].obj \in Timers

\* The threads use the token as a FIFO lock: whoever unlocks it holds it.
Token == INSTANCE FifoToken

UsesFifoToken == Token!Spec
==============================================================================
