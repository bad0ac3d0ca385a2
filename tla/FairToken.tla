------------------------------ MODULE FairToken ------------------------------
(***************************************************************************)
(* FairMutex (kernel.cpp): the ticket lock behind the guest-execution      *)
(* token under REX_FAIRSCHED.  lock() takes a ticket and waits, on one     *)
(* condition variable shared by all, until the lock is free and its ticket *)
(* is served; unlock() serves the next ticket inside m_ and notifies after *)
(* it has left m_.  One step is one critical section of m_, or the         *)
(* notification outside it.                                                *)
(***************************************************************************)
EXTENDS Naturals

CONSTANTS Threads,    \* the host threads that use the lock
          None,       \* no thread
          MaxTicket   \* model bound on the tickets ever taken (a uint64_t)

ASSUME NoneAssumption == None \notin Threads
ASSUME MaxTicketAssumption == MaxTicket \in Nat

VARIABLES next,     \* next_: the next ticket to hand out
          serving,  \* serving_: the ticket whose turn it is
          held,     \* held_
          my,       \* the local `my` of each thread inside lock()
          pc        \* where each thread is

vars == <<next, serving, held, my, pc>>

\* "out"     outside lock() .. unlock()     "asleep"  blocked in cv_.wait
\* "awake"   notified, about to lock m_     "in"      between lock and unlock
\* "notify"  past the critical section of unlock(), before notify_all
PCs == {"out", "asleep", "awake", "in", "notify"}

Init ==
  /\ next = 0 /\ serving = 0 /\ held = FALSE
  /\ my = [t \in Threads |-> 0]
  /\ pc = [t \in Threads |-> "out"]

\* The predicate of cv_.wait: !held_ && serving_ == my.
MyTurn(ticket) == ~held /\ serving = ticket

\* lock(): take a ticket; hold the lock if it is served already, else block.
Lock(t) ==
  /\ pc[t] = "out" /\ next < MaxTicket
  /\ my' = [my EXCEPT ![t] = next]
  /\ next' = next + 1
  /\ \/ /\ MyTurn(next)
        /\ held' = TRUE
        /\ pc' = [pc EXCEPT ![t] = "in"]
     \/ /\ ~MyTurn(next)
        /\ pc' = [pc EXCEPT ![t] = "asleep"]
        /\ UNCHANGED held
  /\ UNCHANGED serving

\* A waiter that was notified evaluates the predicate again under m_.
Recheck(t) ==
  /\ pc[t] = "awake"
  /\ \/ /\ MyTurn(my[t])
        /\ held' = TRUE
        /\ pc' = [pc EXCEPT ![t] = "in"]
     \/ /\ ~MyTurn(my[t])
        /\ pc' = [pc EXCEPT ![t] = "asleep"]
        /\ UNCHANGED held
  /\ UNCHANGED <<next, serving, my>>

\* The condition variable may wake a waiter without a notification.
SpuriousWake(t) ==
  /\ pc[t] = "asleep"
  /\ pc' = [pc EXCEPT ![t] = "awake"]
  /\ UNCHANGED <<next, serving, held, my>>

\* Mutation: a ticket is skipped.
Unlock_Skips(t) ==
  /\ pc[t] = "in"
  /\ held' = FALSE
  /\ serving' = serving + 2
  /\ pc' = [pc EXCEPT ![t] = "notify"]
  /\ UNCHANGED <<next, my>>

\* Mutation: the next ticket is not served.
Unlock_SameTicket(t) ==
  /\ pc[t] = "in"
  /\ held' = FALSE
  /\ pc' = [pc EXCEPT ![t] = "notify"]
  /\ UNCHANGED <<next, serving, my>>

\* The critical section of unlock(): free the lock and serve the next ticket.
Unlock(t) ==
  /\ pc[t] = "in"
  /\ held' = FALSE
  /\ serving' = serving + 1
  /\ pc' = [pc EXCEPT ![t] = "notify"]
  /\ UNCHANGED <<next, my>>

\* Mutation: notify_one.
NotifyAll_One(t) ==
  LET asleep == {u \in Threads : pc[u] = "asleep"}
  IN  /\ pc[t] = "notify"
      /\ pc' = [u \in Threads |->
                  IF u = t THEN "out"
                  ELSE IF u \in asleep /\ u = CHOOSE v \in asleep : TRUE
                       THEN "awake" ELSE pc[u]]
      /\ UNCHANGED <<next, serving, held, my>>

\* cv_.notify_all(), after m_ was left: every blocked waiter wakes.
NotifyAll(t) ==
  /\ pc[t] = "notify"
  /\ pc' = [u \in Threads |-> IF u = t THEN "out"
                              ELSE IF pc[u] = "asleep" THEN "awake" ELSE pc[u]]
  /\ UNCHANGED <<next, serving, held, my>>

Next == \E t \in Threads :
          Lock(t) \/ Recheck(t) \/ SpuriousWake(t) \/ Unlock(t) \/ NotifyAll(t)

Spec == Init /\ [][Next]_vars

\* The host scheduler runs every runnable thread, and the holder gives the
\* token back (a guest thread that spins forever starves the others by design).
FairSpec == Spec /\ \A t \in Threads :
              WF_vars(Recheck(t)) /\ WF_vars(Unlock(t)) /\ WF_vars(NotifyAll(t))
------------------------------------------------------------------------------
(* Properties *)

TypeOK ==
  /\ next \in Nat /\ serving \in Nat /\ held \in BOOLEAN
  /\ my \in [Threads -> Nat]
  /\ pc \in [Threads -> PCs]

\* Threads that hold a ticket that was not served to the end.
Queued == {t \in Threads : pc[t] \in {"asleep", "awake"}}
Ticketed == Queued \union {t \in Threads : pc[t] = "in"}

\* Tickets are never shared, none is outside serving .. next-1, every ticket of
\* that range is held by somebody (a ticket nobody holds would stop the lock
\* for good), and the lock is held exactly when the served ticket is inside.
TicketsInv ==
  /\ serving <= next
  /\ \A t \in Ticketed : serving <= my[t] /\ my[t] < next
  /\ \A t, u \in Ticketed : my[t] = my[u] => t = u
  /\ \A n \in serving .. (next - 1) : \E t \in Ticketed : my[t] = n
  /\ \A t \in Threads : pc[t] = "in" => held /\ my[t] = serving
  /\ held => \E t \in Threads : pc[t] = "in"

\* The token is held by at most one thread: two guest threads never run at
\* once under REX_FAIRSCHED.
MutualExclusion ==
  \A t, u \in Threads : pc[t] = "in" /\ pc[u] = "in" => t = u

\* No wake-up is lost although unlock() notifies outside m_: whenever the
\* served ticket belongs to a blocked waiter, a notification is still to come.
NoLostTurn ==
  \A t \in Threads :
    pc[t] = "asleep" /\ MyTurn(my[t]) => \E u \in Threads : pc[u] = "notify"

\* Every thread that asks for the token gets it.
EveryoneIsServed == \A t \in Threads : t \in Queued ~> pc[t] = "in"

------------------------------------------------------------------------------
(* The ticket lock implements the FIFO token. *)

FirstWaiting == IF held THEN serving + 1 ELSE serving
TokenHolder == IF held THEN CHOOSE t \in Threads : pc[t] = "in" ELSE None
TokenQueue == [i \in 1 .. (next - FirstWaiting) |->
                 CHOOSE t \in Queued : my[t] = FirstWaiting + i - 1]

Fifo == INSTANCE FifoToken WITH holder <- TokenHolder, queue <- TokenQueue

\* FairMutex grants the token in the order it was asked for and only its
\* holder gives it back.
ImplementsFifo == Fifo!Spec
==============================================================================
