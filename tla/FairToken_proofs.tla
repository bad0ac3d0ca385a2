--------------------------- MODULE FairToken_proofs ---------------------------
(***************************************************************************)
(* Proofs about FairMutex for every set of threads and every number of     *)
(* tickets: the ticket invariant, mutual exclusion, no lost turn, and that *)
(* the ticket lock implements the FIFO token.                              *)
(***************************************************************************)
EXTENDS FairToken, SequenceTheorems, TLAPS

\* The fields of the lock and the locals of its users keep their types.
THEOREM TypeCorrect == Spec => []TypeOK
<1>1. Init => TypeOK
  <2> SUFFICES ASSUME Init PROVE TypeOK
    OBVIOUS
  <2>1. held \in BOOLEAN
    BY DEF Init
  <2>2. next \in Nat /\ serving \in Nat /\ my \in [Threads -> Nat] /\ pc \in [Threads -> PCs]
    BY DEF Init, PCs
  <2>3. QED
    BY <2>1, <2>2 DEF TypeOK
<1>2. TypeOK /\ [Next]_vars => TypeOK'
  <2> SUFFICES ASSUME TypeOK, [Next]_vars PROVE TypeOK'
    OBVIOUS
  <2> USE DEF TypeOK, PCs
  <2>1. ASSUME NEW t \in Threads, Lock(t) PROVE TypeOK'
    <3>1. held' \in BOOLEAN
      BY <2>1 DEF Lock
    <3>2. (next \in Nat /\ serving \in Nat /\ my \in [Threads -> Nat])'
      BY <2>1 DEF Lock
    <3>3. (pc \in [Threads -> PCs])'
      BY <2>1 DEF Lock
    <3>4. QED
      BY <3>1, <3>2, <3>3
  <2>2. ASSUME NEW t \in Threads, Recheck(t) PROVE TypeOK'
    <3>1. held' \in BOOLEAN
      BY <2>2 DEF Recheck
    <3>2. (next \in Nat /\ serving \in Nat /\ my \in [Threads -> Nat])'
      BY <2>2 DEF Recheck
    <3>3. (pc \in [Threads -> PCs])'
      BY <2>2 DEF Recheck
    <3>4. QED
      BY <3>1, <3>2, <3>3
  <2>3. ASSUME NEW t \in Threads, SpuriousWake(t) PROVE TypeOK'
    <3>1. held' \in BOOLEAN
      BY <2>3 DEF SpuriousWake
    <3>2. (next \in Nat /\ serving \in Nat /\ my \in [Threads -> Nat])'
      BY <2>3 DEF SpuriousWake
    <3>3. (pc \in [Threads -> PCs])'
      BY <2>3 DEF SpuriousWake
    <3>4. QED
      BY <3>1, <3>2, <3>3
  <2>4. ASSUME NEW t \in Threads, Unlock(t) PROVE TypeOK'
    <3>1. held' \in BOOLEAN
      BY <2>4 DEF Unlock
    <3>2. (next \in Nat /\ serving \in Nat /\ my \in [Threads -> Nat])'
      BY <2>4 DEF Unlock
    <3>3. (pc \in [Threads -> PCs])'
      BY <2>4 DEF Unlock
    <3>4. QED
      BY <3>1, <3>2, <3>3
  <2>5. ASSUME NEW t \in Threads, NotifyAll(t) PROVE TypeOK'
    <3>1. held' \in BOOLEAN
      BY <2>5 DEF NotifyAll
    <3>2. (next \in Nat /\ serving \in Nat /\ my \in [Threads -> Nat])'
      BY <2>5 DEF NotifyAll
    <3>3. (pc \in [Threads -> PCs])'
      BY <2>5 DEF NotifyAll
    <3>4. QED
      BY <3>1, <3>2, <3>3
  <2>6. CASE UNCHANGED vars
    BY <2>6 DEF vars
  <2>7. QED
    BY <2>1, <2>2, <2>3, <2>4, <2>5, <2>6 DEF Next
<1>3. QED
  BY <1>1, <1>2, PTL DEF Spec

\* Tickets are distinct and cover exactly serving .. next-1, and the lock is
\* held exactly when the thread with the served ticket is inside.
THEOREM TicketsCorrect == Spec => []TicketsInv
<1> USE DEF Ticketed, Queued
<1>1. Init => TicketsInv
  BY DEF Init, TicketsInv
<1>2. TypeOK /\ TicketsInv /\ [Next]_vars => TicketsInv'
  <2> SUFFICES ASSUME TypeOK, TicketsInv, [Next]_vars PROVE TicketsInv'
    OBVIOUS
  <2> USE DEF TypeOK, PCs, TicketsInv, MyTurn
  <2>1. ASSUME NEW t \in Threads, Lock(t) PROVE TicketsInv'
    <3> USE <2>1 DEF Lock
    <3>1. (serving <= next)'
      OBVIOUS
    <3>2. (\A u \in Ticketed : serving <= my[u] /\ my[u] < next)'
      OBVIOUS
    <3>3. (\A u, v \in Ticketed : my[u] = my[v] => u = v)'
      OBVIOUS
    <3>4. (\A n \in serving .. (next - 1) : \E u \in Ticketed : my[u] = n)'
      <4>1. t \in Ticketed' /\ my'[t] = next
        OBVIOUS
      <4>2. \A u \in Ticketed : u \in Ticketed' /\ my'[u] = my[u]
        OBVIOUS
      <4>3. QED
        BY <4>1, <4>2
    <3>5. (\A u \in Threads : pc[u] = "in" => held /\ my[u] = serving)'
      OBVIOUS
    <3>6. (held => \E u \in Threads : pc[u] = "in")'
      OBVIOUS
    <3>7. QED
      BY <3>1, <3>2, <3>3, <3>4, <3>5, <3>6
  <2>2. ASSUME NEW t \in Threads, Recheck(t) PROVE TicketsInv'
    <3> USE <2>2 DEF Recheck
    <3>1. Ticketed' = Ticketed
      OBVIOUS
    <3>2. QED
      BY <3>1
  <2>3. ASSUME NEW t \in Threads, SpuriousWake(t) PROVE TicketsInv'
    <3> USE <2>3 DEF SpuriousWake
    <3>1. Ticketed' = Ticketed
      OBVIOUS
    <3>2. QED
      BY <3>1
  <2>4. ASSUME NEW t \in Threads, Unlock(t) PROVE TicketsInv'
    <3> USE <2>4 DEF Unlock
    <3>1. Ticketed' = Ticketed \ {t} /\ my[t] = serving /\ t \in Ticketed
      OBVIOUS
    <3>2. QED
      BY <3>1
  <2>5. ASSUME NEW t \in Threads, NotifyAll(t) PROVE TicketsInv'
    <3> USE <2>5 DEF NotifyAll
    <3>1. Ticketed' = Ticketed
      OBVIOUS
    <3>2. \A u \in Threads : pc'[u] = "in" <=> pc[u] = "in"
      OBVIOUS
    <3>3. QED
      BY <3>1, <3>2
  <2>6. CASE UNCHANGED vars
    BY <2>6 DEF vars
  <2>7. QED
    BY <2>1, <2>2, <2>3, <2>4, <2>5, <2>6 DEF Next
<1>3. QED
  BY <1>1, <1>2, TypeCorrect, PTL DEF Spec

\* At most one thread is between lock() and unlock().
THEOREM TokenIsExclusive == Spec => []MutualExclusion
<1>1. TicketsInv => MutualExclusion
  BY DEF TicketsInv, MutualExclusion, Ticketed
<1>2. QED
  BY <1>1, TicketsCorrect, PTL

\* A blocked waiter whose turn has come is about to be notified.
THEOREM TurnsAreNotLost == Spec => []NoLostTurn
<1>1. Init => NoLostTurn
  BY DEF Init, NoLostTurn
<1>2. TypeOK /\ TicketsInv /\ NoLostTurn /\ [Next]_vars => NoLostTurn'
  <2> SUFFICES ASSUME TypeOK, TicketsInv, NoLostTurn, [Next]_vars
               PROVE  NoLostTurn'
    OBVIOUS
  <2> USE DEF TypeOK, PCs, NoLostTurn, MyTurn
  <2>1. ASSUME NEW t \in Threads, Lock(t) PROVE NoLostTurn'
    BY <2>1 DEF Lock, TicketsInv, Ticketed, Queued
  <2>2. ASSUME NEW t \in Threads, Recheck(t) PROVE NoLostTurn'
    BY <2>2 DEF Recheck
  <2>3. ASSUME NEW t \in Threads, SpuriousWake(t) PROVE NoLostTurn'
    BY <2>3 DEF SpuriousWake
  <2>4. ASSUME NEW t \in Threads, Unlock(t) PROVE NoLostTurn'
    BY <2>4 DEF Unlock
  <2>5. ASSUME NEW t \in Threads, NotifyAll(t) PROVE NoLostTurn'
    BY <2>5 DEF NotifyAll
  <2>6. CASE UNCHANGED vars
    BY <2>6 DEF vars
  <2>7. QED
    BY <2>1, <2>2, <2>3, <2>4, <2>5, <2>6 DEF Next
<1>3. QED
  BY <1>1, <1>2, TypeCorrect, TicketsCorrect, PTL DEF Spec
------------------------------------------------------------------------------
\* A sequence given by a function on 1 .. n: its length and its elements.
LEMMA FunctionIsSeq ==
  ASSUME NEW S, NEW s, NEW n \in Nat, s \in [1 .. n -> S]
  PROVE  s \in Seq(S) /\ Len(s) = n
<1>1. s \in Seq(S)
  BY SeqDef
<1>2. DOMAIN s = 1 .. Len(s) /\ Len(s) \in Nat
  BY <1>1, LenProperties
<1>3. DOMAIN s = 1 .. n
  OBVIOUS
<1>4. QED
  BY <1>1, <1>2, <1>3

\* The token is held by whoever is inside, and by nobody when it is free.
HolderFacts ==
  /\ \A t \in Threads : pc[t] = "in" <=> TokenHolder = t
  /\ TokenHolder \in Threads \union {None}
  /\ TokenHolder = None <=> ~held

LEMMA HolderIs == TypeOK /\ TicketsInv => HolderFacts
<1> SUFFICES ASSUME TypeOK, TicketsInv PROVE HolderFacts
  OBVIOUS
<1> USE DEF HolderFacts
<1>1. \A t, u \in Threads : pc[t] = "in" /\ pc[u] = "in" => t = u
  BY DEF TicketsInv, Ticketed
<1>2. CASE held
  <2>1. PICK t \in Threads : pc[t] = "in"
    BY <1>2 DEF TicketsInv
  <2>2. TokenHolder = t
    BY <1>1, <1>2, <2>1 DEF TokenHolder
  <2>3. QED
    BY <1>1, <1>2, <2>1, <2>2, NoneAssumption
<1>3. CASE ~held
  BY <1>3, NoneAssumption DEF TicketsInv, TokenHolder
<1>4. QED
  BY <1>2, <1>3

\* The tickets from the first waiting one on belong to the waiters, in the
\* order of the queue, and every waiter is in the queue.
QueueFacts ==
  /\ next - FirstWaiting \in Nat
  /\ TokenQueue \in Seq(Threads)
  /\ Len(TokenQueue) = next - FirstWaiting
  /\ \A i \in 1 .. (next - FirstWaiting) :
       TokenQueue[i] \in Queued /\ my[TokenQueue[i]] = FirstWaiting + i - 1
  /\ \A t \in Queued : /\ my[t] - FirstWaiting + 1 \in 1 .. (next - FirstWaiting)
                       /\ TokenQueue[my[t] - FirstWaiting + 1] = t

LEMMA QueueIs == TypeOK /\ TicketsInv => QueueFacts
<1> SUFFICES ASSUME TypeOK, TicketsInv PROVE QueueFacts
  OBVIOUS
<1> DEFINE N == next - FirstWaiting
<1>0. /\ next \in Nat /\ serving \in Nat /\ my \in [Threads -> Nat]
      /\ Queued \subseteq Ticketed /\ Ticketed \subseteq Threads
  BY DEF TypeOK, Queued, Ticketed
<1>1. FirstWaiting \in Nat /\ FirstWaiting <= next
  BY <1>0 DEF FirstWaiting, TicketsInv, Ticketed
<1>2. \A n \in FirstWaiting .. (next - 1) : \E t \in Queued : my[t] = n
  <2> SUFFICES ASSUME NEW n \in FirstWaiting .. (next - 1)
               PROVE  \E t \in Queued : my[t] = n
    OBVIOUS
  <2>1. n \in serving .. (next - 1) /\ (held => n # serving)
    BY <1>0, <1>1 DEF FirstWaiting
  <2>2. PICK t \in Ticketed : my[t] = n
    BY <2>1 DEF TicketsInv
  <2>3. pc[t] # "in"
    BY <1>0, <2>1, <2>2 DEF TicketsInv
  <2>4. QED
    BY <2>2, <2>3 DEF Ticketed
<1>3. \A t, u \in Queued : my[t] = my[u] => t = u
  BY <1>0 DEF TicketsInv
<1>4. \A i \in 1 .. N : TokenQueue[i] \in Queued /\ my[TokenQueue[i]] = FirstWaiting + i - 1
  <2> SUFFICES ASSUME NEW i \in 1 .. N
               PROVE  TokenQueue[i] \in Queued /\ my[TokenQueue[i]] = FirstWaiting + i - 1
    OBVIOUS
  <2>1. FirstWaiting + i - 1 \in FirstWaiting .. (next - 1)
    BY <1>0, <1>1
  <2>2. \E t \in Queued : my[t] = FirstWaiting + i - 1
    BY <1>2, <2>1
  <2>3. TokenQueue[i] = CHOOSE t \in Queued : my[t] = FirstWaiting + i - 1
    BY DEF TokenQueue
  <2>4. QED
    BY <2>2, <2>3, Zenon
<1>5. N \in Nat /\ TokenQueue \in Seq(Threads) /\ Len(TokenQueue) = N
  <2>1. N \in Nat
    BY <1>0, <1>1
  <2>2. TokenQueue \in [1 .. N -> Threads]
    BY <1>0, <1>4 DEF TokenQueue
  <2>3. QED
    BY <2>1, <2>2, FunctionIsSeq
<1>6. ASSUME NEW t \in Queued
      PROVE  my[t] - FirstWaiting + 1 \in 1 .. N /\ TokenQueue[my[t] - FirstWaiting + 1] = t
  <2>1. my[t] \in Nat /\ serving <= my[t] /\ my[t] < next
    BY <1>0 DEF TicketsInv
  <2>2. held => my[t] # serving
    <3>1. pc[t] # "in" /\ t \in Ticketed
      BY DEF Queued, Ticketed
    <3>2. ASSUME held PROVE \E u \in Threads : pc[u] = "in" /\ my[u] = serving /\ u \in Ticketed
      BY <3>2 DEF TicketsInv, Ticketed
    <3>3. QED
      BY <3>1, <3>2 DEF TicketsInv
  <2>3. my[t] - FirstWaiting + 1 \in 1 .. N
    BY <1>0, <2>1, <2>2 DEF FirstWaiting
  <2>4. /\ TokenQueue[my[t] - FirstWaiting + 1] \in Queued
        /\ my[TokenQueue[my[t] - FirstWaiting + 1]] = my[t]
    BY <1>1, <1>4, <2>1, <2>3
  <2>5. QED
    BY <1>3, <2>3, <2>4
<1>7. QED
  BY <1>4, <1>5, <1>6 DEF QueueFacts


\* Each step of the ticket lock is a step of the FIFO token or changes neither
\* its holder nor its queue.
LEMMA FifoStep ==
  ASSUME TypeOK, TicketsInv, HolderFacts, HolderFacts', QueueFacts, QueueFacts',
         [Next]_vars
  PROVE  [Fifo!Next]_(Fifo!vars)
<1>0. /\ next \in Nat /\ serving \in Nat /\ my \in [Threads -> Nat]
      /\ pc \in [Threads -> PCs] /\ held \in BOOLEAN
  BY DEF TypeOK
<1>1. ASSUME UNCHANGED <<next, serving, held, my>>, UNCHANGED Queued,
             \A u \in Threads : pc'[u] = "in" <=> pc[u] = "in"
      PROVE  UNCHANGED Fifo!vars
  <2>1. UNCHANGED TokenQueue
    BY <1>1 DEF TokenQueue, FirstWaiting
  <2>2. UNCHANGED TokenHolder
    BY <1>1, NoneAssumption DEF HolderFacts
  <2>3. QED
    BY <2>1, <2>2 DEF Fifo!vars
<1>2. ASSUME NEW t \in Threads, Lock(t) PROVE Fifo!Request(t) \/ Fifo!RequestAndTake(t)
  <2>1. CASE MyTurn(next)
    <3>1. ~held /\ held' /\ pc'[t] = "in" /\ Queued' = Queued /\ next = serving
      BY <1>0, <1>2, <2>1 DEF Lock, MyTurn, Queued, PCs
    <3>2. TokenHolder = None /\ TokenHolder' = t
      BY <3>1 DEF HolderFacts
    <3>3. Len(TokenQueue) = 0 /\ Len(TokenQueue)' = 0
      BY <1>0, <1>2, <3>1 DEF QueueFacts, FirstWaiting, Lock
    <3>4. TokenQueue = <<>> /\ TokenQueue' = <<>>
      BY <3>3, EmptySeq DEF QueueFacts
    <3>5. QED
      BY <3>2, <3>4 DEF Fifo!RequestAndTake
  <2>2. CASE ~MyTurn(next)
    <3>1. /\ UNCHANGED <<serving, held>> /\ next' = next + 1 /\ pc[t] = "out"
          /\ pc' = [pc EXCEPT ![t] = "asleep"] /\ my' = [my EXCEPT ![t] = next]
      BY <1>2, <2>2 DEF Lock
    <3>2. UNCHANGED TokenHolder /\ TokenHolder # t
      <4>1. \A u \in Threads : pc'[u] = "in" <=> pc[u] = "in"
        BY <1>0, <3>1
      <4>2. UNCHANGED TokenHolder
        BY <3>1, <4>1, NoneAssumption DEF HolderFacts
      <4>3. QED
        BY <3>1, <4>2 DEF HolderFacts
    <3>3. UNCHANGED FirstWaiting /\ FirstWaiting \in Nat
      BY <1>0, <3>1 DEF FirstWaiting
    <3>4. Queued' = Queued \union {t} /\ t \notin Queued
      BY <1>0, <3>1 DEF Queued
    <3>5. \A u \in Queued : my'[u] = my[u]
      BY <1>0, <3>1, <3>4 DEF Queued
    <3>6. ~Fifo!Waiting(t)
      BY <3>4 DEF QueueFacts, Fifo!Waiting
    <3>7. TokenQueue' = Append(TokenQueue, t)
      <4> DEFINE N == next - FirstWaiting
      <4>1. /\ N \in Nat /\ TokenQueue \in Seq(Threads) /\ Len(TokenQueue) = N
            /\ \A i \in 1 .. N : TokenQueue[i] \in Queued
                                 /\ my[TokenQueue[i]] = FirstWaiting + i - 1
        BY DEF QueueFacts
      <4>2. /\ TokenQueue' \in Seq(Threads) /\ Len(TokenQueue') = N + 1
            /\ \A u \in Queued' : TokenQueue'[my'[u] - FirstWaiting + 1] = u
        BY <1>0, <3>1, <3>3 DEF QueueFacts
      <4>3. \A i \in 1 .. N : TokenQueue'[i] = TokenQueue[i]
        <5> SUFFICES ASSUME NEW i \in 1 .. N PROVE TokenQueue'[i] = TokenQueue[i]
          OBVIOUS
        <5>1. TokenQueue[i] \in Queued' /\ my'[TokenQueue[i]] = FirstWaiting + i - 1
          BY <3>4, <3>5, <4>1
        <5>2. my'[TokenQueue[i]] - FirstWaiting + 1 = i
          BY <3>3, <5>1
        <5>3. TokenQueue'[my'[TokenQueue[i]] - FirstWaiting + 1] = TokenQueue[i]
          BY <4>2, <5>1
        <5>4. QED
          BY <5>2, <5>3
      <4>4. TokenQueue'[N + 1] = t
        <5>1. t \in Queued' /\ my'[t] = next
          BY <1>0, <3>1, <3>4
        <5>2. QED
          BY <4>2, <5>1
      <4>5. /\ Append(TokenQueue, t) \in Seq(Threads)
            /\ Len(Append(TokenQueue, t)) = N + 1
            /\ \A i \in 1 .. N : Append(TokenQueue, t)[i] = TokenQueue[i]
            /\ Append(TokenQueue, t)[N + 1] = t
        BY <4>1, AppendProperties
      <4>6. \A i \in 1 .. (N + 1) : TokenQueue'[i] = Append(TokenQueue, t)[i]
        BY <4>1, <4>3, <4>4, <4>5
      <4>7. QED
        BY <4>2, <4>5, <4>6, SeqEqual
    <3>8. QED
      BY <3>2, <3>6, <3>7 DEF Fifo!Request
  <2>3. QED
    BY <2>1, <2>2
<1>3. ASSUME NEW t \in Threads, Recheck(t) PROVE Fifo!Grant \/ UNCHANGED Fifo!vars
  <2>1. CASE MyTurn(my[t])
    <3>1. /\ UNCHANGED <<next, serving, my>> /\ ~held /\ held' /\ serving = my[t]
          /\ pc[t] = "awake" /\ pc' = [pc EXCEPT ![t] = "in"]
      BY <1>3, <2>1 DEF Recheck, MyTurn
    <3>2. TokenHolder = None /\ TokenHolder' = t
      BY <1>0, <3>1 DEF HolderFacts
    <3>3. FirstWaiting = serving /\ FirstWaiting' = serving + 1
      BY <1>0, <3>1 DEF FirstWaiting
    <3>4. t \in Queued /\ Queued' = Queued \ {t}
      BY <1>0, <3>1 DEF Queued
    <3> DEFINE N == next - serving
    <3>5. /\ TokenQueue \in Seq(Threads) /\ Len(TokenQueue) = N /\ N \in Nat
          /\ \A i \in 1 .. N : TokenQueue[i] \in Queued
                               /\ my[TokenQueue[i]] = serving + i - 1
          /\ \A u \in Queued : /\ my[u] - serving + 1 \in 1 .. N
                               /\ TokenQueue[my[u] - serving + 1] = u
      BY <3>3 DEF QueueFacts
    <3>6. TokenQueue # <<>> /\ Head(TokenQueue) = t
      <4>1. N > 0 /\ TokenQueue[1] = t
        BY <1>0, <3>1, <3>4, <3>5
      <4>2. QED
        BY <3>5, <4>1, EmptySeq
    <3>7. TokenQueue' = Tail(TokenQueue)
      <4>1. /\ TokenQueue' \in Seq(Threads) /\ Len(TokenQueue') = N - 1
            /\ \A i \in 1 .. (N - 1) : TokenQueue'[i] \in Queued'
                                       /\ my'[TokenQueue'[i]] = serving + i
        <5>1. next' - FirstWaiting' = N - 1
          BY <1>0, <3>1, <3>3
        <5>2. TokenQueue' \in Seq(Threads) /\ Len(TokenQueue') = N - 1
          BY <5>1 DEF QueueFacts
        <5>3. \A i \in 1 .. (N - 1) : TokenQueue'[i] \in Queued'
                                      /\ my'[TokenQueue'[i]] = (serving + 1) + i - 1
          BY <3>3, <5>1 DEF QueueFacts
        <5>4. \A i \in 1 .. (N - 1) : (serving + 1) + i - 1 = serving + i
          BY <1>0
        <5>5. QED
          BY <5>2, <5>3, <5>4
      <4>2. /\ Tail(TokenQueue) \in Seq(Threads) /\ Len(Tail(TokenQueue)) = N - 1
            /\ \A i \in 1 .. (N - 1) : Tail(TokenQueue)[i] = TokenQueue[i + 1]
        BY <3>5, <3>6, HeadTailProperties
      <4>3. \A i \in 1 .. (N - 1) : TokenQueue'[i] = TokenQueue[i + 1]
        <5> SUFFICES ASSUME NEW i \in 1 .. (N - 1) PROVE TokenQueue'[i] = TokenQueue[i + 1]
          OBVIOUS
        <5>1. TokenQueue'[i] \in Queued /\ my[TokenQueue'[i]] = serving + i
          BY <3>1, <3>4, <4>1
        <5>2. serving + i - serving + 1 = i + 1
          BY <1>0
        <5>3. QED
          BY <3>5, <5>1, <5>2
      <4>4. QED
        BY <4>1, <4>2, <4>3, SeqEqual
    <3>8. QED
      BY <3>2, <3>6, <3>7 DEF Fifo!Grant
  <2>2. CASE ~MyTurn(my[t])
    <3>1. UNCHANGED <<next, serving, held, my>> /\ pc[t] = "awake"
          /\ pc' = [pc EXCEPT ![t] = "asleep"]
      BY <1>3, <2>2 DEF Recheck
    <3>2. UNCHANGED Queued /\ \A u \in Threads : pc'[u] = "in" <=> pc[u] = "in"
      BY <1>0, <3>1 DEF Queued
    <3>3. QED
      BY <1>1, <3>1, <3>2
  <2>3. QED
    BY <2>1, <2>2
<1>4. ASSUME NEW t \in Threads, SpuriousWake(t) \/ NotifyAll(t) PROVE UNCHANGED Fifo!vars
  <2>1. UNCHANGED <<next, serving, held, my>>
    BY <1>4 DEF SpuriousWake, NotifyAll
  <2>2. UNCHANGED Queued /\ \A u \in Threads : pc'[u] = "in" <=> pc[u] = "in"
    BY <1>0, <1>4 DEF SpuriousWake, NotifyAll, Queued
  <2>3. QED
    BY <1>1, <2>1, <2>2
<1>5. ASSUME NEW t \in Threads, Unlock(t) PROVE Fifo!Release(t)
  <2>1. /\ UNCHANGED <<next, my>> /\ ~held' /\ serving' = serving + 1
        /\ pc[t] = "in" /\ pc' = [pc EXCEPT ![t] = "notify"]
    BY <1>5 DEF Unlock
  <2>2. TokenHolder = t /\ TokenHolder' = None
    BY <2>1 DEF HolderFacts
  <2>3. held
    BY <2>1 DEF TicketsInv
  <2>4. UNCHANGED FirstWaiting /\ UNCHANGED Queued
    BY <1>0, <2>1, <2>3 DEF FirstWaiting, Queued
  <2>5. UNCHANGED TokenQueue
    BY <2>1, <2>4 DEF TokenQueue
  <2>6. QED
    BY <2>2, <2>5 DEF Fifo!Release
<1>6. CASE UNCHANGED vars
  BY <1>1, <1>6 DEF vars, Queued
<1>7. QED
  BY <1>2, <1>3, <1>4, <1>5, <1>6 DEF Next, Fifo!Next

\* FairMutex implements the FIFO token: it is granted in the order of the calls
\* of lock(), to one thread at a time, and only its holder gives it back.
THEOREM TokenIsFifo == Spec => ImplementsFifo
<1>1. Init => Fifo!Init
  <2> SUFFICES ASSUME Init PROVE Fifo!Init
    OBVIOUS
  <2>1. TokenHolder = None
    BY DEF Init, TokenHolder
  <2>2. TokenQueue = <<>>
    BY DEF Init, TokenQueue, FirstWaiting
  <2>3. QED
    BY <2>1, <2>2 DEF Fifo!Init
<1>2. QED
  BY <1>1, FifoStep, HolderIs, QueueIs, TypeCorrect, TicketsCorrect, PTL DEF Spec, ImplementsFifo, Fifo!Spec
==============================================================================
