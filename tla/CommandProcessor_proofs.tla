----------------------- MODULE CommandProcessor_proofs -----------------------
(***************************************************************************)
(* Proofs about CommandProcessor, for any number of guest threads, any     *)
(* ring size and with or without the run token.                            *)
(***************************************************************************)
EXTENDS CommandProcessor, TLAPS

\* The state of the ring, the pump and the waiters keeps its types.
THEOREM TypeCorrect == Spec => []TypeOK
<1>0. 0 \in Slots /\ \A s \in Slots : Next1(s) \in Slots
  BY RingAssumption DEF Next1, Slots
<1>1. Init => TypeOK
  <2> SUFFICES ASSUME Init PROVE TypeOK
    OBVIOUS
  <2>1. /\ ring \in [Slots -> Nat] /\ target \in [Guests -> Nat]
        /\ at \in [Guests -> GuestPCs] /\ pumpAt \in PumpPCs
    BY DEF Init, GuestPCs, PumpPCs
  <2>2. /\ wptr \in Slots /\ rptr \in Slots
        /\ lastWptr \in Slots /\ cursor \in Slots /\ batch \in Slots
    BY <1>0 DEF Init
  <2>3. head \in Nat /\ kicked \in Nat /\ fence \in Nat /\ ran \in Seq(Nat)
    BY DEF Init
  <2>4. /\ callback \in BOOLEAN /\ running \in BOOLEAN /\ object \in BOOLEAN
        /\ consumed \in BOOLEAN /\ owner \in Guests \union {Pump, None}
    BY DEF Init
  <2> QED  BY <2>1, <2>2, <2>3, <2>4 DEF TypeOK
<1>2. TypeOK /\ [Next]_vars => TypeOK'
  <2> SUFFICES ASSUME TypeOK, [Next]_vars PROVE TypeOK'
    OBVIOUS
  <2> USE DEF TypeOK, Runs, GuestPCs, PumpPCs
  <2>2. ASSUME NEW g \in Guests, GuestStep(g) PROVE TypeOK'
    <3>1. CASE TakeToken(g) \/ Yield(g) \/ EnableWriteBack(g) \/ SetCallback(g)
      BY <3>1 DEF TakeToken, Yield, EnableWriteBack, SetCallback, pumpVars, ringVars,
                  setupVars, titleVars
    <3>2. CASE Build(g)
      BY <3>2 DEF Build, pumpVars, ringVars, setupVars, titleVars
    <3>7. CASE \E active \in BOOLEAN : SetObject(g, active)
      <4>1. object' \in BOOLEAN /\ callback' \in BOOLEAN /\ running' \in BOOLEAN
        BY <3>7, Zenon DEF SetObject, setupVars
      <4>2. UNCHANGED <<titleVars, pumpVars, ringVars, rptr, fence, owner>>
        BY <3>7 DEF SetObject
      <4>3. consumed' \in BOOLEAN
        BY <4>2, Zenon DEF pumpVars
      <4>4. /\ head' \in Nat /\ kicked' \in Nat /\ fence' \in Nat /\ ring' \in [Slots -> Nat]
            /\ wptr' \in Slots /\ rptr' \in Slots /\ at' \in [Guests -> GuestPCs]
            /\ owner' \in Guests \union {Pump, None} /\ target' \in [Guests -> Nat]
            /\ pumpAt' \in PumpPCs /\ lastWptr' \in Slots /\ cursor' \in Slots
            /\ batch' \in Slots /\ ran' \in Seq(Nat)
        BY <4>2 DEF pumpVars, ringVars, titleVars
      <4>5. QED
        BY <4>1, <4>3, <4>4, Zenon
    <3>3. CASE BeginKick(g)
      BY <3>3, <1>0 DEF BeginKick, pumpVars, setupVars, titleVars
    <3>8. CASE EndKick(g)
      <4>1. owner' \in Guests \union {Pump, None}
        BY <3>8, Zenon DEF EndKick
      <4>2. QED
        BY <3>8, <1>0, <4>1 DEF EndKick, pumpVars, setupVars, titleVars
    <3>4. CASE \E n \in 1 .. MaxSegments : FenceWait(g, n)
      BY <3>4 DEF FenceWait, pumpVars, ringVars, setupVars, titleVars
    <3>5. CASE Forward(g) \/ Reached(g) \/ BackOff(g)
      BY <3>5 DEF Forward, Reached, BackOff, pumpVars, ringVars, setupVars, titleVars
    <3>6. QED
      BY <2>2, <3>1, <3>2, <3>3, <3>4, <3>5, <3>7, <3>8 DEF GuestStep
  <2>3. ASSUME PumpStep PROVE TypeOK'
    <3>1. CASE Wake \/ PumpLocks \/ ReadWptr
      BY <3>1 DEF Wake, PumpLocks, ReadWptr, ringVars, setupVars, titleVars
    <3>2. CASE ExecuteSegment
      BY <3>2, <1>0 DEF ExecuteSegment, Behind, ringVars, setupVars, titleVars
    <3>3. CASE InterruptReturns \/ Publish \/ VblankReturns \/ CompleteReturns \/ PumpUnlocks
      BY <3>3 DEF InterruptReturns, Publish, VblankReturns, CompleteReturns, PumpUnlocks,
                  ringVars, setupVars, titleVars
    <3>4. QED
      BY <2>3, <3>1, <3>2, <3>3 DEF PumpStep
  <2>4. CASE CallbackKicks
    BY <2>4, <1>0 DEF CallbackKicks, titleVars, pumpVars, setupVars
  <2>5. CASE UNCHANGED vars
    BY <2>5 DEF vars, titleVars, pumpVars, ringVars, setupVars
  <2>6. QED
    BY <2>2, <2>3, <2>4, <2>5 DEF Next
<1>3. QED
  BY <1>1, <1>2, PTL DEF Spec
------------------------------------------------------------------------------
\* A step keeps the owner of the token, or of g_gpuMutex, exact.
LEMMA OwnerStep == TypeOK /\ OwnerInv /\ [Next]_vars => OwnerInv'
<1> SUFFICES ASSUME TypeOK, OwnerInv, [Next]_vars PROVE OwnerInv'
  OBVIOUS
<1>0. /\ at \in [Guests -> GuestPCs]
      /\ owner \in Guests \union {Pump, None}
  BY DEF TypeOK
<1> USE <1>0, PumpAssumption DEF OwnerInv, Runs
<1>1. ASSUME NEW g \in Guests, GuestStep(g) PROVE OwnerInv'
  <2>1. CASE TakeToken(g) \/ Yield(g)
    BY <2>1 DEF TakeToken, Yield, pumpVars, setupVars
  <2>2. CASE EnableWriteBack(g)
    BY <2>2 DEF EnableWriteBack, titleVars
  <2>3. CASE SetCallback(g) \/ Build(g) \/ \E active \in BOOLEAN : SetObject(g, active)
    <3>1. UNCHANGED <<at, pumpAt, owner>> /\ (running => running')
      BY <2>3, Zenon DEF SetCallback, Build, SetObject, titleVars, pumpVars, setupVars
    <3>2. QED
      BY <3>1
  <2>4. CASE BeginKick(g) \/ EndKick(g)
    BY <2>4 DEF BeginKick, EndKick, pumpVars, setupVars
  <2>5. CASE \E n \in 1 .. MaxSegments : FenceWait(g, n)
    BY <2>5 DEF FenceWait, pumpVars, setupVars
  <2>6. CASE Forward(g) \/ Reached(g) \/ BackOff(g)
    BY <2>6 DEF Forward, Reached, BackOff, pumpVars, setupVars
  <2>7. QED
    BY <1>1, <2>1, <2>2, <2>3, <2>4, <2>5, <2>6 DEF GuestStep
<1>2. ASSUME PumpStep PROVE OwnerInv'
  BY <1>2 DEF PumpStep, Wake, PumpLocks, ReadWptr, ExecuteSegment, InterruptReturns,
              Publish, VblankReturns, CompleteReturns, PumpUnlocks, titleVars, setupVars
<1>3. CASE CallbackKicks
  BY <1>3 DEF CallbackKicks, titleVars, pumpVars, setupVars
<1>4. CASE UNCHANGED vars
  BY <1>4 DEF vars, titleVars, pumpVars, setupVars
<1>5. QED
  BY <1>1, <1>2, <1>3, <1>4 DEF Next

\* The pump executes the ring and calls back with the token, or with g_gpuMutex,
\* which no guest thread has at the same time.
THEOREM OwnerCorrect == Spec => []OwnerInv
<1>1. Init => OwnerInv
  BY PumpAssumption DEF Init, OwnerInv
<1>2. QED
  BY <1>1, OwnerStep, TypeCorrect, PTL DEF Spec
------------------------------------------------------------------------------
\* The completion object stays while a callback for source 1 may use it: nobody
\* but the owner writes it, and the pump is the owner.
THEOREM CompletionCorrect == Spec => []NoWildCompletion
<1>1. Init => NoWildCompletion
  BY DEF Init, NoWildCompletion
<1>2. TypeOK /\ OwnerInv /\ NoWildCompletion /\ [Next]_vars => NoWildCompletion'
  <2> SUFFICES ASSUME TypeOK, OwnerInv, NoWildCompletion, [Next]_vars
               PROVE  NoWildCompletion'
    OBVIOUS
  <2> USE DEF TypeOK, NoWildCompletion
  <2>1. ASSUME NEW g \in Guests, NEW active \in BOOLEAN, SetObject(g, active)
        PROVE  pumpAt' \notin {"irq", "complete"}
    BY <2>1, PumpAssumption DEF SetObject, OwnerInv, Runs, pumpVars
  <2>2. ASSUME NEW g \in Guests, GuestStep(g) PROVE NoWildCompletion'
    <3>1. CASE \E active \in BOOLEAN : SetObject(g, active)
      BY <2>1, <3>1
    <3>2. CASE EnableWriteBack(g)
      BY <3>2 DEF EnableWriteBack
    <3>3. CASE UNCHANGED <<pumpVars, object>>
      BY <3>3 DEF pumpVars
    <3>4. QED
      BY <2>2, <3>1, <3>2, <3>3
         DEF GuestStep, TakeToken, Yield, SetCallback, Build, BeginKick, EndKick,
             FenceWait, Forward, Reached, BackOff
  <2>3. ASSUME PumpStep PROVE NoWildCompletion'
    BY <2>3 DEF PumpStep, Wake, PumpLocks, ReadWptr, ExecuteSegment, InterruptReturns,
                Publish, VblankReturns, CompleteReturns, PumpUnlocks, HasObject
  <2>4. CASE CallbackKicks
    BY <2>4 DEF CallbackKicks, pumpVars
  <2>5. CASE UNCHANGED vars
    BY <2>5 DEF vars, pumpVars
  <2>6. QED
    BY <2>2, <2>3, <2>4, <2>5 DEF Next
<1>3. QED
  BY <1>1, <1>2, TypeCorrect, OwnerCorrect, PTL DEF Spec
------------------------------------------------------------------------------
(* The ring *)

\* The slot behind a slot, without the modulus.
LEMMA NextSlot ==
  \A s \in Slots : Next1(s) = IF s = RingSize - 1 THEN 0 ELSE s + 1
<1> SUFFICES ASSUME NEW s \in Slots
             PROVE  Next1(s) = IF s = RingSize - 1 THEN 0 ELSE s + 1
  OBVIOUS
<1>1. CASE s = RingSize - 1
  BY <1>1, RingAssumption DEF Next1, Slots
<1>2. CASE s # RingSize - 1
  BY <1>2, RingAssumption DEF Next1, Slots
<1>3. QED
  BY <1>1, <1>2

\* The number of slots from a to b: how it changes as either moves on.
LEMMA DistanceFacts ==
  ASSUME NEW a \in Slots, NEW b \in Slots
  PROVE  /\ Distance(a, b) \in 0 .. (RingSize - 1)
         /\ Distance(a, b) = 0 <=> a = b
         /\ (b - a) % RingSize = Distance(a, b)
         /\ Next1(b) # a => Distance(a, Next1(b)) = Distance(a, b) + 1
         /\ a # b => Distance(Next1(a), b) = Distance(a, b) - 1
<1> USE RingAssumption
<1>1. Distance(a, b) \in 0 .. (RingSize - 1) /\ (Distance(a, b) = 0 <=> a = b)
  BY DEF Distance, Slots
<1>2. (b - a) % RingSize = Distance(a, b)
  <2>1. CASE a <= b
    BY <2>1 DEF Distance, Slots
  <2>2. CASE b < a
    BY <2>2 DEF Distance, Slots
  <2>3. QED
    BY <2>1, <2>2 DEF Slots
<1>3. Next1(b) # a => Distance(a, Next1(b)) = Distance(a, b) + 1
  BY NextSlot DEF Distance, Slots
<1>4. a # b => Distance(Next1(a), b) = Distance(a, b) - 1
  BY NextSlot DEF Distance, Slots
<1>5. QED
  BY <1>1, <1>2, <1>3, <1>4

\* Slots that lie between two others divide the distance.
LEMMA DistanceBetween ==
  ASSUME NEW l \in Slots, NEW c \in Slots, NEW b \in Slots, NEW w \in Slots,
         Distance(l, c) + Distance(c, b) = Distance(l, b),
         Distance(l, b) + Distance(b, w) = Distance(l, w)
  PROVE  /\ Distance(c, b) + Distance(b, w) = Distance(c, w)
         /\ Distance(l, c) + Distance(c, w) = Distance(l, w)
BY RingAssumption DEF Distance, Slots

\* Distances are numbers, 0 from a slot to itself alone.
LEMMA DistanceIsNat ==
  \A a, b \in Slots : Distance(a, b) \in Nat /\ (Distance(a, b) = 0 <=> a = b)
BY DistanceFacts, RingAssumption

ringState == <<ring, wptr, kicked, rptr, lastWptr, cursor, batch, ran>>

\* A step that leaves the ring, the pump's cursors and the kicks alone.
LEMMA RingKept ==
  ASSUME TypeOK, RingInv, UNCHANGED ringState, head' \in Nat, head <= head',
         Position' = Position,
         pumpAt' \in {"exec", "irq"} => pumpAt \in {"exec", "irq"},
         \A g \in Guests : at'[g] = "kick" => at[g] = "kick"
  PROVE  RingInv'
<1> USE DEF RingInv, ringState
<1>1. (kicked <= head)' /\ (rptr = lastWptr)'
  BY DEF TypeOK
<1>2. (Distance(Position, wptr) = kicked - Len(ran))'
  BY DEF Distance
<1>3. (pumpAt \in {"exec", "irq"} =>
       /\ Distance(lastWptr, cursor) + Distance(cursor, batch) = Distance(lastWptr, batch)
       /\ Distance(lastWptr, batch) + Distance(batch, wptr) = Distance(lastWptr, wptr))'
  BY DEF Distance
<1>4. (\A s \in Slots : Distance(s, wptr) \in 1 .. (kicked - Len(ran)) =>
                        ring[s] = kicked + 1 - Distance(s, wptr))'
  BY DEF Distance
<1>5. (\A g \in Guests : at[g] = "kick" =>
                         kicked < head /\ Room /\ ring[wptr] = kicked + 1)'
  BY DEF TypeOK, Room, Next1
<1>6. QED
  BY <1>1, <1>2, <1>3, <1>4, <1>5

\* A writer that has put the next segment at CP_RB_WPTR and has room moves it on.
LEMMA WptrMoves ==
  ASSUME TypeOK, RingInv, Room, kicked < head,
         wptr' = Next1(wptr), kicked' = kicked + 1,
         ring' = [ring EXCEPT ![wptr] = kicked + 1],
         UNCHANGED <<pumpAt, rptr, lastWptr, cursor, batch, ran, head>>,
         \A g \in Guests : at'[g] # "kick"
  PROVE  RingInv'
<1> DEFINE todo == kicked - Len(ran)
<1>0. /\ wptr \in Slots /\ rptr \in Slots /\ lastWptr \in Slots /\ cursor \in Slots
      /\ batch \in Slots /\ ring \in [Slots -> Nat]
      /\ kicked \in Nat /\ head \in Nat /\ Len(ran) \in Nat
  BY DEF TypeOK
<1>1. Position \in Slots /\ Position' = Position
  BY <1>0 DEF Position
<1>2. wptr' \in Slots
  BY <1>0, RingAssumption DEF Next1, Slots
<1>3. Distance(lastWptr, wptr') = Distance(lastWptr, wptr) + 1
  BY <1>0, DistanceFacts DEF RingInv, Room
<1>4. Distance(Position, wptr) <= Distance(lastWptr, wptr)
  <2>1. CASE pumpAt \in {"exec", "irq"}
    <3>1. Distance(lastWptr, cursor) + Distance(cursor, wptr) = Distance(lastWptr, wptr)
      BY <1>0, <2>1, DistanceBetween DEF RingInv
    <3>2. QED
      <4>1. Position = cursor
        BY <2>1 DEF Position
      <4>2. Distance(lastWptr, cursor) \in Nat /\ Distance(cursor, wptr) \in Nat
        BY <1>0, DistanceIsNat
      <4>3. QED
        BY <3>1, <4>1, <4>2
  <2>2. CASE pumpAt \notin {"exec", "irq"}
    <3>1. Position = lastWptr
      BY <2>2 DEF Position
    <3>2. Distance(lastWptr, wptr) \in Nat
      BY <1>0, DistanceIsNat
    <3>3. QED
      BY <3>1, <3>2
  <2>3. QED
    BY <2>1, <2>2
<1>5. \A s \in Slots : Distance(s, wptr) <= Distance(lastWptr, wptr) =>
                         Distance(s, wptr') = Distance(s, wptr) + 1
  <2> SUFFICES ASSUME NEW s \in Slots, Distance(s, wptr) <= Distance(lastWptr, wptr),
                      s = Next1(wptr)
               PROVE  FALSE
    BY <1>0, DistanceFacts
  <2>1. wptr' # lastWptr
    BY DEF RingInv, Room
  <2>2. s = IF wptr = RingSize - 1 THEN 0 ELSE wptr + 1
    BY <1>0, NextSlot
  <2>3. Distance(s, wptr) = RingSize - 1
    BY <1>0, <2>2, RingAssumption DEF Distance, Slots
  <2>4. lastWptr # s
    BY <2>1
  <2>5. QED
    BY <1>0, <2>2, <2>3, <2>4, RingAssumption DEF Distance, Slots
<1>6. Distance(Position, wptr') = todo + 1
  BY <1>1, <1>4, <1>5 DEF RingInv
<1>7. ASSUME pumpAt \in {"exec", "irq"}
      PROVE  /\ Distance(lastWptr, cursor) + Distance(cursor, batch) = Distance(lastWptr, batch)
             /\ Distance(lastWptr, batch) + Distance(batch, wptr') = Distance(lastWptr, wptr')
  <2>1. Distance(batch, wptr) <= Distance(lastWptr, wptr)
    <3>1. Distance(lastWptr, batch) + Distance(batch, wptr) = Distance(lastWptr, wptr)
      BY <1>7 DEF RingInv
    <3>2. Distance(lastWptr, batch) \in Nat /\ Distance(batch, wptr) \in Nat
      BY <1>0, DistanceIsNat
    <3> QED BY <3>1, <3>2
  <2>2. Distance(batch, wptr') = Distance(batch, wptr) + 1
    BY <1>0, <1>5, <2>1
  <2>3. QED
    <3>1. /\ Distance(lastWptr, batch) + Distance(batch, wptr) = Distance(lastWptr, wptr)
          /\ Distance(lastWptr, cursor) + Distance(cursor, batch) = Distance(lastWptr, batch)
      BY <1>7 DEF RingInv
    <3>2. Distance(lastWptr, batch) \in Nat /\ Distance(batch, wptr) \in Nat
      BY <1>0, DistanceIsNat
    <3>3. QED
      BY <1>3, <2>2, <3>1, <3>2
<1>8. ASSUME NEW s \in Slots, Distance(s, wptr') \in 1 .. (todo + 1)
      PROVE  ring'[s] = kicked + 2 - Distance(s, wptr')
  <2>1. CASE s = wptr
    <3>1. wptr' # wptr
      BY <1>0, NextSlot, RingAssumption DEF Slots
    <3>2. Distance(wptr, wptr') = 1
      BY <1>0, <3>1, DistanceFacts
    <3>3. QED
      BY <1>0, <2>1, <3>2
  <2>2. CASE s # wptr
    <3>1. s # wptr'
      BY <1>0, <1>2, <1>8, DistanceFacts
    <3>2. Distance(s, wptr') = Distance(s, wptr) + 1
      BY <1>0, <3>1, DistanceFacts
    <3>3. Distance(s, wptr) \in 1 .. todo
      <4>1. Distance(s, wptr) \in Nat /\ Distance(s, wptr) # 0
        BY <1>0, <2>2, DistanceIsNat
      <4>2. todo \in Int
        BY <1>0
      <4>3. QED
        BY <1>8, <3>2, <4>1, <4>2
    <3>4. ring[s] = kicked + 1 - Distance(s, wptr)
      BY <3>3 DEF RingInv
    <3>5. QED
      <4>1. ring'[s] = ring[s]
        BY <1>0, <2>2
      <4>2. Distance(s, wptr) \in Nat
        BY <1>0, DistanceIsNat
      <4>3. QED
        BY <1>0, <3>2, <3>4, <4>1, <4>2
  <2>3. QED
    BY <2>1, <2>2
<1>9. QED
  <2>1. (kicked <= head)' /\ (rptr = lastWptr)'
    BY <1>0 DEF RingInv
  <2>2. (Distance(Position, wptr) = kicked - Len(ran))'
    <3>1. Distance(Position, wptr)' = Distance(Position, wptr')
      BY <1>1 DEF Distance
    <3>2. QED
      BY <1>0, <1>6, <3>1
  <2>3. (pumpAt \in {"exec", "irq"} =>
         /\ Distance(lastWptr, cursor) + Distance(cursor, batch) = Distance(lastWptr, batch)
         /\ Distance(lastWptr, batch) + Distance(batch, wptr) = Distance(lastWptr, wptr))'
    BY <1>7 DEF Distance
  <2>4. (\A s \in Slots : Distance(s, wptr) \in 1 .. (kicked - Len(ran)) =>
                          ring[s] = kicked + 1 - Distance(s, wptr))'
    <3> SUFFICES ASSUME NEW s \in Slots, Distance(s, wptr') \in 1 .. (kicked' - Len(ran'))
                 PROVE  ring'[s] = kicked' + 1 - Distance(s, wptr')
      BY DEF Distance
    <3>1. Distance(s, wptr') \in 1 .. (todo + 1)
      BY <1>0
    <3>2. QED
      BY <1>0, <1>2, <1>8, <3>1, DistanceFacts
  <2>5. QED
    BY <2>1, <2>2, <2>3, <2>4 DEF RingInv

\* The segment at the cursor is the next one.
LEMMA NextSegment ==
  ASSUME TypeOK, RingInv, pumpAt = "exec", cursor # batch
  PROVE  Len(ran) < kicked /\ ring[cursor] = Len(ran) + 1
<1>0. /\ wptr \in Slots /\ lastWptr \in Slots /\ cursor \in Slots /\ batch \in Slots
      /\ kicked \in Nat /\ Len(ran) \in Nat
  BY DEF TypeOK
<1>1. Distance(cursor, wptr) = kicked - Len(ran)
  BY DEF RingInv, Position
<1>2. Distance(cursor, wptr) \in Nat /\ Distance(cursor, wptr) > 0
  <2>1. Distance(cursor, batch) + Distance(batch, wptr) = Distance(cursor, wptr)
    BY <1>0, DistanceBetween DEF RingInv
  <2>2. QED
    BY <1>0, <2>1, DistanceIsNat
<1>3. ring[cursor] = kicked + 1 - Distance(cursor, wptr)
  BY <1>0, <1>1, <1>2 DEF RingInv
<1>4. QED
  BY <1>0, <1>1, <1>2, <1>3

\* A step of a guest thread keeps the ring.
LEMMA RingGuestStep ==
  ASSUME TypeOK, OwnerInv, RingInv, NEW g \in Guests, GuestStep(g)
  PROVE  RingInv'
<1>0. /\ at \in [Guests -> GuestPCs] /\ head \in Nat /\ kicked \in Nat
      /\ wptr \in Slots /\ ring \in [Slots -> Nat] /\ Len(ran) \in Nat
      /\ lastWptr \in Slots /\ cursor \in Slots
  BY DEF TypeOK
<1> USE DEF titleVars, pumpVars, ringVars, ringState
<1>1. CASE TakeToken(g) \/ Yield(g) \/ Reached(g) \/ BackOff(g) \/ Forward(g)
  <2>1. UNCHANGED <<ringState, head, pumpAt>>
    BY <1>1 DEF TakeToken, Yield, Reached, BackOff, Forward
  <2>2. \A h \in Guests : at'[h] = "kick" => at[h] = "kick"
    BY <1>0, <1>1 DEF TakeToken, Yield, Reached, BackOff, Forward
  <2>3. Position' = Position
    BY <2>1 DEF Position
  <2>4. QED
    BY <1>0, <2>1, <2>2, <2>3, RingKept
<1>2. CASE SetCallback(g) \/ Build(g) \/ \E active \in BOOLEAN : SetObject(g, active)
  <2>1. UNCHANGED <<ringState, pumpAt, at>> /\ (head' = head \/ head' = head + 1)
    BY <1>2, Zenon DEF SetCallback, Build, SetObject
  <2>2. Position' = Position
    BY <2>1 DEF Position
  <2>3. head' \in Nat /\ head <= head'
    BY <1>0, <2>1
  <2>4. QED
    BY <2>1, <2>2, <2>3, RingKept
<1>3. CASE EnableWriteBack(g)
  <2>1. UNCHANGED <<ringState, head, at>> /\ pumpAt = "off" /\ pumpAt' = "sleep"
    BY <1>3 DEF EnableWriteBack, OwnerInv, Runs
  <2>2. Position' = Position
    BY <2>1 DEF Position
  <2>3. QED
    BY <1>0, <2>1, <2>2, RingKept
<1>4. CASE \E n \in 1 .. MaxSegments : FenceWait(g, n)
  <2>1. UNCHANGED <<ringState, head, pumpAt>>
    BY <1>4 DEF FenceWait
  <2>2. \A h \in Guests : at'[h] = "kick" => at[h] = "kick"
    BY <1>0, <1>4 DEF FenceWait
  <2>3. Position' = Position
    BY <2>1 DEF Position
  <2>4. QED
    BY <1>0, <2>1, <2>2, <2>3, RingKept
<1>5. CASE BeginKick(g)
  <2>1. /\ Room /\ kicked < head /\ ring' = [ring EXCEPT ![wptr] = kicked + 1]
        /\ at' = [at EXCEPT ![g] = "kick"]
        /\ UNCHANGED <<pumpAt, wptr, kicked, rptr, lastWptr, cursor, batch, ran, head>>
    BY <1>5 DEF BeginKick
  <2>2. Position' = Position
    BY <2>1 DEF Position
  <2>3. \A s \in Slots : Distance(s, wptr) \in 1 .. (kicked - Len(ran)) => ring'[s] = ring[s]
    <3>1. Distance(wptr, wptr) = 0
      BY <1>0, DistanceIsNat
    <3>2. QED
      BY <1>0, <2>1, <3>1
  <2>4. QED
    <3>1. (kicked <= head)' /\ (rptr = lastWptr)'
      BY <2>1 DEF RingInv
    <3>2. (Distance(Position, wptr) = kicked - Len(ran))'
      BY <2>1, <2>2 DEF RingInv, Distance
    <3>3. (pumpAt \in {"exec", "irq"} =>
           /\ Distance(lastWptr, cursor) + Distance(cursor, batch) = Distance(lastWptr, batch)
           /\ Distance(lastWptr, batch) + Distance(batch, wptr) = Distance(lastWptr, wptr))'
      BY <2>1 DEF RingInv, Distance
    <3>4. (\A s \in Slots : Distance(s, wptr) \in 1 .. (kicked - Len(ran)) =>
                            ring[s] = kicked + 1 - Distance(s, wptr))'
      BY <2>1, <2>3 DEF RingInv, Distance
    <3>5. (\A h \in Guests : at[h] = "kick" =>
                             kicked < head /\ Room /\ ring[wptr] = kicked + 1)'
      BY <1>0, <2>1 DEF Room, Next1
    <3>6. QED
      BY <3>1, <3>2, <3>3, <3>4, <3>5 DEF RingInv
<1>6. CASE EndKick(g)
  <2>1. /\ at[g] = "kick" /\ wptr' = Next1(wptr) /\ kicked' = kicked + 1
        /\ at' = [at EXCEPT ![g] = "run"]
        /\ UNCHANGED <<ring, pumpAt, rptr, lastWptr, cursor, batch, ran, head>>
    BY <1>6 DEF EndKick
  <2>2. Room /\ kicked < head /\ ring[wptr] = kicked + 1
    BY <2>1 DEF RingInv
  <2>3. ring' = [ring EXCEPT ![wptr] = kicked + 1]
    BY <1>0, <2>1, <2>2
  <2>4. \A h \in Guests : at'[h] # "kick"
    <3>1. \A h \in Guests : at[h] = "kick" => owner = h
      BY DEF OwnerInv
    <3>2. QED
      BY <1>0, <2>1, <3>1
  <2>5. QED
    BY <2>1, <2>2, <2>3, <2>4, WptrMoves
<1>7. QED
  BY <1>1, <1>2, <1>3, <1>4, <1>5, <1>6 DEF GuestStep

\* A step of the pump keeps the ring: what it runs is the segment at the cursor,
\* and it gives space back only up to the end of the batch that has run.
LEMMA RingPumpStep ==
  ASSUME TypeOK, OwnerInv, RingInv, PumpStep
  PROVE  RingInv'
<1>0. /\ head \in Nat /\ kicked \in Nat /\ wptr \in Slots /\ ring \in [Slots -> Nat]
      /\ Len(ran) \in Nat /\ ran \in Seq(Nat)
      /\ lastWptr \in Slots /\ cursor \in Slots /\ batch \in Slots
  BY DEF TypeOK
<1> USE DEF titleVars, ringVars, ringState
<1>1. CASE Wake \/ PumpLocks \/ VblankReturns \/ CompleteReturns \/ PumpUnlocks
  <2>1. /\ UNCHANGED <<ringState, head, at>>
        /\ pumpAt \notin {"exec", "irq"} /\ pumpAt' \notin {"exec", "irq"}
    BY <1>1 DEF Wake, PumpLocks, VblankReturns, CompleteReturns, PumpUnlocks
  <2>2. Position' = Position
    BY <2>1 DEF Position
  <2>3. QED
    BY <1>0, <2>1, <2>2, RingKept
<1>2. CASE InterruptReturns
  <2>1. UNCHANGED <<ringState, head, at>> /\ pumpAt = "irq" /\ pumpAt' = "exec"
    BY <1>2 DEF InterruptReturns
  <2>2. Position' = Position
    BY <2>1 DEF Position
  <2>3. QED
    BY <1>0, <2>1, <2>2, RingKept
<1>3. CASE ReadWptr
  <2>1. /\ pumpAt = "read" /\ batch' = wptr /\ cursor' = lastWptr
        /\ pumpAt' = (IF wptr # lastWptr THEN "exec" ELSE "vblank")
        /\ UNCHANGED <<ring, wptr, kicked, rptr, lastWptr, ran, head, at>>
    BY <1>3 DEF ReadWptr
  <2>2. Position = lastWptr /\ Position' = lastWptr
    BY <2>1 DEF Position
  <2>3. Distance(lastWptr, lastWptr) = 0 /\ Distance(wptr, wptr) = 0
        /\ Distance(lastWptr, wptr) \in Nat
    BY <1>0, DistanceIsNat
  <2>4. (kicked <= head)' /\ (rptr = lastWptr)'
    BY <2>1 DEF RingInv
  <2>5. (Distance(Position, wptr) = kicked - Len(ran))'
    BY <2>1, <2>2 DEF RingInv, Distance
  <2>6. (pumpAt \in {"exec", "irq"} =>
         /\ Distance(lastWptr, cursor) + Distance(cursor, batch) = Distance(lastWptr, batch)
         /\ Distance(lastWptr, batch) + Distance(batch, wptr) = Distance(lastWptr, wptr))'
    <3>1. /\ Distance(lastWptr, cursor)' = 0 /\ Distance(batch, wptr)' = 0
          /\ Distance(lastWptr, batch)' = Distance(lastWptr, wptr)
          /\ Distance(cursor, batch)' = Distance(lastWptr, wptr)
          /\ Distance(lastWptr, wptr)' = Distance(lastWptr, wptr)
      BY <2>1, <2>3 DEF Distance
    <3>2. QED
      BY <2>3, <3>1
  <2>7. (\A s \in Slots : Distance(s, wptr) \in 1 .. (kicked - Len(ran)) =>
                          ring[s] = kicked + 1 - Distance(s, wptr))'
    BY <2>1 DEF RingInv, Distance
  <2>8. (\A h \in Guests : at[h] = "kick" =>
                           kicked < head /\ Room /\ ring[wptr] = kicked + 1)'
    BY <2>1 DEF RingInv, Room, Next1
  <2>9. QED
    BY <2>4, <2>5, <2>6, <2>7, <2>8 DEF RingInv
<1>4. CASE ExecuteSegment
  <2>1. /\ pumpAt = "exec" /\ pumpAt' \in {"exec", "irq"} /\ cursor # batch
        /\ ran' = Append(ran, ring[cursor]) /\ cursor' = Next1(cursor)
        /\ UNCHANGED <<ring, wptr, kicked, rptr, lastWptr, batch, head, at>>
    BY <1>4 DEF ExecuteSegment, Behind
  <2>2. Position = cursor /\ Position' = cursor'
    BY <2>1 DEF Position
  <2>3. Len(ran') = Len(ran) + 1 /\ Len(ran) < kicked
    BY <1>0, <2>1, NextSegment
  <2>4. cursor # wptr
    BY <1>0, <2>2, <2>3, DistanceIsNat DEF RingInv
  <2>5. /\ Distance(cursor', batch) = Distance(cursor, batch) - 1
        /\ Distance(cursor', wptr) = Distance(cursor, wptr) - 1
    BY <1>0, <2>1, <2>4, DistanceFacts
  <2>6. Distance(lastWptr, cursor') = Distance(lastWptr, cursor) + 1
    <3>1. /\ Distance(lastWptr, cursor) + Distance(cursor, batch) = Distance(lastWptr, batch)
          /\ Distance(lastWptr, batch) \in 0 .. (RingSize - 1)
          /\ Distance(cursor, batch) # 0
      BY <1>0, <2>1, DistanceFacts DEF RingInv
    <3>2. Next1(cursor) # lastWptr
      <4> SUFFICES ASSUME Next1(cursor) = lastWptr PROVE FALSE
        OBVIOUS
      <4>1. lastWptr = IF cursor = RingSize - 1 THEN 0 ELSE cursor + 1
        BY <1>0, NextSlot
      <4>2. Distance(lastWptr, cursor) = RingSize - 1
        BY <1>0, <4>1, RingAssumption DEF Distance, Slots
      <4>3. Distance(cursor, batch) \in Nat
        BY <1>0, DistanceIsNat
      <4>4. QED
        BY <3>1, <4>2, <4>3, RingAssumption
    <3>3. QED
      BY <1>0, <2>1, <3>2, DistanceFacts
  <2>7. (kicked <= head)' /\ (rptr = lastWptr)'
    BY <2>1 DEF RingInv
  <2>8. (Distance(Position, wptr) = kicked - Len(ran))'
    <3>1. Distance(Position, wptr)' = Distance(cursor', wptr)
      BY <2>1, <2>2 DEF Distance
    <3>2. Distance(cursor, wptr) = kicked - Len(ran)
      BY <2>2 DEF RingInv
    <3>3. QED
      BY <1>0, <2>1, <2>3, <2>5, <3>1, <3>2
  <2>9. (pumpAt \in {"exec", "irq"} =>
         /\ Distance(lastWptr, cursor) + Distance(cursor, batch) = Distance(lastWptr, batch)
         /\ Distance(lastWptr, batch) + Distance(batch, wptr) = Distance(lastWptr, wptr))'
    <3>1. /\ Distance(lastWptr, cursor)' = Distance(lastWptr, cursor')
          /\ Distance(cursor, batch)' = Distance(cursor', batch)
          /\ Distance(lastWptr, batch)' = Distance(lastWptr, batch)
          /\ Distance(batch, wptr)' = Distance(batch, wptr)
          /\ Distance(lastWptr, wptr)' = Distance(lastWptr, wptr)
      BY <2>1 DEF Distance
    <3>2. Distance(lastWptr, cursor) \in Nat /\ Distance(cursor, batch) \in Nat
      BY <1>0, DistanceIsNat
    <3>3. /\ Distance(lastWptr, cursor) + Distance(cursor, batch) = Distance(lastWptr, batch)
          /\ Distance(lastWptr, batch) + Distance(batch, wptr) = Distance(lastWptr, wptr)
      BY <2>1 DEF RingInv
    <3>4. QED
      BY <2>5, <2>6, <3>1, <3>2, <3>3
  <2>10. (\A s \in Slots : Distance(s, wptr) \in 1 .. (kicked - Len(ran)) =>
                           ring[s] = kicked + 1 - Distance(s, wptr))'
    <3> SUFFICES ASSUME NEW s \in Slots, Distance(s, wptr) \in 1 .. (kicked - (Len(ran) + 1))
                 PROVE  ring[s] = kicked + 1 - Distance(s, wptr)
      BY <2>1, <2>3 DEF Distance
    <3>1. Distance(s, wptr) \in 1 .. (kicked - Len(ran))
      BY <1>0
    <3>2. QED
      BY <3>1 DEF RingInv
  <2>11. (\A h \in Guests : at[h] = "kick" =>
                            kicked < head /\ Room /\ ring[wptr] = kicked + 1)'
    BY <2>1 DEF RingInv, Room, Next1
  <2>12. QED
    BY <2>7, <2>8, <2>9, <2>10, <2>11 DEF RingInv
<1>5. CASE Publish
  <2>1. /\ pumpAt = "exec" /\ pumpAt' = "vblank" /\ cursor = batch
        /\ rptr' = batch /\ lastWptr' = batch
        /\ UNCHANGED <<ring, wptr, kicked, ran, head, at>>
    BY <1>5 DEF Publish
  <2>2. (kicked <= head)' /\ (rptr = lastWptr)'
    BY <2>1 DEF RingInv
  <2>3. (Distance(Position, wptr) = kicked - Len(ran))'
    BY <2>1 DEF RingInv, Distance, Position
  <2>4. (\A s \in Slots : Distance(s, wptr) \in 1 .. (kicked - Len(ran)) =>
                          ring[s] = kicked + 1 - Distance(s, wptr))'
    BY <2>1 DEF RingInv, Distance
  <2>5. (\A h \in Guests : at[h] = "kick" =>
                           kicked < head /\ Room /\ ring[wptr] = kicked + 1)'
    <3>1. owner = Pump
      BY <2>1 DEF OwnerInv
    <3>2. \A h \in Guests : at[h] # "kick"
      BY <3>1, PumpAssumption DEF OwnerInv
    <3>3. QED
      BY <2>1, <3>2
  <2>6. QED
    BY <2>1, <2>2, <2>3, <2>4, <2>5 DEF RingInv
<1>6. QED
  BY <1>1, <1>2, <1>3, <1>4, <1>5 DEF PumpStep

\* So does a callback that kicks.
LEMMA RingCallbackStep ==
  ASSUME TypeOK, OwnerInv, RingInv, CallbackKicks
  PROVE  RingInv'
<1>1. owner = Pump
  BY DEF CallbackKicks, OwnerInv
<1>2. \A g \in Guests : at[g] # "kick"
  BY <1>1, PumpAssumption DEF OwnerInv
<1>3. QED
  BY <1>2, WptrMoves DEF CallbackKicks, titleVars, pumpVars

\* The ring holds what was kicked and did not run.
THEOREM RingCorrect == Spec => []RingInv
<1>1. Init => RingInv
  <2> SUFFICES ASSUME Init PROVE RingInv
    OBVIOUS
  <2>1. /\ kicked <= head /\ rptr = lastWptr /\ kicked - Len(ran) = 0
        /\ Distance(Position, wptr) = 0
    <3>1. kicked = 0 /\ head = 0 /\ rptr = 0 /\ lastWptr = 0 /\ wptr = 0 /\ pumpAt = "off"
      BY DEF Init
    <3>2. Len(ran) = 0
      BY DEF Init
    <3>3. Distance(Position, wptr) = 0
      BY <3>1 DEF Position, Distance
    <3>4. QED
      BY <3>1, <3>2, <3>3
  <2>2. pumpAt = "off" /\ \A g \in Guests : at[g] # "kick"
    BY DEF Init
  <2>3. \A s \in Slots : Distance(s, wptr) \notin 1 .. (kicked - Len(ran))
    BY <2>1
  <2>4. QED
    BY <2>1, <2>2, <2>3 DEF RingInv
<1>2. TypeOK /\ OwnerInv /\ RingInv /\ [Next]_vars => RingInv'
  <2> SUFFICES ASSUME TypeOK, OwnerInv, RingInv, [Next]_vars PROVE RingInv'
    OBVIOUS
  <2>1. CASE UNCHANGED vars
    <3>1. UNCHANGED <<ringState, head, at, pumpAt>>
      BY <2>1 DEF vars, ringState, titleVars, pumpVars, ringVars
    <3>2. Position' = Position
      BY <3>1 DEF Position, ringState
    <3>3. head' \in Nat /\ head <= head'
      BY <3>1 DEF TypeOK
    <3>4. QED
      BY <3>1, <3>2, <3>3, RingKept
  <2>2. QED
    BY <2>1, RingGuestStep, RingPumpStep, RingCallbackStep DEF Next
<1>3. QED
  BY <1>1, <1>2, TypeCorrect, OwnerCorrect, PTL DEF Spec

\* Every segment runs once, in the order in which it was built, and none before
\* it was kicked.
THEOREM OrderCorrect == Spec => []RunInOrder
<1>1. Init => RunInOrder
  BY DEF Init, RunInOrder
<1>2. TypeOK /\ RingInv /\ TypeOK' /\ RingInv' /\ RunInOrder /\ [Next]_vars => RunInOrder'
  <2> SUFFICES ASSUME TypeOK, RingInv, TypeOK', RingInv', RunInOrder, [Next]_vars
               PROVE  RunInOrder'
    OBVIOUS
  <2>1. Len(ran') <= kicked'
    <3>1. Position' \in Slots
      BY DEF TypeOK, Position
    <3>2. Distance(Position', wptr') \in Nat
      BY <3>1, DistanceIsNat DEF TypeOK
    <3>3. Distance(Position', wptr') = kicked' - Len(ran')
      BY DEF RingInv, Distance
    <3>4. kicked' \in Nat /\ Len(ran') \in Nat
      BY DEF TypeOK
    <3>5. QED
      BY <3>2, <3>3, <3>4
  <2>2. CASE ExecuteSegment
    <3>1. ran' = Append(ran, Len(ran) + 1) /\ ran \in Seq(Nat)
      BY <2>2, NextSegment DEF ExecuteSegment, TypeOK
    <3>2. QED
      BY <2>1, <3>1 DEF RunInOrder
  <2>3. CASE UNCHANGED ran
    BY <2>1, <2>3 DEF RunInOrder
  <2>4. ExecuteSegment \/ UNCHANGED ran
    BY DEF Next, GuestStep, PumpStep, TakeToken, Yield, EnableWriteBack, SetCallback, Build,
           BeginKick, EndKick, SetObject, FenceWait, Forward, Reached, BackOff, Wake,
           PumpLocks, ReadWptr, InterruptReturns, Publish, VblankReturns, CompleteReturns,
           PumpUnlocks, CallbackKicks, pumpVars, vars
  <2>5. QED
    BY <2>2, <2>3, <2>4
<1>3. QED
  BY <1>1, <1>2, TypeCorrect, RingCorrect, PTL DEF Spec
------------------------------------------------------------------------------
(* The ring implements the queue of the abstract specification. *)

\* The distances of a state of the ring; the last segment to run and the space
\* given back, in terms of them.
QueueFacts ==
  /\ kicked - ((wptr - rptr) % RingSize) = kicked - Distance(rptr, wptr)
  /\ kicked \in Nat /\ Len(ran) \in Nat
  /\ Distance(rptr, wptr) \in 0 .. (RingSize - 1)

LEMMA QueueIs == TypeOK /\ RingInv => QueueFacts
<1> SUFFICES ASSUME TypeOK, RingInv PROVE QueueFacts
  OBVIOUS
<1>1. wptr \in Slots /\ rptr \in Slots /\ kicked \in Nat /\ Len(ran) \in Nat
  BY DEF TypeOK
<1>2. QED
  BY <1>1, DistanceFacts DEF QueueFacts

\* A kick is a submission: there was room, and the space that is free is one
\* slot less.
LEMMA QueueSubmits ==
  ASSUME TypeOK, RingInv, QueueFacts, QueueFacts', Room, wptr' = Next1(wptr),
         kicked' = kicked + 1, UNCHANGED <<rptr, ran>>
  PROVE  Queue!Submit
<1>1. wptr \in Slots /\ rptr \in Slots
  BY DEF TypeOK
<1>2. Distance(rptr, wptr') = Distance(rptr, wptr) + 1
  BY <1>1, DistanceFacts DEF Room
<1>3. Distance(rptr, wptr)' = Distance(rptr, wptr')
  BY DEF Distance
<1>4. Distance(rptr, wptr) < RingSize - 1
  BY <1>2, <1>3, RingAssumption DEF QueueFacts
<1>5. QED
  BY <1>2, <1>3, <1>4, RingAssumption DEF QueueFacts, Queue!Submit

\* Each step submits, runs or announces segments, or changes nothing of them.
LEMMA QueueStep ==
  ASSUME TypeOK, OwnerInv, RingInv, QueueFacts, QueueFacts', [Next]_vars
  PROVE  [Queue!Next]_(Queue!vars)
<1>1. ASSUME UNCHANGED <<kicked, wptr, rptr, ran>> PROVE UNCHANGED Queue!vars
  BY <1>1 DEF Queue!vars
<1>2. ASSUME NEW g \in Guests, EndKick(g) PROVE Queue!Submit
  <2>1. Room
    BY <1>2 DEF EndKick, RingInv
  <2>2. QED
    BY <1>2, <2>1, QueueSubmits DEF EndKick, pumpVars
<1>3. ASSUME NEW g \in Guests, GuestStep(g) PROVE Queue!Submit \/ UNCHANGED Queue!vars
  <2>1. CASE EndKick(g)
    BY <1>2, <2>1
  <2>2. CASE UNCHANGED <<kicked, wptr, rptr, ran>>
    BY <1>1, <2>2
  <2>3. QED
    BY <1>3, <2>1, <2>2
       DEF GuestStep, TakeToken, Yield, EnableWriteBack, SetCallback, Build, BeginKick,
           SetObject, FenceWait, Forward, Reached, BackOff, pumpVars, ringVars
<1>4. ASSUME ExecuteSegment PROVE Queue!Execute
  <2>1. Len(ran) < kicked /\ Len(ran') = Len(ran) + 1
    BY <1>4, NextSegment DEF ExecuteSegment, TypeOK
  <2>2. UNCHANGED <<kicked, wptr, rptr>>
    BY <1>4 DEF ExecuteSegment, ringVars
  <2>3. QED
    BY <2>1, <2>2 DEF Queue!Execute
<1>5. ASSUME Publish PROVE Queue!Announce \/ UNCHANGED Queue!vars
  <2>1. /\ pumpAt = "exec" /\ cursor = batch /\ rptr' = batch
        /\ UNCHANGED <<ring, wptr, kicked, ran>>
    BY <1>5 DEF Publish, ringVars
  <2>2. /\ wptr \in Slots /\ rptr \in Slots /\ batch \in Slots
        /\ Distance(rptr, batch) \in Nat /\ Distance(batch, wptr) \in Nat
    BY DistanceIsNat DEF TypeOK
  <2>3. /\ Distance(rptr, batch) + Distance(batch, wptr) = Distance(rptr, wptr)
        /\ Distance(batch, wptr) = kicked - Len(ran)
    BY <2>1 DEF RingInv, Position
  <2>4. Distance(rptr, wptr)' = Distance(batch, wptr)
    BY <2>1 DEF Distance
  <2>5. CASE Distance(rptr, batch) = 0
    <3>1. rptr' = rptr
      BY <2>1, <2>2, <2>5, DistanceIsNat
    <3>2. QED
      BY <1>1, <2>1, <3>1
  <2>6. CASE Distance(rptr, batch) # 0
    <3>1. kicked - Distance(batch, wptr) \in (kicked - Distance(rptr, wptr) + 1) .. Len(ran)
      BY <2>2, <2>3, <2>6 DEF QueueFacts
    <3>2. QED
      BY <2>1, <2>4, <3>1 DEF QueueFacts, Queue!Announce
  <2>7. QED
    BY <2>5, <2>6
<1>6. ASSUME PumpStep PROVE Queue!Execute \/ Queue!Announce \/ UNCHANGED Queue!vars
  <2>1. CASE ExecuteSegment \/ Publish
    BY <1>4, <1>5, <2>1
  <2>2. CASE UNCHANGED <<kicked, wptr, rptr, ran>>
    BY <1>1, <2>2
  <2>3. QED
    BY <1>6, <2>1, <2>2
       DEF PumpStep, Wake, PumpLocks, ReadWptr, InterruptReturns, VblankReturns,
           CompleteReturns, PumpUnlocks, ringVars
<1>7. ASSUME CallbackKicks PROVE Queue!Submit
  BY <1>7, QueueSubmits DEF CallbackKicks, pumpVars
<1>8. CASE UNCHANGED vars
  BY <1>1, <1>8 DEF vars, ringVars, pumpVars
<1>9. QED
  BY <1>3, <1>6, <1>7, <1>8 DEF Next, Queue!Next

\* The ring, the pump and the kicks implement the command queue: segments run
\* one by one in the order of their submission, and the space of a segment is
\* announced free only after it ran.
THEOREM RingIsQueue == Spec => ImplementsQueue
<1>1. Init => Queue!Init
  <2> SUFFICES ASSUME Init PROVE Queue!Init
    OBVIOUS
  <2>1. kicked = 0 /\ wptr = 0 /\ rptr = 0 /\ Len(ran) = 0 /\ 0 \in Slots
    BY RingAssumption DEF Init, Slots
  <2>2. (wptr - rptr) % RingSize = 0
    BY <2>1, DistanceFacts DEF Distance
  <2>3. QED
    BY <2>1, <2>2 DEF Queue!Init
<1>2. QED
  BY <1>1, QueueStep, QueueIs, TypeCorrect, OwnerCorrect, RingCorrect, PTL
     DEF Spec, ImplementsQueue, Queue!Spec
==============================================================================
