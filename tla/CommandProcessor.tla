--------------------------- MODULE CommandProcessor ---------------------------
(***************************************************************************)
(* The GPU command processor of the from-scratch runtime: the ring buffer, *)
(* the vblank pump that executes it (VblankPump, ExecuteRing), completion  *)
(* fences (EVENT_WRITE_SHD) and graphics interrupts (FireGfxInterrupt),    *)
(* against guest threads that build command segments, kick them into the   *)
(* ring and wait for fences (kernel.cpp 1300-2376, 3126, 3207, 4041-4066). *)
(*                                                                         *)
(* Segments are numbered 1, 2, ... in the order they are built; segment n  *)
(* ends with a write of n to the fence, and one ring slot stands for the   *)
(* INDIRECT_BUFFER packet of one segment.  The register writes, draws and  *)
(* swaps of a segment have no effect on this state.                        *)
(***************************************************************************)
EXTENDS Integers, Sequences

CONSTANTS Guests,        \* guest threads that submit
          Pump,          \* the vblank pump
          None,
          NoToken,       \* REX_NOTOKEN: g_gpuMutex instead of the run token
          RingSize,      \* slots of the ring
          Interrupting,  \* the segments that carry a PM4_INTERRUPT
          MaxSegments    \* model bound on the segments built

ASSUME PumpAssumption == Pump \notin Guests /\ None \notin Guests \union {Pump}
ASSUME RingAssumption == RingSize \in Nat /\ RingSize > 1
ASSUME BoundAssumption == MaxSegments \in Nat /\ Interrupting \subseteq Nat
ASSUME ModeAssumption == NoToken \in BOOLEAN

Slots == 0 .. (RingSize - 1)

VARIABLES
  callback,   \* g_interruptCallback is registered
  running,    \* g_vblankRunning, and with it g_rptrWriteBack
  ring,       \* slot -> segment
  wptr, rptr, \* CP_RB_WPTR; CP_RB_RPTR and its write-back
  head,       \* device+10908: the last segment built
  kicked,     \* the last segment in the ring
  fence,      \* *(device+10896)
  object,     \* *(device+10900) is an object, not the sentinel 0xFFFFFFFF
  owner,      \* who holds the run token (REX_NOTOKEN: g_gpuMutex)
  at,         \* where each guest thread is
  target,     \* the fence a thread waits for
  pumpAt,     \* where the pump is
  lastWptr, cursor, batch,  \* the pump's lastWptr, ring position and wptr
  consumed,   \* the pump's local `consumed`
  ran         \* the segments executed so far, in order

titleVars == <<head, at, target>>
pumpVars  == <<pumpAt, lastWptr, cursor, batch, consumed, ran>>
ringVars  == <<ring, wptr, kicked>>
setupVars == <<callback, running>>
vars == <<titleVars, pumpVars, ringVars, setupVars, rptr, fence, object, owner>>

\* "out"   waits for the token     "run"     in guest code
\* "kick"  in sub_821C6600, the packet is written, CP_RB_WPTR is not
\* "forward" in sub_821C6E58, about to advance the fence
\* "wait"  in its loop, looks at the fence   "spin" backs off in sub_821B9270
GuestPCs == {"out", "run", "kick", "forward", "wait", "spin"}

\* "off" not started   "sleep"  its 16 ms, then a look at the callback
\* "lock" takes the token or g_gpuMutex     "read" about to read CP_RB_WPTR
\* "exec" in ExecuteRing                    "unlock" about to release it
\* "irq", "vblank", "complete"  in the guest's callback: for PM4_INTERRUPT, with
\* source 0, with source 1
PumpPCs == {"off", "sleep", "lock", "read", "exec", "irq", "vblank", "complete",
            "unlock"}

Init ==
  /\ callback = FALSE /\ running = FALSE
  /\ ring = [s \in Slots |-> 0]
  /\ wptr = 0 /\ rptr = 0
  /\ head = 0 /\ kicked = 0 /\ fence = 0
  /\ object = FALSE
  /\ owner = None
  /\ at = [g \in Guests |-> IF NoToken THEN "run" ELSE "out"]
  /\ target = [g \in Guests |-> 0]
  /\ pumpAt = "off"
  /\ lastWptr = 0 /\ cursor = 0 /\ batch = 0
  /\ consumed = FALSE
  /\ ran = <<>>
------------------------------------------------------------------------------
(* Guest threads *)

\* Guest code runs with the token, or whenever it likes.
Runs(g) == at[g] = "run" /\ (NoToken \/ owner = g)

\* LockGuestExecution.
TakeToken(g) ==
  /\ ~NoToken /\ owner = None /\ at[g] \in {"out", "spin"}
  /\ owner' = g
  /\ at' = [at EXCEPT ![g] = IF @ = "spin" THEN "wait" ELSE "run"]
  /\ UNCHANGED <<head, target, pumpVars, ringVars, setupVars, rptr, fence, object>>

\* Any call that gives the token up.
Yield(g) ==
  /\ ~NoToken /\ Runs(g)
  /\ owner' = None
  /\ at' = [at EXCEPT ![g] = "out"]
  /\ UNCHANGED <<head, target, pumpVars, ringVars, setupVars, rptr, fence, object>>

\* VdEnableRingBufferRPtrWriteBack, which starts the pump the first time, and
\* after it VdSetGraphicsInterruptCallback.
EnableWriteBack(g) ==
  /\ Runs(g) /\ ~running
  /\ running' = TRUE
  /\ pumpAt' = "sleep"
  /\ UNCHANGED <<titleVars, lastWptr, cursor, batch, consumed, ran, ringVars, callback,
                 rptr, fence, object, owner>>

SetCallback(g) ==
  /\ Runs(g) /\ running /\ ~callback
  /\ callback' = TRUE
  /\ UNCHANGED <<titleVars, pumpVars, ringVars, running, rptr, fence, object, owner>>

\* The title builds a segment (sub_821C6A08 advances device+10908).
Build(g) ==
  /\ Runs(g) /\ head < MaxSegments
  /\ head' = head + 1
  /\ UNCHANGED <<at, target, pumpVars, ringVars, setupVars, rptr, fence, object, owner>>

Next1(slot) == (slot + 1) % RingSize

\* The title keeps one slot of the ring free, by the write-back it reads.
Room == Next1(wptr) # rptr

\* sub_821C6600 takes GpuLock (REX_NOTOKEN) and writes the packet of the oldest
\* segment that was not kicked ...
BeginKick(g) ==
  /\ Runs(g) /\ kicked < head /\ Room
  /\ NoToken => owner = None
  /\ owner' = g
  /\ ring' = [ring EXCEPT ![wptr] = kicked + 1]
  /\ at' = [at EXCEPT ![g] = "kick"]
  /\ UNCHANGED <<head, target, pumpVars, wptr, kicked, setupVars, rptr, fence, object>>

\* ... then CP_RB_WPTR.
EndKick(g) ==
  /\ at[g] = "kick"
  /\ wptr' = Next1(wptr)
  /\ kicked' = kicked + 1
  /\ at' = [at EXCEPT ![g] = "run"]
  /\ owner' = IF NoToken THEN None ELSE owner
  /\ UNCHANGED <<head, target, pumpVars, ring, setupVars, rptr, fence, object>>

\* Mutation: sub_821C73D8 without GpuLock.
SetObject_Unlocked(g, active) ==
  /\ Runs(g)
  /\ object' = active
  /\ UNCHANGED <<titleVars, pumpVars, ringVars, setupVars, rptr, fence, owner>>

\* sub_821C73D8 writes device+10900 under GpuLock: the completion object of a
\* submission, or the sentinel between submissions.
SetObject(g, active) ==
  /\ Runs(g)
  /\ NoToken => owner = None
  /\ object' = active
  /\ UNCHANGED <<titleVars, pumpVars, ringVars, setupVars, rptr, fence, owner>>

\* The hook of sub_821C6E58 finds a wait for an older segment (target # head)
\* that has not been reached.  For the newest one the title's own gate flushes:
\* it is in the ring by then.
FenceWait(g, n) ==
  /\ Runs(g) /\ n \in 1 .. head
  /\ n = head => kicked = head
  /\ target' = [target EXCEPT ![g] = n]
  /\ at' = [at EXCEPT ![g] = IF n # head /\ n > fence THEN "forward" ELSE "wait"]
  /\ UNCHANGED <<head, pumpVars, ringVars, setupVars, rptr, fence, object, owner>>

\* Mutation: no forwarding.
Forward_Not(g) ==
  /\ at[g] = "forward"
  /\ at' = [at EXCEPT ![g] = "wait"]
  /\ UNCHANGED <<head, target, pumpVars, ringVars, setupVars, rptr, object, owner, fence>>

\* It advances the fence to the target: under the token, or under no lock.
Forward(g) ==
  /\ at[g] = "forward"
  /\ fence' = target[g]
  /\ at' = [at EXCEPT ![g] = "wait"]
  /\ UNCHANGED <<head, target, pumpVars, ringVars, setupVars, rptr, object, owner>>

\* while (fence < target) sub_821B9270();
Reached(g) ==
  /\ at[g] = "wait" /\ fence >= target[g]
  /\ at' = [at EXCEPT ![g] = "run"]
  /\ UNCHANGED <<head, target, pumpVars, ringVars, setupVars, rptr, fence, object, owner>>

\* Mutation: the back-off keeps the token.
BackOff_Keeps(g) ==
  /\ ~NoToken /\ at[g] = "wait" /\ fence < target[g]
  /\ UNCHANGED vars

\* The hook of sub_821B9270 gives the token up for the back-off.
BackOff(g) ==
  /\ ~NoToken /\ at[g] = "wait" /\ fence < target[g]
  /\ owner' = None
  /\ at' = [at EXCEPT ![g] = "spin"]
  /\ UNCHANGED <<head, target, pumpVars, ringVars, setupVars, rptr, fence, object>>

------------------------------------------------------------------------------
(* The pump *)

\* One round of VblankPump begins when a callback is registered; the token or
\* g_gpuMutex is taken for the round.
Wake ==
  /\ pumpAt = "sleep" /\ callback
  /\ pumpAt' = "lock"
  /\ UNCHANGED <<titleVars, lastWptr, cursor, batch, consumed, ran, ringVars, setupVars,
                 rptr, fence, object, owner>>

PumpLocks ==
  /\ pumpAt = "lock" /\ owner = None
  /\ owner' = Pump
  /\ pumpAt' = "read"
  /\ UNCHANGED <<titleVars, lastWptr, cursor, batch, consumed, ran, ringVars, setupVars,
                 rptr, fence, object>>

\* Mutation: the read index is stored when the batch is taken, not when it ran.
ReadWptr_Publishes ==
  /\ pumpAt = "read"
  /\ batch' = wptr
  /\ cursor' = lastWptr
  /\ consumed' = (wptr # lastWptr)
  /\ rptr' = wptr
  /\ pumpAt' = IF wptr # lastWptr THEN "exec" ELSE "vblank"
  /\ UNCHANGED <<titleVars, lastWptr, ran, ringVars, setupVars, fence, object, owner>>

\* CP_RB_WPTR is read once per round.
ReadWptr ==
  /\ pumpAt = "read"
  /\ batch' = wptr
  /\ cursor' = lastWptr
  /\ consumed' = (wptr # lastWptr)
  /\ pumpAt' = IF wptr # lastWptr THEN "exec" ELSE "vblank"
  /\ UNCHANGED <<titleVars, lastWptr, ran, ringVars, setupVars, rptr, fence, object, owner>>

\* ExecuteRing walks from lastWptr to the write index, past the end of the ring.
Behind(slot) == Next1(slot)

\* FireGfxInterrupt skips source 1 while there is no completion object.
HasObject == object

\* ExecutePM4 runs the next segment: its EVENT_WRITE_SHD, and the callback for
\* its PM4_INTERRUPT.
ExecuteSegment ==
  /\ pumpAt = "exec" /\ cursor # batch
  /\ fence' = ring[cursor]
  /\ ran' = Append(ran, ring[cursor])
  /\ cursor' = Behind(cursor)
  /\ pumpAt' = IF ring[cursor] \in Interrupting /\ HasObject THEN "irq" ELSE "exec"
  /\ UNCHANGED <<titleVars, lastWptr, batch, consumed, ringVars, setupVars, rptr,
                 object, owner>>

\* The callback returns.
InterruptReturns ==
  /\ pumpAt = "irq"
  /\ pumpAt' = "exec"
  /\ UNCHANGED <<titleVars, lastWptr, cursor, batch, consumed, ran, ringVars, setupVars,
                 rptr, fence, object, owner>>

\* The callback is guest code and may kick: the lock is recursive and the token
\* is the pump's already.
CallbackKicks ==
  /\ pumpAt \in {"irq", "vblank", "complete"} /\ kicked < head /\ Room
  /\ ring' = [ring EXCEPT ![wptr] = kicked + 1]
  /\ wptr' = Next1(wptr)
  /\ kicked' = kicked + 1
  /\ UNCHANGED <<titleVars, pumpVars, setupVars, rptr, fence, object, owner>>

\* Mutation: lastWptr is read again, after the batch.
Publish_Rereads ==
  /\ pumpAt = "exec" /\ cursor = batch
  /\ rptr' = wptr
  /\ lastWptr' = wptr
  /\ pumpAt' = "vblank"
  /\ UNCHANGED <<titleVars, cursor, batch, consumed, ran, ringVars, setupVars, fence,
                 object, owner>>

\* The read index is stored where the title looks for it, then the vblank
\* interrupt (source 0) is fired.
Publish ==
  /\ pumpAt = "exec" /\ cursor = batch
  /\ rptr' = batch
  /\ lastWptr' = batch
  /\ pumpAt' = "vblank"
  /\ UNCHANGED <<titleVars, cursor, batch, consumed, ran, ringVars, setupVars, fence,
                 object, owner>>

\* After it the command-buffer-complete interrupt (source 1), if a batch ran.
VblankReturns ==
  /\ pumpAt = "vblank"
  /\ pumpAt' = IF consumed /\ HasObject THEN "complete" ELSE "unlock"
  /\ UNCHANGED <<titleVars, lastWptr, cursor, batch, consumed, ran, ringVars, setupVars,
                 rptr, fence, object, owner>>

CompleteReturns ==
  /\ pumpAt = "complete"
  /\ pumpAt' = "unlock"
  /\ UNCHANGED <<titleVars, lastWptr, cursor, batch, consumed, ran, ringVars, setupVars,
                 rptr, fence, object, owner>>

PumpUnlocks ==
  /\ pumpAt = "unlock"
  /\ owner' = None
  /\ pumpAt' = "sleep"
  /\ UNCHANGED <<titleVars, lastWptr, cursor, batch, consumed, ran, ringVars, setupVars,
                 rptr, fence, object>>

------------------------------------------------------------------------------
GuestStep(g) ==
  \/ TakeToken(g) \/ Yield(g)
  \/ EnableWriteBack(g) \/ SetCallback(g)
  \/ Build(g) \/ BeginKick(g) \/ EndKick(g)
  \/ \E active \in BOOLEAN : SetObject(g, active)
  \/ \E n \in 1 .. MaxSegments : FenceWait(g, n)
  \/ Forward(g) \/ Reached(g) \/ BackOff(g)

PumpStep ==
  \/ Wake \/ PumpLocks \/ ReadWptr \/ ExecuteSegment \/ InterruptReturns
  \/ Publish \/ VblankReturns \/ CompleteReturns \/ PumpUnlocks

Next == PumpStep \/ CallbackKicks \/ \E g \in Guests : GuestStep(g)

Spec == Init /\ [][Next]_vars

\* Fairness.  The pump and a call that was entered go on; callbacks return.  The
\* token comes round: a back-off leaves it for a millisecond, and guest code
\* gives it up again and again.
Fairness ==
  /\ WF_vars(Wake) /\ SF_vars(PumpLocks)
  /\ WF_vars(ReadWptr) /\ WF_vars(ExecuteSegment) /\ WF_vars(InterruptReturns)
  /\ WF_vars(Publish) /\ WF_vars(VblankReturns) /\ WF_vars(CompleteReturns)
  /\ WF_vars(PumpUnlocks)
  /\ \A g \in Guests : /\ SF_vars(TakeToken(g)) /\ SF_vars(Yield(g))
                       /\ WF_vars(EndKick(g)) /\ WF_vars(Forward(g))
                       /\ WF_vars(Reached(g)) /\ WF_vars(BackOff(g))

FairSpec == Spec /\ Fairness
------------------------------------------------------------------------------
(* Properties *)

TypeOK ==
  /\ callback \in BOOLEAN /\ running \in BOOLEAN /\ object \in BOOLEAN
  /\ ring \in [Slots -> Nat]
  /\ wptr \in Slots /\ rptr \in Slots
  /\ head \in Nat /\ kicked \in Nat /\ fence \in Nat
  /\ owner \in Guests \union {Pump, None}
  /\ at \in [Guests -> GuestPCs]
  /\ target \in [Guests -> Nat]
  /\ pumpAt \in PumpPCs
  /\ lastWptr \in Slots /\ cursor \in Slots /\ batch \in Slots
  /\ consumed \in BOOLEAN
  /\ ran \in Seq(Nat)

\* The token, or g_gpuMutex, belongs to whoever is where it is needed, and the
\* pump exists once it was started.
OwnerInv ==
  /\ pumpAt # "off" => running
  /\ owner = Pump <=> pumpAt \in {"read", "exec", "irq", "vblank", "complete", "unlock"}
  /\ \A g \in Guests : owner = g <=> at[g] \in IF NoToken THEN {"kick"}
                                                ELSE {"run", "kick", "forward", "wait"}

\* Every segment runs once, in the order it was built, whatever the ring's wrap,
\* the kicks of callbacks and the guest threads do (ExecuteRing, sub_821C6600).
RunInOrder ==
  /\ Len(ran) <= kicked
  /\ \A i \in 1 .. Len(ran) : ran[i] = i

\* The slots from a to b, with the wrap.
Distance(a, b) == IF a <= b THEN b - a ELSE b - a + RingSize

\* The slot of the next segment to run.
Position == IF pumpAt \in {"exec", "irq"} THEN cursor ELSE lastWptr

\* The ring between the pump and the writers, whatever its wrap: the slots from
\* the next segment to CP_RB_WPTR hold exactly the segments that were kicked and
\* did not run, in order; the batch of a round ends between the two; and a kick
\* that has begun has written a slot the title may write.
RingInv ==
  /\ kicked <= head
  /\ rptr = lastWptr
  /\ Distance(Position, wptr) = kicked - Len(ran)
  /\ pumpAt \in {"exec", "irq"} =>
       /\ Distance(lastWptr, cursor) + Distance(cursor, batch) = Distance(lastWptr, batch)
       /\ Distance(lastWptr, batch) + Distance(batch, wptr) = Distance(lastWptr, wptr)
  /\ \A s \in Slots : Distance(s, wptr) \in 1 .. (kicked - Len(ran)) =>
                        ring[s] = kicked + 1 - Distance(s, wptr)
  /\ \A g \in Guests : at[g] = "kick" =>
                         kicked < head /\ Room /\ ring[wptr] = kicked + 1

\* The guest's handler for source 1 dereferences the completion object: the
\* sentinel must never be there while it runs (FireGfxInterrupt: "a wild deref
\* of 0xFFFFFFFF"; GpuLock: "the pump never reads device+10900 while the guest
\* is writing it").
NoWildCompletion == pumpAt \in {"irq", "complete"} => object

\* The pump gets to every segment that was kicked.
EveryKickRuns ==
  \A n \in 1 .. MaxSegments : (callback /\ kicked >= n) ~> Len(ran) >= n

\* A wait for a fence ends ("so the wait succeeds on the normal path").
FenceWaitEnds == \A g \in Guests : (callback /\ at[g] = "wait") ~> at[g] = "run"

\* Ring space is announced free after its segment ran, so a kick overwrites
\* nothing that is still to run.
Queue == INSTANCE CommandQueue WITH
  Capacity  <- RingSize - 1,
  submitted <- kicked,
  executed  <- Len(ran),
  announced <- kicked - ((wptr - rptr) % RingSize)

ImplementsQueue == Queue!Spec
==============================================================================
