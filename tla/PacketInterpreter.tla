-------------------------- MODULE PacketInterpreter --------------------------
(***************************************************************************)
(* The PM4 interpreter (kernel.cpp 1396-2163): ExecuteRing and ExecutePM4  *)
(* walk the words of the ring and of indirect buffers, ExecuteType3        *)
(* carries out a packet.  It has two callers: the vblank pump executes     *)
(* what the title put into the ring, and VdSwap executes the segments of   *)
(* the device directory again to carve their draws (REX_EXECSEGS).         *)
(*                                                                         *)
(* Memory is a function from word addresses to words.  A header is a       *)
(* record with the fields the interpreter takes out of it, a data word a   *)
(* number.  Addresses below RingSize are the ring's, where <<i, k>> stands *)
(* for word k of Menu[i] and <<0, 0>> for zero.                            *)
(***************************************************************************)
EXTENDS Integers, Sequences

CONSTANTS Pump, Swap,   \* the two threads
          None,
          Locked,       \* run token; FALSE: REX_NOTOKEN, VdSwap takes no lock
          RingSize,     \* words of the ring
          Static,       \* the words outside the ring
          Menu,         \* what the title submits: the words, what they command
          Directory,    \* the words of the directory at device+13568
          Regs,         \* the registers that matter
          Fences,       \* the words that fences are written to
          Slots,        \* the fetch slots in use, of 0 .. 95
          Text,         \* vertex buffer -> the text block it draws
          Key,          \* text block -> what of it the content key hashes
          Modes,        \* REX_MENUTEX, REX_TEXTGLYPH, REX_PANELS
          MaxDepth,     \* 8
          MaxSegment,   \* 0x8000
          Cap,          \* 60000 and 120000 floats, in blocks
          MaxSubmits, MaxFrames   \* model bounds

ASSUME PacketAssumption ==
  /\ Pump # Swap /\ None \notin {Pump, Swap} /\ Locked \in BOOLEAN
  /\ RingSize \in Nat \ {0} /\ MaxDepth \in Nat \ {0} /\ Cap \in Nat
  /\ Regs \subseteq Nat /\ Slots \subseteq 0 .. 95
  /\ Modes \subseteq {"flat", "backdrop", "glyph", "panels"}
  /\ DOMAIN Menu \subseteq Nat \ {0} /\ Len(Directory) \in Nat

VARIABLES
  mode,
  ring, wptr, rptr,   \* the ring; CP_RB_WPTR; CP_RB_RPTR and its write-back
  built,              \* words of the directory written: device+13572
  lastWptr, batch,    \* VblankPump's lastWptr and wptr
  swapAt, cursor,     \* VdSwap: its step; its position in the directory
  owner,              \* who holds the run token
  stack,              \* the calls of ExecutePM4 in progress, innermost first
  regs, mem, counter, draws, irqs,
  flat, tex, seen,    \* tl_esVerts, tl_esTexVerts, tl_textSeen
  shown,              \* what SubmitMenuGeometry and SubmitTexturedGeometry got
  todo,               \* history: the commands submitted and not carried out
  submits, frames     \* how often the title submitted and swapped

effects == <<regs, mem, counter, draws, irqs, flat, tex, seen>>
titleVars == <<ring, wptr, built, submits>>
pumpVars == <<rptr, lastWptr, batch>>
swapVars == <<swapAt, cursor, shown, frames>>
vars == <<mode, titleVars, pumpVars, swapVars, owner, stack, effects, todo>>

Executors == {Pump, Swap}

\* XE_GPU_REG_VGT_EVENT_INITIATOR and the areas of the constants.
Initiator == 8697
FetchArea == 18432

Zero == [type |-> "zero"]
Load(a) == IF a >= RingSize THEN Static[a]
           ELSE IF ring[a] = <<0, 0>> THEN Zero
           ELSE Menu[ring[a][1]].words[ring[a][2]]

Init ==
  /\ mode \in Modes
  /\ ring = [a \in 0 .. (RingSize - 1) |-> <<0, 0>>]
  /\ wptr = 0 /\ rptr = 0 /\ built = 0
  /\ lastWptr = 0 /\ batch = 0
  /\ swapAt = "out" /\ cursor = 0
  /\ owner = None
  /\ stack = [e \in Executors |-> <<>>]
  /\ regs = [r \in Regs |-> 0] /\ mem = [a \in Fences |-> 0]
  /\ counter = 0 /\ draws = 0 /\ irqs = [n \in 0 .. 5 |-> 0]
  /\ flat = <<>> /\ tex = <<>> /\ seen = {}
  /\ shown = << <<>>, <<>> >>
  /\ todo = [e \in Executors |-> <<>>]
  /\ submits = 0 /\ frames = 0
-----------------------------------------------------------------------------
(* The title                                                                *)

\* It pads the ring with zeros so that no packet crosses its end, and leaves a
\* word free, so that a full ring is not an empty one.
Submit(i) ==
  LET n    == Len(Menu[i].words)
      pad  == IF wptr + n > RingSize THEN RingSize - wptr ELSE 0
      at   == (wptr + pad) % RingSize
  IN /\ submits < MaxSubmits
     /\ ((wptr - rptr) % RingSize) + pad + n < RingSize
     /\ ring' = [a \in DOMAIN ring |->
                   IF a \in at .. (at + n - 1) THEN <<i, a - at + 1>>
                   ELSE IF pad > 0 /\ a >= wptr THEN <<0, 0>> ELSE ring[a]]
     /\ wptr' = (at + n) % RingSize
     /\ submits' = submits + 1
     /\ todo' = [todo EXCEPT ![Pump] = @ \o Menu[i].commands]
     /\ UNCHANGED <<mode, built, pumpVars, swapVars, owner, stack, effects>>

\* The title records one more word pair in the directory.
Record ==
  /\ swapAt = "out" /\ built < Len(Directory)
  /\ built' = built + 1
  /\ UNCHANGED <<mode, ring, wptr, submits, pumpVars, swapVars, owner, stack,
                 effects, todo>>
-----------------------------------------------------------------------------
(* Packets                                                                  *)

\* The executor of a step runs, and has the words of its innermost call.
Running(e) == stack[e] # <<>>
Top(e) == Head(stack[e])
Packet(e) == Load(Top(e).at)
Datum(e, i) == Load(Top(e).at + 1 + i)       \* GLD32(addr + 4 * i) behind it
More(e) == Top(e).at + 1 <= Top(e).end

\* `addr` moves over the header and n words.
Advanced(e, n) ==
  [stack EXCEPT ![e] = <<[Top(e) EXCEPT !.at = @ + 1 + n]>> \o Tail(@)]

\* ExecutePM4(at, words, depth), from the calls in `rest`.
Call(at, words, depth, rest) ==
  IF depth > MaxDepth THEN rest
  ELSE <<[at |-> at, end |-> at + words, depth |-> depth]>> \o rest

\* A packet with an effect is the next command of its stream.
Carried(e) == todo' = [todo EXCEPT ![e] = SubSeq(@, 2, Len(@))]

Quiet(e) == UNCHANGED <<mode, titleVars, pumpVars, swapVars, owner>>

\* WriteGpuReg, for several registers.
Written(first, values) ==
  [r \in Regs |-> IF r - first \in 0 .. (Len(values) - 1)
                  THEN values[r - first + 1] ELSE regs[r]]

\* A zero word or a type-2 packet.
Skip(e) ==
  /\ Running(e) /\ More(e) /\ Packet(e).type \in {"zero", "T2"}
  /\ stack' = Advanced(e, 0)
  /\ Quiet(e) /\ UNCHANGED <<effects, todo>>

\* Type 0 stops at the end of the buffer, and may write one register repeatedly.
Type0(e) ==
  /\ Running(e) /\ More(e) /\ Packet(e).type = "T0"
  /\ LET left == Top(e).end - Top(e).at - 1
         n == IF Packet(e).count < left THEN Packet(e).count ELSE left
         values == [i \in 1 .. n |-> Datum(e, i - 1)]
     IN /\ regs' = IF Packet(e).one /\ n > 0
                   THEN Written(Packet(e).base, <<values[n]>>)
                   ELSE Written(Packet(e).base, values)
        /\ stack' = Advanced(e, n)
  /\ Carried(e) /\ Quiet(e)
  /\ UNCHANGED <<mem, counter, draws, irqs, flat, tex, seen>>

Type1(e) ==
  /\ Running(e) /\ More(e) /\ Packet(e).type = "T1"
  /\ regs' = [r \in Regs |-> IF r = Packet(e).second THEN Datum(e, 1)
                             ELSE IF r = Packet(e).first THEN Datum(e, 0)
                             ELSE regs[r]]
  /\ stack' = Advanced(e, 2)
  /\ Carried(e) /\ Quiet(e)
  /\ UNCHANGED <<mem, counter, draws, irqs, flat, tex, seen>>

Type3(e, ops) ==
  /\ Running(e) /\ More(e) /\ Packet(e).type = "T3" /\ Packet(e).op \in ops

\* INDIRECT_BUFFER and INDIRECT_BUFFER_PFD: the caller goes on behind the packet.
IndirectBuffer(e) ==
  /\ Type3(e, {"IB", "IB_PFD"})
  /\ stack' = [stack EXCEPT ![e] =
                 Call(Datum(e, 0), Datum(e, 1), Top(e).depth + 1,
                      Advanced(e, Packet(e).count)[e])]
  /\ Quiet(e) /\ UNCHANGED <<effects, todo>>

Bit(mask, n) == (mask \div <<1, 2, 4, 8, 16, 32>>[n + 1]) % 2

\* PM4_INTERRUPT: FireGfxInterrupt for each processor of the mask.
Interrupt(e) ==
  /\ Type3(e, {"INTERRUPT"})
  /\ irqs' = [n \in 0 .. 5 |-> irqs[n] + Bit(Datum(e, 0), n)]
  /\ stack' = Advanced(e, Packet(e).count)
  /\ Carried(e) /\ Quiet(e)
  /\ UNCHANGED <<regs, mem, counter, draws, flat, tex, seen>>

\* EVENT_WRITE_SHD: its first word is the initiator with the counter flag.
EventWriteShd(e) ==
  /\ Type3(e, {"EVENT_WRITE_SHD"})
  /\ LET initiator == Datum(e, 0)
         address == Datum(e, 1) - (Datum(e, 1) % 4)
     IN /\ regs' = Written(Initiator, <<initiator.event % 64>>)
        /\ mem' = [mem EXCEPT ![address] =
                     IF initiator.counter THEN counter ELSE Datum(e, 2)]
  /\ stack' = Advanced(e, Packet(e).count)
  /\ Carried(e) /\ Quiet(e)
  /\ UNCHANGED <<counter, draws, irqs, flat, tex, seen>>

\* EVENT_WRITE and EVENT_WRITE_EXT.
EventWrite(e) ==
  /\ Type3(e, {"EVENT_WRITE", "EVENT_WRITE_EXT"})
  /\ regs' = Written(Initiator, <<Datum(e, 0).event % 64>>)
  /\ stack' = Advanced(e, Packet(e).count)
  /\ Carried(e) /\ Quiet(e)
  /\ UNCHANGED <<mem, counter, draws, irqs, flat, tex, seen>>

\* The areas of SET_CONSTANT: ALU, fetch, boolean, loop, registers.
Area == <<16384, FetchArea, 18688, 18696, 8192>>

\* SET_CONSTANT, whose first word is the type and the index in its area, and
\* SET_CONSTANT2, whose first word is the register.
SetConstant(e) ==
  /\ Type3(e, {"SET_CONSTANT", "SET_CONSTANT2"})
  /\ LET target == Datum(e, 0)
         values == [i \in 1 .. (Packet(e).count - 1) |-> Datum(e, i)]
     IN regs' = IF Packet(e).op = "SET_CONSTANT2" THEN Written(target, values)
                ELSE IF target.type \notin 0 .. 4 THEN regs
                ELSE Written(Area[target.type + 1] + target.index, values)
  /\ stack' = Advanced(e, Packet(e).count)
  /\ Carried(e) /\ Quiet(e)
  /\ UNCHANGED <<mem, counter, draws, irqs, flat, tex, seen>>

XeSwap(e) ==
  /\ Type3(e, {"XE_SWAP"})
  /\ counter' = counter + 1
  /\ stack' = Advanced(e, Packet(e).count)
  /\ Carried(e) /\ Quiet(e)
  /\ UNCHANGED <<regs, mem, draws, irqs, flat, tex, seen>>

\* Packets that are not modelled by the interpreter itself: WAIT_REG_MEM does not
\* wait.
Ignored(e) ==
  /\ Type3(e, {"NOP", "ME_INIT", "WAIT_REG_MEM", "IM_LOAD_IMMEDIATE"})
  /\ stack' = Advanced(e, Packet(e).count)
  /\ Quiet(e) /\ UNCHANGED <<effects, todo>>
-----------------------------------------------------------------------------
(* Draws                                                                    *)

Const(r) == IF r \in Regs THEN regs[r] ELSE 0

\* Dword i of a vertex fetch constant; its low bits are the type, 3 for vertices.
Fetch(slot, i) == Const(FetchArea + (2 * slot) + i)
IsVertex(slot) == Fetch(slot, 0) % 4 = 3
Buffer(slot) == Fetch(slot, 0) - (Fetch(slot, 0) % 4)

\* Mutation: the first slot, which an earlier draw may have left bound.
SpriteSlot_First == CHOOSE s \in Slots :
  IsVertex(s) /\ \A r \in Slots : IsVertex(r) => r >= s

\* The LAST slot with a vertex buffer.
SpriteSlot == CHOOSE s \in Slots :
  IsVertex(s) /\ \A r \in Slots : IsVertex(r) => r <= s

\* Bytes per vertex: the size of the buffer, from its constant, over the indices.
Stride(word, n) ==
  LET bytes == (word \div 4) * 4
  IN IF n > 0 /\ bytes >= n * 8 THEN bytes \div n ELSE 8

Inserted(blocks, b) == IF Len(blocks) < Cap THEN Append(blocks, b) ELSE blocks

\* A rectangle list from slot 0: plain, or textured for the backdrop.
CarveRect(n, prim) ==
  LET shows == mode \in {"flat", "backdrop"} /\ IsVertex(0) /\ prim = 8 /\ n >= 3
  IN /\ flat' = IF shows /\ mode = "flat" THEN Inserted(flat, Buffer(0)) ELSE flat
     /\ tex' = IF shows /\ mode = "backdrop" THEN Inserted(tex, Buffer(0)) ELSE tex
     /\ UNCHANGED seen

\* Strips are panels, quad lists with texture coordinates are text, of which a
\* block with the same key is carved once in a frame; others are plain quads.
CarveSprite(n, prim) ==
  LET b == Buffer(SpriteSlot)
      key == <<n, Key[Text[b]]>>
      glyphs == mode \in {"glyph", "panels"}
      text == prim = 13 /\ glyphs /\ Stride(Fetch(SpriteSlot, 1), n) >= 16
      panel == prim = 5 /\ (~glyphs \/ mode = "panels")
  IN /\ flat' = IF panel \/ (prim = 13 /\ ~text) THEN Inserted(flat, b) ELSE flat
     /\ tex' = IF text /\ key \notin seen THEN Inserted(tex, b) ELSE tex
     /\ seen' = IF text THEN seen \union {key} ELSE seen

\* DRAW_INDX keeps the initiator in its second word, DRAW_INDX_2 in its first.
\* Only VdSwap carves.
Draw(e) ==
  /\ Type3(e, {"DRAW_INDX", "DRAW_INDX_2"})
  /\ draws' = draws + 1
  /\ LET init == IF Packet(e).op = "DRAW_INDX" THEN Datum(e, 1) ELSE Datum(e, 0)
     IN IF e # Swap THEN UNCHANGED <<flat, tex, seen>>
        ELSE IF init.prim \in {5, 13} /\ init.n >= 3 /\ (\E s \in Slots : IsVertex(s))
        THEN CarveSprite(init.n, init.prim)
        ELSE CarveRect(init.n, init.prim)
  /\ stack' = Advanced(e, Packet(e).count)
  /\ Carried(e) /\ Quiet(e)
  /\ UNCHANGED <<regs, mem, counter, irqs>>

\* ExecutePM4 returns when no whole word is left.
Return(e) ==
  /\ Running(e) /\ ~More(e)
  /\ stack' = [stack EXCEPT ![e] = Tail(@)]
  /\ Quiet(e) /\ UNCHANGED <<effects, todo>>

Interpret(e) ==
  \/ Skip(e) \/ Type0(e) \/ Type1(e)
  \/ IndirectBuffer(e) \/ Interrupt(e) \/ EventWriteShd(e) \/ EventWrite(e)
  \/ SetConstant(e) \/ XeSwap(e) \/ Ignored(e) \/ Draw(e)
  \/ Return(e)
-----------------------------------------------------------------------------
(* The pump                                                                 *)

\* ExecuteRing, whose second call waits below the first when the ring wrapped.
ExecuteRing(from, to) ==
  IF to >= from THEN Call(from, to - from, 0, <<>>)
  ELSE Call(from, RingSize - from, 0, Call(0, to, 0, <<>>))

\* Mutation: a write index that has wrapped is no news.
BeginBatch_NoWrap ==
  /\ owner = None \/ ~Locked
  /\ batch = lastWptr /\ wptr > lastWptr /\ stack[Pump] = <<>>
  /\ owner' = IF Locked THEN Pump ELSE None
  /\ batch' = wptr
  /\ stack' = [stack EXCEPT ![Pump] = ExecuteRing(lastWptr, wptr)]
  /\ UNCHANGED <<mode, titleVars, rptr, lastWptr, swapVars, effects, todo>>

\* It takes the token and reads CP_RB_WPTR.
BeginBatch ==
  /\ owner = None \/ ~Locked
  /\ batch = lastWptr /\ wptr # lastWptr /\ stack[Pump] = <<>>
  /\ owner' = IF Locked THEN Pump ELSE None
  /\ batch' = wptr
  /\ stack' = [stack EXCEPT ![Pump] = ExecuteRing(lastWptr, wptr)]
  /\ UNCHANGED <<mode, titleVars, rptr, lastWptr, swapVars, effects, todo>>

\* The batch has run: the title learns the read index.
EndBatch ==
  /\ stack[Pump] = <<>> /\ batch # lastWptr
  /\ rptr' = batch /\ lastWptr' = batch
  /\ owner' = None
  /\ UNCHANGED <<mode, titleVars, batch, swapVars, stack, effects, todo>>
-----------------------------------------------------------------------------
(* VdSwap under REX_EXECSEGS                                                *)

\* A descriptor names a segment, unless its length is out of range, its address
\* is not aligned or the segment begins with a type-2 packet.
IsSegment(d) ==
  /\ d.tag /\ d.len > 0 /\ d.len < MaxSegment /\ d.aligned
  /\ Static[d.addr].type # "T2"

\* The commands of a word of the directory, and of the first n.
Listed(n) == IF IsSegment(Directory[n]) THEN Directory[n].commands ELSE <<>>

SegmentCommands[n \in 0 .. Len(Directory)] ==
  IF n = 0 THEN <<>> ELSE SegmentCommands[n - 1] \o Listed(n)

\* Mutation: tl_textSeen is not cleared with the geometry.
BeginFrame_KeepsSeen ==
  /\ swapAt = "out" /\ frames < MaxFrames /\ built > 0
  /\ owner = None \/ ~Locked
  /\ owner' = IF Locked THEN Swap ELSE owner
  /\ swapAt' = "scan" /\ cursor' = 0
  /\ flat' = <<>> /\ tex' = <<>>
  /\ todo' = [todo EXCEPT ![Swap] = SegmentCommands[built]]
  /\ UNCHANGED <<mode, titleVars, pumpVars, shown, frames, stack, regs, mem, counter,
                 draws, irqs, seen>>

\* It forgets the last frame and looks for the directory.
BeginFrame ==
  /\ swapAt = "out" /\ frames < MaxFrames /\ built > 0
  /\ owner = None \/ ~Locked
  /\ owner' = IF Locked THEN Swap ELSE owner
  /\ swapAt' = "scan" /\ cursor' = 0
  /\ flat' = <<>> /\ tex' = <<>> /\ seen' = {}
  /\ todo' = [todo EXCEPT ![Swap] = SegmentCommands[built]]
  /\ UNCHANGED <<mode, titleVars, pumpVars, shown, frames, stack, regs, mem, counter,
                 draws, irqs>>

\* The next word of the directory; a segment is executed as an indirect buffer.
Scan ==
  /\ swapAt = "scan" /\ stack[Swap] = <<>> /\ cursor < built
  /\ cursor' = cursor + 1
  /\ LET d == Directory[cursor + 1]
     IN stack' = IF IsSegment(d)
                 THEN [stack EXCEPT ![Swap] = Call(d.addr, d.len, 1, <<>>)]
                 ELSE stack
  /\ UNCHANGED <<mode, titleVars, pumpVars, swapAt, shown, frames, owner, effects,
                 todo>>

\* The renderer gets what was carved, of a kind of which there is any.
EndFrame ==
  /\ swapAt = "scan" /\ stack[Swap] = <<>> /\ cursor = built
  /\ shown' = <<IF flat = <<>> THEN shown[1] ELSE flat,
                IF tex = <<>> THEN shown[2] ELSE tex>>
  /\ swapAt' = "out" /\ frames' = frames + 1
  /\ owner' = IF Locked THEN None ELSE owner
  /\ UNCHANGED <<mode, titleVars, pumpVars, cursor, stack, effects, todo>>
-----------------------------------------------------------------------------
Next ==
  \/ \E i \in DOMAIN Menu : Submit(i)
  \/ Record
  \/ \E e \in Executors : Interpret(e)
  \/ BeginBatch \/ EndBatch
  \/ BeginFrame \/ Scan \/ EndFrame

Fairness ==
  /\ \A e \in Executors : WF_vars(Interpret(e))
  /\ WF_vars(BeginBatch \/ EndBatch)
  /\ WF_vars(Scan \/ EndFrame)

Spec == Init /\ [][Next]_vars /\ Fairness
-----------------------------------------------------------------------------
(* Properties                                                               *)

\* Packets take effect in the order in which the title wrote them, each once,
\* across the end of the ring and through indirect buffers, and a draw of a
\* segment is carved from what that segment bound (ExecuteRing, ExecutePM4).
Stream == INSTANCE PacketStream WITH
  Carver <- Swap,
  Streams <- {Menu[i].commands : i \in DOMAIN Menu}
               \union {SegmentCommands[n] : n \in 1 .. Len(Directory)}
ImplementsStream == Stream!Spec

\* What the title submitted is carried out: the pump goes on until it has seen
\* every packet, also after the write index has wrapped.
EveryPacketRuns == todo[Pump] # <<>> ~> todo[Pump] = <<>>

\* The frame handed to the renderer shows every text of the directory's segments
\* and none twice, however often the segments repeat it (tl_textSeen, lines
\* 1415-1420), as far as the accumulator has room.
IsText(c) == c.kind = "draw" /\ c.prim = 13
TextsIn(s) == {Text[s[j].from] : j \in {k \in 1 .. Len(s) : IsText(s[k])}}
Texts == TextsIn(SegmentCommands[built])

FrameKeepsEveryText ==
  (swapAt = "scan" /\ cursor = built /\ stack[Swap] = <<>>
     /\ mode \in {"glyph", "panels"})
    => /\ \A i, j \in 1 .. Len(tex) : Text[tex[i]] = Text[tex[j]] => i = j
       /\ {Text[tex[i]] : i \in 1 .. Len(tex)} = Texts \/ Len(tex) = Cap
==============================================================================
