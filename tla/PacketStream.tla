----------------------------- MODULE PacketStream -----------------------------
(***************************************************************************)
(* What the packet interpreter promises: the commands of a stream take     *)
(* effect one by one in the order in which the title wrote them, those of  *)
(* an indirect buffer where the buffer is called; a frame carves the       *)
(* geometry its own segments bound, every text once.                       *)
(***************************************************************************)
EXTENDS Naturals, Sequences

CONSTANTS Executors,  \* the threads that execute streams
          Carver,     \* the one whose draws are carved
          Streams,    \* the command sequences the title may submit
          Text,       \* vertex buffer -> the text block it draws
          Initiator,  \* the register the events are written to
          Cap         \* blocks of one kind a frame can hold

VARIABLES mode,       \* what the geometry is carved for
          todo,       \* executor -> the commands it still has to carry out
          regs,       \* the register file
          mem,        \* the fences in memory
          counter,    \* swaps executed: what a counter fence writes
          draws,      \* draws executed
          irqs,       \* processor -> PM4_INTERRUPTs delivered to it
          flat, tex,  \* the frame: plain and textured blocks carved so far
          shown       \* the last frame handed to the renderer

vars == <<mode, todo, regs, mem, counter, draws, irqs, flat, tex, shown>>
effects == <<regs, mem, counter, draws, irqs, flat, tex>>

Init ==
  /\ todo = [e \in Executors |-> <<>>]
  /\ counter = 0 /\ draws = 0 /\ irqs = [n \in 0 .. 5 |-> 0]
  /\ flat = <<>> /\ tex = <<>> /\ shown = << <<>>, <<>> >>

Put(blocks, b) == IF Len(blocks) < Cap THEN Append(blocks, b) ELSE blocks

Holds(blocks, text) == \E i \in 1 .. Len(blocks) : Text[blocks[i]] = text

Updated(upd) ==
  [r \in DOMAIN regs |-> IF r \in DOMAIN upd THEN upd[r] ELSE regs[r]]

Set(c) ==
  /\ c.kind = "set"
  /\ regs' = Updated(c.upd)
  /\ UNCHANGED <<mem, counter, draws, irqs, flat, tex>>

\* A fence gets its own value or the number of swaps before it.
Fence(c) ==
  /\ c.kind \in {"fence", "count"}
  /\ regs' = [regs EXCEPT ![Initiator] = c.event]
  /\ mem' = [mem EXCEPT ![c.addr] = IF c.kind = "fence" THEN c.value ELSE counter]
  /\ UNCHANGED <<counter, draws, irqs, flat, tex>>

Exchange(c) ==
  /\ c.kind = "swap"
  /\ counter' = counter + 1
  /\ UNCHANGED <<regs, mem, draws, irqs, flat, tex>>

Interrupt(c) ==
  /\ c.kind = "interrupt"
  /\ irqs' = [n \in 0 .. 5 |-> IF n \in c.cpus THEN irqs[n] + 1 ELSE irqs[n]]
  /\ UNCHANGED <<regs, mem, counter, draws, flat, tex>>

\* How a primitive is shown: a rectangle list is the backdrop, a strip a panel,
\* a quad list text; others are not shown.
As(prim) ==
  CASE prim = 13 -> IF mode \in {"glyph", "panels"} THEN "text" ELSE "flat"
    [] prim = 8  -> IF mode = "flat" THEN "flat"
                    ELSE IF mode = "backdrop" THEN "tex" ELSE "none"
    [] prim = 5  -> IF mode = "glyph" THEN "none" ELSE "flat"
    [] OTHER     -> "none"

\* A draw shows the buffer that the same stream bound for it; a text that the
\* frame has is not added again.
Draw(e, c) ==
  /\ c.kind = "draw"
  /\ draws' = draws + 1
  /\ LET as == IF e = Carver THEN As(c.prim) ELSE "none"
     IN /\ flat' = IF as = "flat" THEN Put(flat, c.from) ELSE flat
        /\ tex' = IF as = "tex" \/ (as = "text" /\ ~Holds(tex, Text[c.from]))
                  THEN Put(tex, c.from) ELSE tex
  /\ UNCHANGED <<regs, mem, counter, irqs>>

Execute(e) ==
  /\ todo[e] # <<>>
  /\ todo' = [todo EXCEPT ![e] = Tail(@)]
  /\ LET c == Head(todo[e])
     IN Set(c) \/ Fence(c) \/ Exchange(c) \/ Interrupt(c) \/ Draw(e, c)
  /\ UNCHANGED <<mode, shown>>

Submit(e) ==
  /\ \E s \in Streams : todo' = [todo EXCEPT ![e] = @ \o s]
  /\ UNCHANGED <<mode, effects, shown>>

\* A frame starts with nothing carved, when the one before has been handed over.
StartFrame ==
  /\ todo[Carver] = <<>>
  /\ \E s \in Streams : todo' = [todo EXCEPT ![Carver] = s]
  /\ flat' = <<>> /\ tex' = <<>>
  /\ UNCHANGED <<mode, regs, mem, counter, draws, irqs, shown>>

\* Nothing carved leaves the renderer with what it had.
EndFrame ==
  /\ todo[Carver] = <<>>
  /\ shown' = <<IF flat = <<>> THEN shown[1] ELSE flat,
                IF tex = <<>> THEN shown[2] ELSE tex>>
  /\ UNCHANGED <<mode, todo, effects>>

Next ==
  \/ \E e \in Executors : Execute(e)
  \/ \E e \in Executors \ {Carver} : Submit(e)
  \/ StartFrame
  \/ EndFrame

Spec == Init /\ [][Next]_vars
==============================================================================
