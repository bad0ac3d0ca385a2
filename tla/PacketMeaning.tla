---------------------------- MODULE PacketMeaning ----------------------------
(***************************************************************************)
(* What the title's words mean.  The interpreter reads words and the       *)
(* stream it promises to carry out consists of commands: here is the       *)
(* relation between the two, read off the packet formats of ExecutePM4     *)
(* and ExecuteType3 (kernel.cpp 1544-2148), on which the proofs rest.      *)
(*                                                                         *)
(* A frame is a call of ExecutePM4, as on the interpreter's stack: the     *)
(* words from `at` to `end`, at a depth.  A meaning is a function from     *)
(* frames to the commands that their words stand for; its equations are    *)
(* those of a recursive definition, over the packets of a buffer and the   *)
(* buffers they call.                                                      *)
(***************************************************************************)
EXTENDS PacketInterpreter

CONSTANTS Commands,   \* all that the title commands
          OfBuffer,   \* frame of the words outside the ring -> its commands
          OfItem,     \* i -> frame of the words of Menu[i] -> its commands
          Indices     \* text block -> how many indices its draw has

Frame(at, words, depth) == [at |-> at, end |-> at + words, depth |-> depth]

\* The words behind a header that belong to it, of those left in the buffer.
Size(h, left) ==
  CASE h.type = "T0" -> IF h.count < left THEN h.count ELSE left
    [] h.type = "T1" -> 2
    [] h.type = "T3" -> h.count
    [] OTHER         -> 0

\* The packet that a frame begins with, its header at 0.
PacketAt(W, f) == [j \in 0 .. Size(W[f.at], f.end - f.at - 1) |-> W[f.at + j]]
Behind(W, f) == [f EXCEPT !.at = @ + 1 + Size(W[@], f.end - @ - 1)]

\* A type-3 packet has the words it is made of.
Needs(op) ==
  CASE op = "EVENT_WRITE_SHD"                 -> 3
    [] op \in {"IB", "IB_PFD", "DRAW_INDX"}   -> 2
    [] OTHER                                  -> 1

WellFormed(h) ==
  /\ h.type = "T0" => h.count \in Nat /\ h.base \in Nat
  /\ h.type = "T3" => h.count \in Nat /\ h.count >= Needs(h.op)

Idle(h) ==
  \/ h.type \in {"zero", "T2"}
  \/ h.type = "T3" /\ h.op \in {"NOP", "ME_INIT", "WAIT_REG_MEM", "IM_LOAD_IMMEDIATE"}
Calls(h) == h.type = "T3" /\ h.op \in {"IB", "IB_PFD"}

\* The registers that get n words of the packet from p[k] on.
Run(p, first, k, n) ==
  [r \in {r \in Regs : r - first \in 0 .. (n - 1)} |-> p[r - first + k]]

\* One register gets them all, the last at the end; two get one each; the register
\* of the events.
Repeated(p, n) == [r \in (IF n = 0 THEN {} ELSE {p[0].base}) |-> p[n]]
Both(p) == [r \in {p[0].first, p[0].second} |-> IF r = p[0].second THEN p[2] ELSE p[1]]
Event(p) == [r \in {Initiator} |-> p[1].event % 64]

Update(p, n) ==
  LET h == p[0] IN
  CASE h.type = "T0" /\ ~h.one  -> Run(p, h.base, 1, n)
    [] h.type = "T0" /\ h.one   -> Repeated(p, n)
    [] h.type = "T1"            -> Both(p)
    [] h.type = "T3" /\ h.op = "SET_CONSTANT2" -> Run(p, p[1], 2, n - 1)
    [] h.type = "T3" /\ h.op = "SET_CONSTANT" ->
         IF p[1].type \notin 0 .. 4 THEN <<>>
         ELSE Run(p, Area[p[1].type + 1] + p[1].index, 2, n - 1)
    [] OTHER                    -> Event(p)

Updates(h) ==
  \/ h.type \in {"T0", "T1"}
  \/ h.type = "T3" /\ h.op \in {"SET_CONSTANT", "SET_CONSTANT2",
                                "EVENT_WRITE", "EVENT_WRITE_EXT"}

\* The command c is what the packet p of n words and a header means.  A draw of
\* fewer than three indices shows nothing; one of a text has all of its indices.
Describes(c, p, n) ==
  LET h == p[0] IN
  \/ Updates(h) /\ c.kind = "set" /\ c.upd = Update(p, n)
  \/ /\ h.type = "T3" /\ h.op = "INTERRUPT"
     /\ p[1] \in Nat /\ c.kind = "interrupt" /\ c.cpus = {k \in 0 .. 5 : Bit(p[1], k) = 1}
  \/ /\ h.type = "T3" /\ h.op = "EVENT_WRITE_SHD"
     /\ c.kind = IF p[1].counter THEN "count" ELSE "fence"
     /\ c.event = p[1].event % 64
     /\ c.addr = p[2] - (p[2] % 4)
     /\ ~p[1].counter => c.value = p[3]
  \/ h.type = "T3" /\ h.op = "XE_SWAP" /\ c.kind = "swap"
  \/ /\ h.type = "T3" /\ h.op \in {"DRAW_INDX", "DRAW_INDX_2"}
     /\ c.kind = "draw"
     /\ LET init == IF h.op = "DRAW_INDX" THEN p[2] ELSE p[1]
        IN /\ c.prim = IF init.n >= 3 THEN init.prim ELSE 0
           /\ c.prim = 13 => init.n = Indices[Text[c.from]]

\* The buffer at an address of w words, called at a depth.
InDepth(at, w, depth) ==
  depth <= MaxDepth =>
    at \in Nat /\ at >= RingSize /\ w \in Nat /\ Frame(at, w, depth) \in DOMAIN OfBuffer
Called(at, w, depth) ==
  IF depth > MaxDepth THEN <<>> ELSE OfBuffer[Frame(at, w, depth)]

\* M is the meaning of frames of the words W.
Decodes(W, M) ==
  \A f \in DOMAIN M :
    /\ f \in [at : Nat, end : Nat, depth : 0 .. MaxDepth]
    /\ M[f] \in Seq(Commands)
    /\ f.at >= f.end => M[f] = <<>>
    /\ f.at < f.end =>
         LET p == PacketAt(W, f)
             rest == M[Behind(W, f)]
         IN /\ WellFormed(W[f.at]) /\ Behind(W, f) \in DOMAIN M
            /\ \/ Idle(p[0]) /\ M[f] = rest
               \/ /\ Calls(p[0]) /\ InDepth(p[1], p[2], f.depth + 1)
                  /\ M[f] = Called(p[1], p[2], f.depth + 1) \o rest
               \/ /\ M[f] # <<>> /\ Tail(M[f]) = rest
                  /\ Describes(Head(M[f]), p, Behind(W, f).at - f.at - 1)

\* The words of the ring are whole packets, and are called at depth 0.
ItemIsRead(i) ==
  LET words == Menu[i].words
      n == Len(words)
  IN /\ n \in Nat
     /\ Decodes(words, OfItem[i])
     /\ Frame(1, n, 0) \in DOMAIN OfItem[i]
     /\ Menu[i].commands = OfItem[i][Frame(1, n, 0)]
     /\ \A f \in DOMAIN OfItem[i] :
          /\ f.end = n + 1 /\ f.depth = 0 /\ f.at \in 1 .. (n + 1)
          /\ f.at <= n /\ words[f.at].type = "T0" => words[f.at].count <= n - f.at

\* The value that a register has before the command s[j], where f has those from
\* before the stream: the set is empty when it is not known.
Writes(c, r) ==
  IF c.kind = "set" THEN r \in DOMAIN c.upd ELSE c.kind \in {"fence", "count"} /\ r = Initiator
Before(f, s, j, r) ==
  {s[k].upd[r] : k \in {k \in 1 .. (j - 1) :
     /\ s[k].kind = "set" /\ r \in Regs \intersect DOMAIN s[k].upd
     /\ \A l \in (k + 1) .. (j - 1) : ~Writes(s[l], r)}}
  \union (IF \E l \in 1 .. (j - 1) : Writes(s[l], r) THEN {}
          ELSE {f[q] : q \in {r} \intersect DOMAIN f})

\* The draw s[j] shows the buffer that is bound when it comes to it: a rectangle
\* that of slot 0, a strip and a text that of the last slot with one.
Binds(f, s, j) ==
  LET c == s[j]
      IsBuffer(v) == v % 4 = 3 /\ c.from = v - (v % 4)
  IN IF c.prim = 8 THEN \E v \in Before(f, s, j, FetchArea) : IsBuffer(v)
     ELSE \E slot \in Slots :
            /\ \E v \in Before(f, s, j, FetchArea + (2 * slot)) : IsBuffer(v)
            /\ \A higher \in Slots : higher > slot =>
                 \E v \in Before(f, s, j, FetchArea + (2 * higher)) : v % 4 # 3
            /\ c.prim = 13 =>
                 \E v \in Before(f, s, j, FetchArea + (2 * slot) + 1) :
                   Stride(v, Indices[Text[c.from]]) >= 16
IsBound(f, s) ==
  \A j \in 1 .. Len(s) : s[j].kind = "draw" /\ s[j].prim \in {5, 8, 13} => Binds(f, s, j)

\* Words are read as they are meant, a frame binds what it draws, whatever the
\* registers were before, and texts are told apart by what is hashed of them.
ASSUME TitleAssumption ==
  /\ Decodes(Static, OfBuffer)
  /\ \A f \in DOMAIN OfBuffer : f.at >= RingSize /\ f.depth > 0
  /\ \A i \in DOMAIN Menu : ItemIsRead(i)
  /\ \A n \in 1 .. Len(Directory) : IsSegment(Directory[n]) =>
       LET d == Directory[n]
       IN InDepth(d.addr, d.len, 1) /\ d.commands = Called(d.addr, d.len, 1)
  /\ \A n \in 1 .. Len(Directory) : IsBound(<<>>, SegmentCommands[n])
  /\ LET Drawn == {Text[c.from] : c \in {c \in Commands : IsText(c)}}
     IN \A t, u \in Drawn : Indices[t] = Indices[u] /\ Key[t] = Key[u] => t = u
==============================================================================
