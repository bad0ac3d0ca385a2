---------------------- MODULE PacketInterpreter_proofs ----------------------
(***************************************************************************)
(* The packet interpreter carries out the commands that the title's words  *)
(* stand for, in their order and each once, and a frame keeps every text,  *)
(* for any ring, any submissions and any directory.  What words stand for  *)
(* is PacketMeaning's.                                                     *)
(***************************************************************************)
EXTENDS PacketMeaning, SequenceTheorems, WellFoundedInduction, TLAPS

LEMMA FunctionIsSeq ==
  ASSUME NEW S, NEW n \in Nat, NEW f \in [1 .. n -> S]
  PROVE  f \in Seq(S) /\ Len(f) = n
<1>1. f \in UNION {[1 .. m -> S] : m \in Nat}  BY Zenon
<1>2. f \in Seq(S)  BY <1>1, SeqDef, Zenon
<1>3. DOMAIN f = 1 .. Len(f) /\ Len(f) \in Nat  BY <1>2, LenProperties
<1>4. 1 .. Len(f) = 1 .. n  BY <1>3
<1> QED  BY <1>2, <1>3, <1>4

LEMMA HeadOfConcat ==
  ASSUME NEW S, NEW s \in Seq(S), NEW t \in Seq(S), s # <<>>
  PROVE  /\ s \o t # <<>> /\ s \o t \in Seq(S)
         /\ Head(s \o t) = Head(s) /\ Tail(s \o t) = Tail(s) \o t
<1>1. Len(s) \in Nat \ {0}  BY EmptySeq
<1>2. /\ s \o t \in Seq(S) /\ Len(s \o t) = Len(s) + Len(t)
      /\ \A i \in 1 .. Len(s) + Len(t) :
           (s \o t)[i] = IF i <= Len(s) THEN s[i] ELSE t[i - Len(s)]
  BY ConcatProperties
<1>3. Len(t) \in Nat  BY LenProperties
<1>4. s \o t # <<>>
  BY <1>1, <1>2, <1>3, EmptySeq
<1>5. Head(s \o t) = Head(s)
  BY <1>1, <1>2, <1>3
<1>6. /\ Tail(s) \in Seq(S) /\ Len(Tail(s)) = Len(s) - 1
      /\ \A i \in 1 .. Len(Tail(s)) : Tail(s)[i] = s[i + 1]
  BY HeadTailProperties
<1>7. /\ Tail(s \o t) \in Seq(S) /\ Len(Tail(s \o t)) = Len(s) + Len(t) - 1
      /\ \A i \in 1 .. Len(Tail(s \o t)) : Tail(s \o t)[i] = (s \o t)[i + 1]
  BY <1>2, <1>4, HeadTailProperties
<1>8. /\ Tail(s) \o t \in Seq(S) /\ Len(Tail(s) \o t) = Len(s) - 1 + Len(t)
      /\ \A i \in 1 .. Len(s) - 1 + Len(t) :
           (Tail(s) \o t)[i] = IF i <= Len(s) - 1 THEN Tail(s)[i] ELSE t[i - (Len(s) - 1)]
  BY <1>6, ConcatProperties
<1>9. Tail(s \o t) = Tail(s) \o t
  <2>1. ASSUME NEW i \in 1 .. Len(Tail(s \o t)) PROVE Tail(s \o t)[i] = (Tail(s) \o t)[i]
    BY <1>1, <1>2, <1>3, <1>6, <1>7, <1>8
  <2>2. Len(Tail(s \o t)) = Len(Tail(s) \o t)  BY <1>1, <1>3, <1>7, <1>8
  <2> QED  BY <1>7, <1>8, <2>1, <2>2, SeqEqual
<1> QED  BY <1>2, <1>4, <1>5, <1>9
-----------------------------------------------------------------------------
(* What is behind the frames on a stack.                                    *)

\* The words of the ring that the title has written and the pump has not been
\* seen to have read.
Used(a) == IF rptr <= wptr THEN rptr <= a /\ a < wptr ELSE rptr <= a \/ a < wptr

IsItem(a) == ring[a] # <<0, 0>>
Item(a) == ring[a][1]
Pos(a) == ring[a][2]
Words(a) == Menu[Item(a)].words
Last(a) == a + Len(Words(a)) - Pos(a)
ItemFrame(a) == [at |-> Pos(a), end |-> Len(Words(a)) + 1, depth |-> 0]

\* Items are whole.  D has for an address of the ring the commands from there on.
RingTyped ==
  /\ ring \in [0 .. (RingSize - 1) -> {<<0, 0>>} \union
                 UNION {{i} \X (1 .. Len(Menu[i].words)) : i \in DOMAIN Menu}]
  /\ {wptr, rptr, lastWptr, batch} \subseteq 0 .. (RingSize - 1)
  /\ rptr = lastWptr /\ (Used(batch) \/ batch = wptr)

ItemsWhole ==
  \A a \in 0 .. (RingSize - 1) : Used(a) /\ IsItem(a) =>
    /\ a < batch => Last(a) < batch
    /\ \A j \in 1 .. Len(Words(a)) :
         LET b == a - Pos(a) + j
         IN b \in 0 .. (RingSize - 1) /\ Used(b) /\ ring[b] = <<Item(a), j>>

Reads(D) ==
  /\ D \in [0 .. RingSize -> Seq(Commands)]
  /\ D[RingSize] = D[0] /\ D[wptr] = <<>>
  /\ \A a \in 0 .. (RingSize - 1) : Used(a) =>
       IF IsItem(a)
       THEN ItemFrame(a) \in DOMAIN OfItem[Item(a)] =>
              D[a] = OfItem[Item(a)][ItemFrame(a)] \o D[Last(a) + 1]
       ELSE D[a] = D[a + 1]

RingInv(D) == RingTyped /\ ItemsWhole /\ Reads(D)

\* A packet begins at the address a of the ring.
Begins(a) == IsItem(a) => ItemFrame(a) \in DOMAIN OfItem[Item(a)]

\* The frame f stands for what is in t before u.
Links(f, t, u, D) ==
  /\ f \in [at : Nat, end : Nat, depth : 0 .. MaxDepth]
  /\ IF f.depth = 0
     THEN /\ f.at <= f.end /\ f.end \in {batch, RingSize}
          /\ f.end = RingSize => batch < rptr
          /\ \A a \in f.at .. (f.end - 1) : Used(a)
          /\ f.at < f.end => Begins(f.at)
          /\ t = D[f.at] /\ u = D[f.end]
     ELSE f.at >= RingSize /\ f \in DOMAIN OfBuffer /\ t = OfBuffer[f] \o u

\* T has for each call on a stack what is left of the stream when it is reached,
\* and at its end what is left when all have returned.
IsChain(s, T, D) ==
  /\ T \in Seq(Seq(Commands)) /\ Len(T) = Len(s) + 1
  /\ \A j \in 1 .. Len(s) : Links(s[j], T[j], T[j + 1], D)

Mem == [a \in Nat |-> Load(a)]

Frames == [at : Nat, end : Nat, depth : 0 .. MaxDepth]

\* The stack s with its first call moved on, or with a call before it, has a chain
\* that begins with t.
Chained(s, T, D, f, t, u) ==
  s \in Seq(Frames) /\ IsChain(s, T, D) /\ f \in Frames /\ t \in Seq(Commands)
  /\ Links(f, t, u, D)
ChainOf(r, t, u, D) ==
  r \in Seq(Frames) /\ \E U : IsChain(r, U, D) /\ U[1] = t /\ U[Len(U)] = u
MovedOn(r, s, f) ==
  Len(r) = Len(s) /\ \A j \in 1 .. Len(r) : r[j] = IF j = 1 THEN f ELSE s[j]
CalledOver(r, s, f) ==
  Len(r) = Len(s) + 1 /\ \A j \in 1 .. Len(r) : r[j] = IF j = 1 THEN f ELSE s[j - 1]

LEMMA ChainAdvances ==
  ASSUME NEW D, NEW s, NEW T, NEW f, NEW t, Chained(s, T, D, f, t, T[2]), s # <<>>,
         NEW r, r = <<f>> \o Tail(s)
  PROVE  r # <<>> /\ MovedOn(r, s, f) /\ ChainOf(r, t, T[Len(T)], D)
<1> USE DEF Chained
<1> DEFINE U == [T EXCEPT ![1] = t]
<1>1. /\ Len(s) \in Nat \ {0} /\ Tail(s) \in Seq(Frames) /\ Len(Tail(s)) = Len(s) - 1
      /\ \A i \in 1 .. Len(Tail(s)) : Tail(s)[i] = s[i + 1]
  BY HeadTailProperties, EmptySeq
<1>2. <<f>> \in Seq(Frames) /\ Len(<<f>>) = 1 /\ <<f>>[1] = f  OBVIOUS
<1>3. /\ r \in Seq(Frames) /\ Len(r) = 1 + Len(Tail(s))
      /\ \A i \in 1 .. 1 + Len(Tail(s)) :
           r[i] = IF i <= 1 THEN <<f>>[i] ELSE Tail(s)[i - 1]
  BY <1>1, <1>2, ConcatProperties
<1>4. Len(r) = Len(s) /\ \A j \in 1 .. Len(r) : r[j] = IF j = 1 THEN f ELSE s[j]
  BY <1>1, <1>2, <1>3
<1>5. T \in Seq(Seq(Commands)) /\ Len(T) = Len(s) + 1 /\ 1 \in 1 .. Len(T)
  BY <1>1 DEF IsChain
<1>6. /\ U \in Seq(Seq(Commands)) /\ Len(U) = Len(T)
      /\ \A j \in 1 .. Len(T) : U[j] = IF j = 1 THEN t ELSE T[j]
  BY <1>5, ExceptSeq
<1> HIDE DEF U
<1>7. IsChain(r, U, D)
  <2>1. ASSUME NEW j \in 1 .. Len(r) PROVE Links(r[j], U[j], U[j + 1], D)
    <3>1. j \in 1 .. Len(s) /\ j \in 1 .. Len(T) /\ j + 1 \in 1 .. Len(T) /\ j + 1 # 1
      BY <1>1, <1>4, <1>5
    <3>2. CASE j = 1  BY <1>4, <1>6, <3>1, <3>2
    <3>3. CASE j # 1  BY <1>4, <1>6, <3>1, <3>3 DEF IsChain
    <3> QED  BY <3>2, <3>3
  <2> QED  BY <1>4, <1>5, <1>6, <2>1 DEF IsChain
<1>8. r # <<>>  BY <1>1, <1>3, <1>4, EmptySeq
<1>9. U[1] = t /\ U[Len(U)] = T[Len(T)]
  BY <1>1, <1>5, <1>6
<1>10. MovedOn(r, s, f)  BY <1>4 DEF MovedOn
<1>11. ChainOf(r, t, T[Len(T)], D)  BY <1>3, <1>7, <1>9 DEF ChainOf
<1> QED  BY <1>8, <1>10, <1>11

LEMMA ChainCalls ==
  ASSUME NEW D, NEW s, NEW T, NEW f, NEW t, Chained(s, T, D, f, t, T[1]),
         NEW r, r = <<f>> \o s
  PROVE  CalledOver(r, s, f) /\ ChainOf(r, t, T[Len(T)], D)
<1> USE DEF Chained
<1> DEFINE U == <<t>> \o T
<1>1. Len(s) \in Nat  BY LenProperties
<1>2. <<f>> \in Seq(Frames) /\ Len(<<f>>) = 1 /\ <<f>>[1] = f  OBVIOUS
<1>3. <<t>> \in Seq(Seq(Commands)) /\ Len(<<t>>) = 1 /\ <<t>>[1] = t  OBVIOUS
<1>4. /\ r \in Seq(Frames) /\ Len(r) = 1 + Len(s)
      /\ \A i \in 1 .. 1 + Len(s) : r[i] = IF i <= 1 THEN <<f>>[i] ELSE s[i - 1]
  BY <1>2, ConcatProperties
<1>5. T \in Seq(Seq(Commands)) /\ Len(T) = Len(s) + 1  BY DEF IsChain
<1>6. /\ U \in Seq(Seq(Commands)) /\ Len(U) = 1 + Len(T)
      /\ \A i \in 1 .. 1 + Len(T) : U[i] = IF i <= 1 THEN <<t>>[i] ELSE T[i - 1]
  BY <1>3, <1>5, ConcatProperties
<1> HIDE DEF U
<1>7. /\ \A j \in 1 .. Len(r) : r[j] = IF j = 1 THEN f ELSE s[j - 1]
      /\ \A j \in 1 .. Len(U) : U[j] = IF j = 1 THEN t ELSE T[j - 1]
  <2>1. ASSUME NEW j \in 1 .. Len(r) PROVE r[j] = IF j = 1 THEN f ELSE s[j - 1]
    <3>1. j \in 1 .. 1 + Len(s) /\ (j <= 1 <=> j = 1)  BY <1>1, <1>4
    <3> QED  BY <1>2, <1>4, <3>1
  <2>2. ASSUME NEW j \in 1 .. Len(U) PROVE U[j] = IF j = 1 THEN t ELSE T[j - 1]
    <3>1. j \in 1 .. 1 + Len(T) /\ (j <= 1 <=> j = 1)  BY <1>1, <1>5, <1>6
    <3> QED  BY <1>3, <1>6, <3>1
  <2> QED  BY <2>1, <2>2
<1>8. IsChain(r, U, D)
  <2>1. ASSUME NEW j \in 1 .. Len(r) PROVE Links(r[j], U[j], U[j + 1], D)
    <3>1. /\ j \in 1 .. Len(U) /\ j + 1 \in 1 .. Len(U) /\ j + 1 # 1 /\ j + 1 - 1 = j
          /\ j # 1 => j - 1 \in 1 .. Len(s) /\ j - 1 + 1 = j
      BY <1>1, <1>4, <1>5, <1>6
    <3>2. CASE j = 1
      <4>1. r[1] = f /\ U[1] = t /\ U[2] = T[1]  BY <1>7, <3>1, <3>2
      <4> QED  BY <3>2, <4>1
    <3>3. CASE j # 1
      <4>1. Links(s[j - 1], T[j - 1], T[j - 1 + 1], D)  BY <3>1, <3>3 DEF IsChain
      <4> QED  BY <1>7, <3>1, <3>3, <4>1
    <3> QED  BY <3>2, <3>3
  <2>2. Len(U) = Len(r) + 1 /\ U \in Seq(Seq(Commands))  BY <1>1, <1>4, <1>5, <1>6
  <2> QED  BY <2>1, <2>2, Zenon DEF IsChain
<1>9. U[1] = t /\ U[Len(U)] = T[Len(T)]
  BY <1>1, <1>5, <1>6, <1>7
<1>10. CalledOver(r, s, f)  BY <1>1, <1>4, <1>7 DEF CalledOver
<1>11. ChainOf(r, t, T[Len(T)], D)  BY <1>4, <1>8, <1>9 DEF ChainOf
<1> QED  BY <1>10, <1>11

LEMMA ChainReturns ==
  ASSUME NEW D, NEW s \in Seq(Frames), NEW T, IsChain(s, T, D), s # <<>>
  PROVE  /\ Tail(s) \in Seq(Frames)
         /\ \A j \in 1 .. Len(Tail(s)) : Tail(s)[j] = s[j + 1]
         /\ Len(Tail(s)) = Len(s) - 1
         /\ IsChain(Tail(s), Tail(T), D)
         /\ Tail(T)[1] = T[2] /\ Tail(T)[Len(Tail(T))] = T[Len(T)]
<1>1. /\ Len(s) \in Nat \ {0} /\ Tail(s) \in Seq(Frames) /\ Len(Tail(s)) = Len(s) - 1
      /\ \A i \in 1 .. Len(Tail(s)) : Tail(s)[i] = s[i + 1]
  BY HeadTailProperties, EmptySeq
<1>2. T \in Seq(Seq(Commands)) /\ Len(T) = Len(s) + 1 /\ T # <<>>
  BY <1>1, EmptySeq DEF IsChain
<1>3. /\ Tail(T) \in Seq(Seq(Commands)) /\ Len(Tail(T)) = Len(T) - 1
      /\ \A i \in 1 .. Len(Tail(T)) : Tail(T)[i] = T[i + 1]
  BY <1>2, HeadTailProperties
<1>4. ASSUME NEW j \in 1 .. Len(Tail(s))
      PROVE  Links(Tail(s)[j], Tail(T)[j], Tail(T)[j + 1], D)
  <2>1. /\ j + 1 \in 1 .. Len(s) /\ j \in 1 .. Len(Tail(T)) /\ j + 1 \in 1 .. Len(Tail(T))
    BY <1>1, <1>2, <1>3
  <2>2. Links(s[j + 1], T[j + 1], T[j + 1 + 1], D)  BY <2>1 DEF IsChain
  <2> QED  BY <1>1, <1>3, <2>1, <2>2
<1>5. IsChain(Tail(s), Tail(T), D)
  BY <1>1, <1>2, <1>3, <1>4 DEF IsChain
<1>6. /\ 1 \in 1 .. Len(Tail(T)) /\ Len(Tail(T)) \in 1 .. Len(Tail(T))
      /\ Len(Tail(T)) + 1 = Len(T)
  BY <1>1, <1>2, <1>3
<1> QED  BY <1>1, <1>3, <1>5, <1>6

-----------------------------------------------------------------------------
(* The packet at the top of a stack.                                        *)

\* The packet that M has at f, in words of what it leaves of a stream.
Decoded(p, n, depth, t, rest) ==
  /\ WellFormed(p[0])
  /\ \/ Idle(p[0]) /\ t = rest
     \/ /\ Calls(p[0]) /\ InDepth(p[1], p[2], depth + 1)
        /\ t = Called(p[1], p[2], depth + 1) \o rest
     \/ t # <<>> /\ Tail(t) = rest /\ Describes(Head(t), p, n)

LEMMA CalledTyped ==
  ASSUME NEW at, NEW w, NEW depth, InDepth(at, w, depth), depth \in Nat
  PROVE  Called(at, w, depth) \in Seq(Commands)
<1>1. CASE depth > MaxDepth  BY <1>1 DEF Called
<1>2. CASE ~ (depth > MaxDepth)
  <2>1. depth <= MaxDepth  BY <1>2, PacketAssumption
  <2> QED  BY <1>2, <2>1, TitleAssumption DEF Called, InDepth, Decodes
<1> QED  BY <1>1, <1>2

\* What is behind the frames does not matter to the packet.
LEMMA DecodedInFront ==
  ASSUME NEW p, NEW n, NEW depth \in Nat, NEW t \in Seq(Commands),
         NEW rest \in Seq(Commands), NEW u \in Seq(Commands),
         Decoded(p, n, depth, t, rest)
  PROVE  Decoded(p, n, depth, t \o u, rest \o u)
<1>1. CASE Idle(p[0]) /\ t = rest  BY <1>1 DEF Decoded
<1>2. CASE /\ Calls(p[0]) /\ InDepth(p[1], p[2], depth + 1)
           /\ t = Called(p[1], p[2], depth + 1) \o rest
  <2>1. Called(p[1], p[2], depth + 1) \in Seq(Commands)  BY <1>2, CalledTyped
  <2>2. t \o u = Called(p[1], p[2], depth + 1) \o (rest \o u)
    <3>1. PICK c : c = Called(p[1], p[2], depth + 1)  OBVIOUS
    <3>2. c \in Seq(Commands) /\ t = c \o rest  BY <1>2, <2>1, <3>1
    <3>3. (c \o rest) \o u = c \o (rest \o u)  BY <3>2, ConcatAssociative
    <3> QED  BY <3>1, <3>2, <3>3
  <2> QED  BY <1>2, <2>2 DEF Decoded
<1>3. CASE t # <<>> /\ Tail(t) = rest /\ Describes(Head(t), p, n)
  BY <1>3, HeadOfConcat DEF Decoded
<1> QED  BY <1>1, <1>2, <1>3 DEF Decoded

\* Size of a well-formed packet.
LEMMA SizeTyped ==
  ASSUME NEW h, NEW left \in Nat, WellFormed(h)
  PROVE  Size(h, left) \in Nat
<1>1. CASE h.type = "T0"  BY <1>1 DEF Size, WellFormed
<1>2. CASE h.type = "T3"  BY <1>2 DEF Size, WellFormed
<1>3. CASE h.type \notin {"T0", "T3"}  BY <1>3 DEF Size
<1> QED  BY <1>1, <1>2, <1>3

\* A meaning gives what its frames begin with.
LEMMA MeaningDecodes ==
  ASSUME NEW W, NEW M, Decodes(W, M), NEW f \in DOMAIN M, f.at < f.end
  PROVE  /\ f \in Frames /\ M[f] \in Seq(Commands)
         /\ Behind(W, f) \in DOMAIN M /\ Behind(W, f) \in Frames
         /\ M[Behind(W, f)] \in Seq(Commands)
         /\ WellFormed(W[f.at]) /\ Size(W[f.at], f.end - f.at - 1) \in Nat
         /\ Decoded(PacketAt(W, f), Behind(W, f).at - f.at - 1, f.depth,
                    M[f], M[Behind(W, f)])
<1>1. f \in Frames /\ M[f] \in Seq(Commands) /\ WellFormed(W[f.at])
      /\ Behind(W, f) \in DOMAIN M
  BY DEF Decodes, Frames
<1>2. Behind(W, f) \in Frames /\ M[Behind(W, f)] \in Seq(Commands)
  BY <1>1 DEF Decodes, Frames
<1>3. Size(W[f.at], f.end - f.at - 1) \in Nat
  <2>1. f.end - f.at - 1 \in Nat  BY <1>1 DEF Frames
  <2> QED  BY <1>1, <2>1, SizeTyped
<1>4. PacketAt(W, f)[0] = W[f.at]
  <2>1. f.at + 0 = f.at  BY <1>1 DEF Frames
  <2> QED  BY <1>3, <2>1 DEF PacketAt
<1>5. Decoded(PacketAt(W, f), Behind(W, f).at - f.at - 1, f.depth,
              M[f], M[Behind(W, f)])
  BY <1>1, <1>4 DEF Decodes, Decoded
<1> QED  BY <1>1, <1>2, <1>3, <1>5

\* Outside the ring.
LEMMA BufferPacket ==
  ASSUME NEW D, NEW f, NEW t \in Seq(Commands), NEW u \in Seq(Commands),
         Links(f, t, u, D), f.depth # 0, f.at < f.end
  PROVE  /\ WellFormed(Mem[f.at])
         /\ \E rest \in Seq(Commands) :
              /\ Links(Behind(Mem, f), rest, u, D)
              /\ Decoded(PacketAt(Mem, f), Behind(Mem, f).at - f.at - 1, f.depth, t, rest)
<1>1. /\ f \in Frames /\ f.at >= RingSize /\ f \in DOMAIN OfBuffer
      /\ t = OfBuffer[f] \o u
  BY DEF Links, Frames
<1>2. Decodes(Static, OfBuffer)  BY TitleAssumption
<1> DEFINE g == Behind(Static, f)
<1>3. /\ OfBuffer[f] \in Seq(Commands) /\ g \in DOMAIN OfBuffer /\ g \in Frames
      /\ OfBuffer[g] \in Seq(Commands) /\ WellFormed(Static[f.at])
      /\ Decoded(PacketAt(Static, f), g.at - f.at - 1, f.depth, OfBuffer[f], OfBuffer[g])
  BY <1>1, <1>2, MeaningDecodes
<1>4. \A a \in Nat : a >= RingSize => Mem[a] = Static[a]
  BY DEF Mem, Load
<1>5. Mem[f.at] = Static[f.at]  BY <1>1, <1>4 DEF Frames
<1>6. Behind(Mem, f) = g  BY <1>5 DEF Behind
<1>7. PacketAt(Mem, f) = PacketAt(Static, f)
  <2>1. \A j \in Nat : f.at + j \in Nat /\ f.at + j >= RingSize
    BY <1>1, PacketAssumption DEF Frames
  <2>2. \A j \in Nat : Mem[f.at + j] = Static[f.at + j]  BY <1>4, <2>1
  <2> QED  BY <1>5, <2>2 DEF PacketAt
<1>8. Links(g, OfBuffer[g] \o u, u, D)
  <2>1. g.at >= RingSize /\ g.depth # 0
    BY <1>3, TitleAssumption DEF Frames
  <2> QED  BY <1>3, <2>1 DEF Links, Frames
<1>9. OfBuffer[g] \o u \in Seq(Commands)  BY <1>3, ConcatProperties
<1>10. Decoded(PacketAt(Mem, f), g.at - f.at - 1, f.depth, t, OfBuffer[g] \o u)
  <2> HIDE DEF g
  <2>1. f.depth \in Nat  BY <1>1 DEF Frames
  <2> QED  BY <1>1, <1>3, <1>7, <2>1, DecodedInFront
<1> QED  BY <1>3, <1>5, <1>6, <1>8, <1>9, <1>10

-----------------------------------------------------------------------------
(* The ring.                                                                *)

LEMMA ItemTyped ==
  ASSUME RingTyped, NEW a \in 0 .. (RingSize - 1), IsItem(a)
  PROVE  /\ Item(a) \in DOMAIN Menu /\ Item(a) \in Nat \ {0}
         /\ Len(Words(a)) \in Nat /\ Pos(a) \in 1 .. Len(Words(a))
         /\ ring[a] = <<Item(a), Pos(a)>>
         /\ ItemIsRead(Item(a))
<1>1. ring[a] \in UNION {{i} \X (1 .. Len(Menu[i].words)) : i \in DOMAIN Menu}
  BY DEF RingTyped, IsItem
<1>2. PICK i \in DOMAIN Menu : ring[a] \in {i} \X (1 .. Len(Menu[i].words))
  BY <1>1
<1>3. Item(a) = i /\ Pos(a) \in 1 .. Len(Menu[i].words) /\ ring[a] = <<Item(a), Pos(a)>>
  BY <1>2 DEF Item, Pos
<1>4. ItemIsRead(i)  BY TitleAssumption
<1>5. Len(Menu[i].words) \in Nat  BY <1>4 DEF ItemIsRead
<1>6. i \in Nat \ {0}  BY PacketAssumption
<1> QED  BY <1>3, <1>4, <1>5, <1>6 DEF Words

\* All the words of the item at a are there, from a on.
LEMMA ItemWords ==
  ASSUME RingTyped, ItemsWhole, NEW a \in 0 .. (RingSize - 1), Used(a), IsItem(a),
         NEW j \in 1 .. Len(Words(a))
  PROVE  LET b == a - Pos(a) + j
         IN /\ b \in 0 .. (RingSize - 1) /\ Used(b) /\ IsItem(b)
            /\ Item(b) = Item(a) /\ Pos(b) = j /\ Words(b) = Words(a)
            /\ Last(b) = Last(a)
            /\ Load(b) = Words(a)[j]
<1> DEFINE b == a - Pos(a) + j
<1>1. b \in 0 .. (RingSize - 1) /\ Used(b) /\ ring[b] = <<Item(a), j>>
  BY DEF ItemsWhole
<1>2. Item(a) \in Nat \ {0} /\ Pos(a) \in Nat /\ Len(Words(a)) \in Nat /\ a \in Nat
  BY ItemTyped, PacketAssumption
<1> HIDE DEF b
<1>3. IsItem(b) /\ Item(b) = Item(a) /\ Pos(b) = j
  BY <1>1, <1>2 DEF IsItem, Item, Pos
<1>4. Words(b) = Words(a)  BY <1>3 DEF Words
<1>5. Last(b) = Last(a)  BY <1>2, <1>3, <1>4 DEF b, Last
<1>6. ~ (b >= RingSize)  BY <1>1, PacketAssumption
<1>7. Load(b) = Words(a)[j]
  BY <1>1, <1>3, <1>6 DEF Load, IsItem, Words, Item
<1> QED  BY <1>1, <1>3, <1>4, <1>5, <1>7 DEF b

\* A packet begins behind a zero and behind an item.
LEMMA NextBegins ==
  ASSUME RingTyped, ItemsWhole, NEW a \in 0 .. (RingSize - 1),
         a + 1 \in 0 .. (RingSize - 1), Used(a + 1),
         IsItem(a) => Last(a) = a
  PROVE  Begins(a + 1)
<1> SUFFICES ASSUME IsItem(a + 1) PROVE ItemFrame(a + 1) \in DOMAIN OfItem[Item(a + 1)]
  BY DEF Begins
<1> DEFINE c == a + 1
<1>0. c \in 0 .. (RingSize - 1) /\ a \in Nat /\ c = a + 1  BY PacketAssumption
<1>1. /\ Item(c) \in Nat \ {0} /\ Len(Words(c)) \in Nat /\ Pos(c) \in 1 .. Len(Words(c))
      /\ ItemIsRead(Item(c))
  BY ItemTyped
<1> HIDE DEF c
<1>2. Pos(c) = 1
  <2>1. SUFFICES ASSUME Pos(c) # 1 PROVE FALSE  OBVIOUS
  <2>2. Pos(c) - 1 \in 1 .. Len(Words(c)) /\ c - Pos(c) + (Pos(c) - 1) = a
    BY <1>0, <1>1, <2>1
  <2>3. IsItem(c) /\ Used(c)  BY DEF c
  <2>4. IsItem(a) /\ Pos(a) = Pos(c) - 1 /\ Words(a) = Words(c)
    BY <1>0, <2>2, <2>3, ItemWords
  <2>5. Last(a) = a  BY <2>4
  <2> QED  BY <1>0, <1>1, <2>4, <2>5 DEF Last
<1>3. ItemFrame(c) = Frame(1, Len(Menu[Item(c)].words), 0)
  BY <1>1, <1>2 DEF ItemFrame, Frame, Words
<1> QED  BY <1>1, <1>3 DEF c, ItemIsRead

\* A zero word of the ring.
LEMMA ZeroPacket ==
  ASSUME NEW D, RingInv(D), NEW f, NEW t \in Seq(Commands), NEW u \in Seq(Commands),
         Links(f, t, u, D), f.depth = 0, f.at < f.end, ~ IsItem(f.at)
  PROVE  /\ WellFormed(Mem[f.at])
         /\ \E rest \in Seq(Commands) :
              /\ Links(Behind(Mem, f), rest, u, D)
              /\ Decoded(PacketAt(Mem, f), Behind(Mem, f).at - f.at - 1, f.depth, t, rest)
<1> USE DEF RingInv
<1>1. /\ f \in Frames /\ f.at \in Nat /\ f.end \in Nat
      /\ f.end \in {batch, RingSize} /\ (f.end = RingSize => batch < rptr)
      /\ \A a \in f.at .. (f.end - 1) : Used(a)
      /\ t = D[f.at] /\ u = D[f.end]
  BY DEF Links, Frames
<1>2. RingSize \in Nat \ {0} /\ batch \in 0 .. (RingSize - 1)
  BY PacketAssumption DEF RingTyped
<1>3. f.at \in 0 .. (RingSize - 1) /\ Used(f.at) /\ f.at + 1 \in 0 .. RingSize
  BY <1>1, <1>2
<1>4. Mem[f.at] = Zero
  BY <1>1, <1>2, <1>3 DEF Mem, Load, IsItem
<1> DEFINE g == [f EXCEPT !.at = f.at + 1]
<1>5. Behind(Mem, f) = g
  <2>1. \A left : Size(Zero, left) = 0  BY DEF Size, Zero
  <2>2. f.at + 1 + 0 = f.at + 1  BY <1>1
  <2> QED  BY <1>1, <1>4, <2>1, <2>2 DEF Behind, Frames
<1>6. g \in Frames /\ g.at = f.at + 1 /\ g.end = f.end /\ g.depth = 0
  BY <1>1 DEF Frames
<1> HIDE DEF g
<1>7. D[f.at] = D[f.at + 1] /\ D[f.at + 1] \in Seq(Commands)
  BY <1>3 DEF Reads
<1>8. g.at < g.end => Begins(g.at)
  BY <1>1, <1>2, <1>3, <1>6, NextBegins
<1>9. Links(g, D[f.at + 1], u, D)
  BY <1>1, <1>6, <1>8 DEF Links, Frames
<1>10. WellFormed(PacketAt(Mem, f)[0]) /\ Idle(PacketAt(Mem, f)[0])
  <2>1. f.at + 0 = f.at  BY <1>1
  <2>2. PacketAt(Mem, f)[0] = Zero  BY <1>4, <2>1 DEF PacketAt, Size, Zero
  <2> QED  BY <2>2 DEF WellFormed, Idle, Zero
<1>11. WellFormed(Mem[f.at])  BY <1>4 DEF WellFormed, Zero
<1> QED  BY <1>1, <1>5, <1>7, <1>9, <1>10, <1>11 DEF Decoded

\* A packet of an item.
LEMMA ItemPacket ==
  ASSUME NEW D, RingInv(D), NEW f, NEW t \in Seq(Commands), NEW u \in Seq(Commands),
         Links(f, t, u, D), f.depth = 0, f.at < f.end, IsItem(f.at)
  PROVE  /\ WellFormed(Mem[f.at])
         /\ \E rest \in Seq(Commands) :
              /\ Links(Behind(Mem, f), rest, u, D)
              /\ Decoded(PacketAt(Mem, f), Behind(Mem, f).at - f.at - 1, f.depth, t, rest)
<1> USE DEF RingInv
<1> DEFINE a == f.at
           i == Item(a)
           k == Pos(a)
           n == Len(Words(a))
           W == Menu[i].words
           M == OfItem[i]
           g == ItemFrame(a)
<1>1. /\ f \in Frames /\ f.at \in Nat /\ f.end \in Nat
      /\ f.end \in {batch, RingSize} /\ (f.end = RingSize => batch < rptr)
      /\ \A b \in f.at .. (f.end - 1) : Used(b)
      /\ Begins(f.at) /\ t = D[f.at] /\ u = D[f.end]
  BY DEF Links, Frames
<1>2. RingSize \in Nat \ {0} /\ batch \in 0 .. (RingSize - 1)
  BY PacketAssumption DEF RingTyped
<1>3. a \in 0 .. (RingSize - 1) /\ Used(a) /\ IsItem(a)
  BY <1>1, <1>2
<1>4. i \in DOMAIN Menu /\ n \in Nat /\ k \in 1 .. n /\ ItemIsRead(i)
  BY <1>3, ItemTyped
<1>5. g \in DOMAIN M /\ g.at = k /\ g.end = n + 1 /\ g.depth = 0
  BY <1>1, <1>3 DEF Begins, ItemFrame
<1>6. Last(a) = a + n - k /\ Last(a) \in 0 .. (RingSize - 1) /\ Last(a) < f.end
      /\ Used(Last(a)) /\ IsItem(Last(a)) /\ Last(Last(a)) = Last(a)
      /\ Last(a) + 1 \in 0 .. RingSize
  <2>1. n \in 1 .. n  BY <1>4
  <2>2. a - k + n = a + n - k  BY <1>1, <1>4
  <2>3. Last(a) = a + n - k  BY DEF Last
  <2>4. /\ Last(a) \in 0 .. (RingSize - 1) /\ Used(Last(a)) /\ IsItem(Last(a))
        /\ Last(Last(a)) = Last(a)
    BY <1>3, <2>1, <2>2, <2>3, ItemWords
  <2>5. a < batch => Last(a) < batch  BY <1>3 DEF ItemsWhole
  <2>6. Last(a) < f.end  BY <1>1, <1>2, <2>4, <2>5
  <2> QED  BY <1>2, <2>3, <2>4, <2>6
<1>7. \A j \in 0 .. (n - k) : Mem[a + j] = W[k + j] /\ a + j \in Nat
  <2> SUFFICES ASSUME NEW j \in 0 .. (n - k) PROVE Mem[a + j] = W[k + j] /\ a + j \in Nat
    OBVIOUS
  <2>1. k + j \in 1 .. n /\ a - k + (k + j) = a + j /\ a + j \in Nat
    BY <1>1, <1>4
  <2>2. Load(a + j) = Words(a)[k + j]  BY <1>3, <2>1, ItemWords
  <2> QED  BY <2>1, <2>2 DEF Mem, Words
<1>8. Mem[a] = W[k]
  <2>1. 0 \in 0 .. (n - k) /\ a + 0 = a /\ k + 0 = k  BY <1>1, <1>4
  <2> QED  BY <1>7, <2>1
<1> DEFINE h == W[k]
           m == Size(h, n - k)
           q == Behind(W, g)
<1>9. Decodes(W, M) /\ g.at < g.end
      /\ \A e \in DOMAIN M :
           /\ e.end = n + 1 /\ e.depth = 0 /\ e.at \in 1 .. (n + 1)
           /\ e.at <= n /\ W[e.at].type = "T0" => W[e.at].count <= n - e.at
  BY <1>4, <1>5 DEF ItemIsRead, Words
<1>10. /\ g \in Frames /\ M[g] \in Seq(Commands) /\ q \in DOMAIN M /\ q \in Frames
       /\ M[q] \in Seq(Commands)
       /\ WellFormed(W[g.at]) /\ Size(W[g.at], g.end - g.at - 1) \in Nat
       /\ Decoded(PacketAt(W, g), q.at - g.at - 1, 0, M[g], M[q])
  <2> HIDE DEF M, W, g
  <2>1. g.depth = 0 /\ g \in DOMAIN M  BY <1>5
  <2> QED  BY <1>9, <2>1, MeaningDecodes
<1>11. g.end - k - 1 = n - k  BY <1>4, <1>5
<1>12. WellFormed(h) /\ m \in Nat
  BY <1>10, <1>5, <1>11
<1>13. q = [g EXCEPT !.at = k + 1 + m]
  BY <1>5, <1>11 DEF Behind
<1>14. q = [at |-> k + 1 + m, end |-> n + 1, depth |-> 0] /\ q.at = k + 1 + m
       /\ q.end = n + 1 /\ q.depth = 0
  BY <1>13 DEF ItemFrame
<1>15. m <= n - k
  <2>1. q.at \in 1 .. (n + 1)  BY <1>9, <1>10
  <2> HIDE DEF m, q
  <2> QED  BY <1>4, <1>12, <1>14, <2>1
<1>16. Size(h, f.end - f.at - 1) = m
  <2>1. f.end - f.at - 1 \in Nat /\ n - k <= f.end - f.at - 1
    BY <1>1, <1>4, <1>6
  <2>2. h.type = "T0" => h.count \in Nat /\ h.count <= n - k
    BY <1>4, <1>5, <1>9, <1>12 DEF WellFormed
  <2> QED  BY <1>4, <2>1, <2>2 DEF Size
<1>17. /\ Behind(Mem, f) = [f EXCEPT !.at = a + 1 + m]
       /\ PacketAt(Mem, f) = PacketAt(W, g)
  <2>1. Behind(Mem, f) = [f EXCEPT !.at = a + 1 + m]
    BY <1>1, <1>8, <1>16 DEF Behind, Frames
  <2>2. PacketAt(Mem, f) = [j \in 0 .. m |-> Mem[a + j]]
    BY <1>8, <1>16 DEF PacketAt
  <2>3. PacketAt(W, g) = [j \in 0 .. m |-> W[k + j]]
    BY <1>5, <1>11 DEF PacketAt
  <2>4. \A j \in 0 .. m : j \in 0 .. (n - k)  BY <1>4, <1>12, <1>15
  <2> QED  BY <1>7, <2>1, <2>2, <2>3, <2>4
<1> DEFINE K == D[Last(a) + 1]
           rest == M[q] \o K
           z == [f EXCEPT !.at = a + 1 + m]
<1>18. /\ t = M[g] \o K /\ K \in Seq(Commands) /\ rest \in Seq(Commands)
  <2>1. K \in Seq(Commands)  BY <1>6 DEF Reads
  <2>2. D[a] = M[g] \o K  BY <1>3, <1>5 DEF Reads
  <2> HIDE DEF K, M, q
  <2> QED  BY <1>1, <1>10, <2>1, <2>2, ConcatProperties
<1>19. q.at - g.at - 1 = m /\ z.at - f.at - 1 = m
       /\ z.at = a + 1 + m /\ z.end = f.end /\ z.depth = 0 /\ z \in Frames
  <2>1. z.at = a + 1 + m /\ z.end = f.end /\ z.depth = 0 /\ z \in Frames
    BY <1>1, <1>12 DEF Frames
  <2> HIDE DEF z, q, g, m
  <2> QED  BY <1>1, <1>4, <1>5, <1>12, <1>14, <2>1
<1>20. Decoded(PacketAt(Mem, f), z.at - f.at - 1, f.depth, t, rest)
  <2> HIDE DEF z, q, g, m, M, K, W
  <2> QED  BY <1>10, <1>17, <1>18, <1>19, DecodedInFront
<1>21. (z.at < z.end => Begins(z.at)) /\ rest = D[z.at]
  <2>1. CASE m < n - k
    <3>1. k + 1 + m \in 1 .. n /\ a - k + (k + 1 + m) = z.at
      BY <1>1, <1>4, <1>12, <1>19, <2>1
    <3>2. /\ z.at \in 0 .. (RingSize - 1) /\ Used(z.at) /\ IsItem(z.at)
          /\ Item(z.at) = i /\ Pos(z.at) = k + 1 + m /\ Words(z.at) = Words(a)
          /\ Last(z.at) = Last(a)
      <4> HIDE DEF z
      <4> QED  BY <1>3, <3>1, ItemWords
    <3>3. ItemFrame(z.at) = q  BY <1>14, <3>2 DEF ItemFrame
    <3>4. Begins(z.at)  BY <1>10, <3>2, <3>3 DEF Begins
    <3>5. D[z.at] = OfItem[Item(z.at)][ItemFrame(z.at)] \o D[Last(z.at) + 1]
      BY <1>10, <3>2, <3>3 DEF Reads
    <3> QED  BY <3>2, <3>3, <3>4, <3>5
  <2>2. CASE m = n - k
    <3>1. z.at = Last(a) + 1 /\ q.at >= q.end
      <4> HIDE DEF z, q, m
      <4> QED  BY <1>1, <1>4, <1>6, <1>14, <1>19, <2>2
    <3>2. M[q] = <<>>  BY <1>9, <1>10, <3>1 DEF Decodes
    <3>3. rest = D[z.at]
      <4> HIDE DEF z, q, K, M
      <4> QED  BY <1>18, <3>1, <3>2, ConcatEmptySeq DEF K
    <3>4. ASSUME z.at < z.end PROVE Begins(z.at)
      <4>1. z.at \in f.at .. (f.end - 1) /\ z.at \in 0 .. (RingSize - 1)
        <5> HIDE DEF z, m
        <5> QED  BY <1>1, <1>2, <1>12, <1>19, <3>4
      <4>2. Used(z.at)  BY <1>1, <4>1
      <4> HIDE DEF z
      <4> QED  BY <1>6, <3>1, <4>1, <4>2, NextBegins
    <3> QED  BY <3>3, <3>4
  <2>3. m < n - k \/ m = n - k  BY <1>4, <1>12, <1>15
  <2> QED  BY <2>1, <2>2, <2>3
<1>22. Links(z, rest, u, D)
  <2>1. z.at <= z.end /\ \A b \in z.at .. (z.end - 1) : b \in f.at .. (f.end - 1)
    <3> HIDE DEF z, m
    <3> QED  BY <1>1, <1>4, <1>6, <1>12, <1>15, <1>19
  <2> HIDE DEF z, rest
  <2> QED  BY <1>1, <1>19, <1>21, <2>1 DEF Links, Frames
<1> QED
  <2>1. WellFormed(Mem[f.at])  BY <1>8, <1>12
  <2> HIDE DEF z, rest
  <2> QED  BY <1>17, <1>18, <1>20, <1>22, <2>1 DEF z

\* The packet that a call on a stack comes to.
LEMMA PacketDecoded ==
  ASSUME NEW D, RingInv(D), NEW f, NEW t \in Seq(Commands), NEW u \in Seq(Commands),
         Links(f, t, u, D), f.at < f.end
  PROVE  /\ WellFormed(Mem[f.at])
         /\ \E rest \in Seq(Commands) :
              /\ Links(Behind(Mem, f), rest, u, D)
              /\ Decoded(PacketAt(Mem, f), Behind(Mem, f).at - f.at - 1, f.depth, t, rest)
  BY ZeroPacket, ItemPacket, BufferPacket

-----------------------------------------------------------------------------
(* Submissions.                                                             *)

LEMMA Wraps ==
  ASSUME NEW R \in Nat \ {0}, NEW x \in 0 .. (R - 1)
  PROVE  /\ x % R = x /\ R % R = 0 /\ (x - R) % R = x
<1>1. \A y \in Int : y % R \in 0 .. (R - 1) /\ y = R * (y \div R) + (y % R) /\ y \div R \in Int
  OBVIOUS
<1>2. \A k \in Int : \A c \in 0 .. (R - 1) : x = R * k + c => k = 0 /\ c = x
  <2> SUFFICES ASSUME NEW k \in Int, NEW c \in 0 .. (R - 1), x = R * k + c PROVE k = 0
    OBVIOUS
  <2>1. k < 1
    <3>1. k >= 1 => R * k >= R  OBVIOUS
    <3> QED  BY <3>1
  <2>2. k > -1
    <3>1. k <= -1 => R * k <= -R  OBVIOUS
    <3> QED  BY <3>1
  <2> QED  BY <2>1, <2>2
<1>3. x % R = x  BY <1>1, <1>2
<1>4. R % R = 0
  <2>1. R = R * (R \div R) + (R % R)  BY <1>1
  <2>2. R % R # 0 => FALSE
    <3>1. ASSUME R % R # 0 PROVE R \div R < 1
      <4>1. R \div R >= 1 => R * (R \div R) >= R  BY <1>1
      <4> QED  BY <1>1, <2>1, <3>1, <4>1
    <3>2. ASSUME R % R # 0 PROVE R \div R > 0
      <4>1. R \div R <= 0 => R * (R \div R) <= 0  BY <1>1
      <4> QED  BY <1>1, <2>1, <3>2, <4>1
    <3> QED  BY <1>1, <3>1, <3>2
  <2> QED  BY <2>2
<1>5. (x - R) % R = x
  <2> DEFINE y == x - R
  <2>1. y \in Int /\ y % R \in 0 .. (R - 1) /\ y \div R \in Int /\ y = R * (y \div R) + (y % R)
    BY <1>1
  <2>2. x = R * ((y \div R) + 1) + (y % R)  BY <2>1
  <2>3. (y \div R) + 1 \in Int  BY <2>1
  <2> QED  BY <1>2, <2>1, <2>2, <2>3
<1> QED  BY <1>3, <1>4, <1>5

\* Where n words go, for the indices r and w of a ring of R words.
Fits(R, w, r, n, pad, at) ==
  /\ R \in Nat \ {0} /\ w \in 0 .. (R - 1) /\ r \in 0 .. (R - 1) /\ n \in Nat
  /\ pad = IF w + n > R THEN R - w ELSE 0
  /\ at = (w + pad) % R
  /\ ((w - r) % R) + pad + n < R

Placed(R, w, r, n, pad, at) ==
  /\ pad \in Nat /\ at \in 0 .. (R - 1) /\ at + n \in 0 .. R
  /\ (at + n) % R = IF at + n = R THEN 0 ELSE at + n
  /\ IF pad > 0 THEN at = 0 /\ n > 0 /\ r <= w /\ n < r
     ELSE at = w /\ (IF r <= w THEN w - r + n < R ELSE w + n < r)

LEMMA Layout ==
  ASSUME NEW R, NEW w, NEW r, NEW n, NEW pad, NEW at, Fits(R, w, r, n, pad, at)
  PROVE  Placed(R, w, r, n, pad, at)
<1> USE DEF Fits
<1>1. (w - r) % R = IF r <= w THEN w - r ELSE w - r + R
  <2>1. CASE r <= w
    <3>1. w - r \in 0 .. (R - 1)  BY <2>1
    <3> QED  BY <2>1, <3>1, Wraps
  <2>2. CASE r > w
    <3>1. w - r + R \in 0 .. (R - 1) /\ (w - r + R) - R = w - r  BY <2>2
    <3>2. ((w - r + R) - R) % R = w - r + R  BY <3>1, Wraps
    <3> QED  BY <2>2, <3>1, <3>2
  <2> QED  BY <2>1, <2>2
<1>2. pad \in Nat  OBVIOUS
<1>3. IF pad > 0 THEN at = 0 ELSE at = w
  <2>1. CASE w + n > R
    <3>1. w + pad = R /\ pad > 0  BY <2>1
    <3> QED  BY <2>1, <3>1, Wraps
  <2>2. CASE ~ (w + n > R)
    <3>1. w + pad = w /\ ~ (pad > 0)  BY <2>2
    <3> QED  BY <3>1, Wraps
  <2> QED  BY <2>1, <2>2
<1>4. IF pad > 0 THEN n > 0 /\ r <= w /\ n < r
      ELSE w + n <= R /\ (IF r <= w THEN w - r + n < R ELSE w + n < r)
  BY <1>1, <1>2
<1>5. at \in 0 .. (R - 1) /\ at + n \in 0 .. R
  BY <1>3, <1>4
<1>6. (at + n) % R = IF at + n = R THEN 0 ELSE at + n
  <2>1. CASE at + n = R  BY <2>1, Wraps
  <2>2. CASE at + n # R
    <3>1. at + n \in 0 .. (R - 1)  BY <1>5, <2>2
    <3> QED  BY <2>2, <3>1, Wraps
  <2> QED  BY <2>1, <2>2
<1> QED  BY <1>2, <1>3, <1>4, <1>5, <1>6 DEF Placed

LEMMA ItemMeant ==
  ASSUME NEW i \in DOMAIN Menu
  PROVE  /\ i \in Nat \ {0} /\ Len(Menu[i].words) \in Nat
         /\ Decodes(Menu[i].words, OfItem[i])
         /\ Frame(1, Len(Menu[i].words), 0) \in DOMAIN OfItem[i]
         /\ Menu[i].commands = OfItem[i][Frame(1, Len(Menu[i].words), 0)]
         /\ Menu[i].commands \in Seq(Commands)
         /\ Len(Menu[i].words) = 0 => Menu[i].commands = <<>>
<1> DEFINE n == Len(Menu[i].words)
           f == Frame(1, n, 0)
<1>1. /\ n \in Nat /\ Decodes(Menu[i].words, OfItem[i]) /\ f \in DOMAIN OfItem[i]
      /\ Menu[i].commands = OfItem[i][f]
  BY TitleAssumption DEF ItemIsRead
<1>2. f.at = 1 /\ f.end = 1 + n  BY DEF Frame
<1> HIDE DEF f
<1>3. OfItem[i][f] \in Seq(Commands) /\ (f.at >= f.end => OfItem[i][f] = <<>>)
  BY <1>1 DEF Decodes
<1>4. n = 0 => f.at >= f.end  BY <1>2
<1>5. i \in Nat \ {0}  BY PacketAssumption
<1> QED  BY <1>1, <1>3, <1>4, <1>5 DEF f

\* E continues what D has with C, at the words that are there already.
Lengthens(D, E, C) ==
  /\ E[batch] = D[batch] \o C
  /\ batch < rptr => E[RingSize] = D[RingSize] \o C
  /\ \A a \in 0 .. (RingSize - 1) : Used(a) =>
       /\ Used(a)' /\ ring'[a] = ring[a]
       /\ E[a] = D[a] \o C

\* The ring has the new words behind the old ones, and what is behind an old word
\* is longer by what the new ones command.
LEMMA RingSubmit ==
  ASSUME NEW D, RingInv(D), NEW i \in DOMAIN Menu, Submit(i)
  PROVE  \E E : RingInv(E)' /\ Lengthens(D, E, Menu[i].commands)
<1> DEFINE R == RingSize
           n == Len(Menu[i].words)
           C == Menu[i].commands
           pad == IF wptr + n > R THEN R - wptr ELSE 0
           at == (wptr + pad) % R
           New(a) == a \in at .. (at + n - 1)
           Padding(a) == pad > 0 /\ a >= wptr
           F(k) == [at |-> k, end |-> n + 1, depth |-> 0]
           Used1(a) == IF rptr' <= wptr' THEN rptr' <= a /\ a < wptr' ELSE rptr' <= a \/ a < wptr'
           IsItem1(a) == ring'[a] # <<0, 0>>
           Item1(a) == ring'[a][1]
           Pos1(a) == ring'[a][2]
           Words1(a) == Menu[Item1(a)].words
           Last1(a) == a + Len(Words1(a)) - Pos1(a)
           Frame1(a) == [at |-> Pos1(a), end |-> Len(Words1(a)) + 1, depth |-> 0]
<1>1. /\ R \in Nat \ {0} /\ wptr \in 0 .. (R - 1) /\ rptr \in 0 .. (R - 1)
      /\ batch \in 0 .. (R - 1) /\ lastWptr \in 0 .. (R - 1) /\ rptr = lastWptr
      /\ Used(batch) \/ batch = wptr
      /\ DOMAIN ring = 0 .. (R - 1)
  BY PacketAssumption DEF RingInv, RingTyped
<1>2. /\ i \in Nat \ {0} /\ n \in Nat /\ Decodes(Menu[i].words, OfItem[i])
      /\ F(1) \in DOMAIN OfItem[i] /\ C = OfItem[i][F(1)] /\ C \in Seq(Commands)
      /\ n = 0 => C = <<>>
  <2>1. Frame(1, n, 0) = F(1)  BY ItemMeant DEF Frame
  <2> QED  BY <2>1, ItemMeant
<1>3. /\ pad \in Nat /\ at \in 0 .. (R - 1) /\ at + n \in 0 .. R
      /\ (at + n) % R = IF at + n = R THEN 0 ELSE at + n
      /\ IF pad > 0 THEN at = 0 /\ n > 0 /\ rptr <= wptr /\ n < rptr
         ELSE at = wptr /\ (IF rptr <= wptr THEN wptr - rptr + n < R ELSE wptr + n < rptr)
  <2>1. Fits(R, wptr, rptr, n, pad, at)  BY <1>1, <1>2 DEF Fits, Submit
  <2> HIDE DEF n, at, pad
  <2>2. Placed(R, wptr, rptr, n, pad, at)  BY <2>1, Layout
  <2> QED  BY <2>2 DEF Placed
<1>4. /\ wptr' = (IF at + n = R THEN 0 ELSE at + n) /\ wptr' \in 0 .. (R - 1)
      /\ rptr' = rptr /\ batch' = batch /\ lastWptr' = lastWptr
  <2>1. wptr' = (at + n) % R  BY DEF Submit
  <2>2. rptr' = rptr /\ batch' = batch /\ lastWptr' = lastWptr
    BY DEF Submit, pumpVars
  <2> HIDE DEF n, at, pad
  <2>3. wptr' = IF at + n = R THEN 0 ELSE at + n  BY <1>3, <2>1
  <2>4. at + n \in 0 .. R /\ R \in Nat \ {0}  BY <1>1, <1>3
  <2>5. wptr' \in 0 .. (R - 1)  BY <2>3, <2>4
  <2> QED  BY <2>2, <2>3, <2>5
<1>5. /\ DOMAIN ring' = 0 .. (R - 1)
      /\ \A a \in 0 .. (R - 1) :
           ring'[a] = IF New(a) THEN <<i, a - at + 1>>
                      ELSE IF Padding(a) THEN <<0, 0>> ELSE ring[a]
  <2>1. ring' = [a \in DOMAIN ring |->
                   IF New(a) THEN <<i, a - at + 1>>
                   ELSE IF Padding(a) THEN <<0, 0>> ELSE ring[a]]
    BY DEF Submit
  <2> HIDE DEF n, at, pad, New, Padding
  <2> QED  BY <1>1, <2>1
<1>6. \A a \in 0 .. (R - 1) : Used1(a) <=> Used(a) \/ New(a) \/ Padding(a)
  <2> HIDE DEF n, at, pad
  <2> QED  BY <1>1, <1>2, <1>3, <1>4 DEF Used
<1>7. \A a \in 0 .. (R - 1) : Used(a) => ~ New(a) /\ ~ Padding(a) /\ a # wptr' /\ a # wptr
  <2> HIDE DEF n, at, pad
  <2> QED  BY <1>1, <1>2, <1>3, <1>4 DEF Used
<1>8. \A a \in 0 .. (R - 1) : New(a) => a # wptr' /\ a - at + 1 \in 1 .. n
  <2> HIDE DEF n, at, pad
  <2>1. at + n = R => (n > 0 => at > 0)
    <3>1. CASE pad > 0  BY <1>1, <1>2, <1>3, <3>1
    <3>2. CASE ~ (pad > 0) /\ rptr <= wptr  BY <1>1, <1>2, <1>3, <3>2
    <3>3. CASE ~ (pad > 0) /\ ~ (rptr <= wptr)  BY <1>1, <1>2, <1>3, <3>3
    <3> QED  BY <3>1, <3>2, <3>3
  <2> QED  BY <1>1, <1>2, <1>3, <1>4, <2>1
<1>9. \A a \in 0 .. (R - 1) : Padding(a) => ~ New(a) /\ a # wptr'
  <2> HIDE DEF n, at, pad
  <2> QED  BY <1>1, <1>2, <1>3, <1>4
<1> DEFINE Entry(b) ==
             IF b = wptr' THEN <<>>
             ELSE IF New(b)
             THEN IF F(b - at + 1) \in DOMAIN OfItem[i] THEN OfItem[i][F(b - at + 1)] ELSE <<>>
             ELSE IF Padding(b) THEN C ELSE D[b] \o C
<1>10. PICK E : E = [a \in 0 .. R |-> Entry(IF a = R THEN 0 ELSE a)]  OBVIOUS
<1> HIDE DEF n, at, pad, C
<1>11. /\ DOMAIN E = 0 .. R /\ E[R] = Entry(0)
       /\ \A a \in 0 .. (R - 1) : E[a] = Entry(a) /\ E[a] \in Seq(Commands)
  <2>1. DOMAIN E = 0 .. R /\ E[R] = Entry(0)
    BY <1>1, <1>10
  <2>2. \A a \in 0 .. (R - 1) : E[a] = Entry(a)  BY <1>1, <1>10
  <2>3. ASSUME NEW a \in 0 .. (R - 1) PROVE Entry(a) \in Seq(Commands)
    <3>1. <<>> \in Seq(Commands)  OBVIOUS
    <3>2. \A f \in DOMAIN OfItem[i] : OfItem[i][f] \in Seq(Commands)
      BY <1>2 DEF Decodes
    <3>3. D[a] \in Seq(Commands)
      <4>1. a \in 0 .. R  BY <1>1
      <4> QED  BY <4>1 DEF RingInv, Reads
    <3>4. D[a] \o C \in Seq(Commands)  BY <1>2, <3>3, ConcatProperties
    <3> HIDE DEF F
    <3> QED  BY <1>2, <3>1, <3>2, <3>4
  <2> HIDE DEF Entry
  <2> QED  BY <2>1, <2>2, <2>3
<1>12. \A a \in 0 .. (R - 1) : Used(a) => Entry(a) = D[a] \o C
  BY <1>7
<1>13. Entry(wptr) = C /\ D[wptr] \o C = C
  <2>1. D[wptr] \o C = C
    <3>1. D[wptr] = <<>>  BY DEF RingInv, Reads
    <3> QED  BY <1>2, <3>1, ConcatEmptySeq
  <2>2. CASE pad > 0
    <3>1. wptr # wptr' /\ ~ New(wptr) /\ Padding(wptr)
      BY <1>1, <1>9, <2>2
    <3> QED  BY <2>1, <3>1
  <2>3. CASE ~ (pad > 0) /\ n = 0
    <3>1. wptr' = wptr  BY <1>1, <1>3, <1>4, <2>3
    <3> QED  BY <1>2, <2>1, <2>3, <3>1
  <2>4. CASE ~ (pad > 0) /\ n # 0
    <3>0. pad = 0  BY <1>3, <2>4
    <3>1. New(wptr) /\ wptr - at + 1 = 1  BY <1>1, <1>2, <1>3, <2>4, <3>0
    <3>2. wptr # wptr'  BY <1>1, <1>8, <3>1
    <3> QED  BY <1>2, <2>1, <3>1, <3>2
  <2> QED  BY <2>2, <2>3, <2>4
<1>14. E[batch] = D[batch] \o C
  <2> HIDE DEF Entry
  <2> QED  BY <1>1, <1>11, <1>12, <1>13
<1>15. wptr < rptr => E[R] = D[R] \o C
  <2> SUFFICES ASSUME wptr < rptr PROVE E[R] = D[R] \o C  OBVIOUS
  <2>1. 0 \in 0 .. (R - 1) /\ (Used(0) \/ wptr = 0)  BY <1>1 DEF Used
  <2>2. Entry(0) = D[0] \o C
    <3> HIDE DEF Entry
    <3> QED  BY <1>12, <1>13, <2>1
  <2>3. D[R] = D[0]  BY DEF RingInv, Reads
  <2> HIDE DEF Entry
  <2> QED  BY <1>11, <2>2, <2>3
<1>16. batch < rptr => wptr < rptr
  BY <1>1 DEF Used
<1>17. \A a \in 0 .. (R - 1) : Used(a) =>
         Used1(a) /\ ring'[a] = ring[a] /\ E[a] = D[a] \o C
  <2> HIDE DEF Entry, New, Padding
  <2> QED  BY <1>5, <1>6, <1>7, <1>11, <1>12
<1>18. RingTyped'
  <2>1. ring' \in [0 .. (R - 1) -> {<<0, 0>>} \union
                     UNION {{k} \X (1 .. Len(Menu[k].words)) : k \in DOMAIN Menu}]
    <3> DEFINE V == {<<0, 0>>} \union UNION {{k} \X (1 .. Len(Menu[k].words)) : k \in DOMAIN Menu}
    <3>1. ASSUME NEW a \in 0 .. (R - 1) PROVE ring'[a] \in V
      <4>1. CASE New(a)
        <5>1. a - at + 1 \in 1 .. Len(Menu[i].words)  BY <1>8, <4>1 DEF n
        <5>2. ring'[a] = <<i, a - at + 1>>  BY <1>5, <4>1
        <5> QED  BY <5>1, <5>2
      <4>2. CASE ~ New(a)
        <5>1. ring[a] \in V  BY DEF RingInv, RingTyped
        <5>2. ring'[a] \in {<<0, 0>>, ring[a]}  BY <1>5, <4>2
        <5> QED  BY <5>1, <5>2
      <4> QED  BY <4>1, <4>2
    <3>2. ring' = [a \in 0 .. (R - 1) |-> ring'[a]]
      BY DEF Submit, RingInv, RingTyped
    <3> QED  BY <3>1, <3>2
  <2>2. Used1(batch) \/ batch = wptr'
    <3>1. CASE Used(batch)  BY <1>1, <1>6, <3>1
    <3>2. CASE batch = wptr
      <4>1. wptr = wptr' \/ New(wptr) \/ Padding(wptr)  BY <1>1, <1>2, <1>3, <1>4
      <4>2. wptr = wptr' \/ Used1(wptr)  BY <1>1, <1>6, <4>1
      <4> QED  BY <3>2, <4>2
    <3> QED  BY <1>1, <3>1, <3>2
  <2> QED  BY <1>1, <1>4, <2>1, <2>2 DEF RingTyped, Used
<1>19. \A a \in 0 .. (R - 1) : Used(a) /\ IsItem1(a) =>
         /\ IsItem(a) /\ Item1(a) = Item(a) /\ Pos1(a) = Pos(a) /\ Words1(a) = Words(a)
         /\ Last1(a) = Last(a) /\ Frame1(a) = ItemFrame(a)
  BY <1>17 DEF IsItem, Item, Pos, Words, Last, ItemFrame
<1>20. \A a \in 0 .. (R - 1) : New(a) =>
         /\ Item1(a) = i /\ Pos1(a) = a - at + 1 /\ Words1(a) = Menu[i].words
         /\ Last1(a) = at + n - 1 /\ Frame1(a) = F(a - at + 1)
  <2> SUFFICES ASSUME NEW a \in 0 .. (R - 1), New(a)
               PROVE  /\ Item1(a) = i /\ Pos1(a) = a - at + 1 /\ Words1(a) = Menu[i].words
                      /\ Last1(a) = at + n - 1 /\ Frame1(a) = F(a - at + 1)
    OBVIOUS
  <2>1. Item1(a) = i /\ Pos1(a) = a - at + 1  BY <1>5
  <2>2. Words1(a) = Menu[i].words  BY <2>1
  <2>3. Last1(a) = at + n - 1
    <3>1. Last1(a) = a + n - (a - at + 1)  BY <2>1, <2>2 DEF n
    <3> QED  BY <1>1, <1>2, <1>3, <3>1
  <2> QED  BY <2>1, <2>2, <2>3 DEF n
<1>21. \A a \in 0 .. (R - 1) : Padding(a) => ~ IsItem1(a)
  BY <1>5, <1>9
<1>22. ItemsWhole'
  <2> SUFFICES ASSUME NEW a \in 0 .. (R - 1), Used1(a), IsItem1(a)
               PROVE  /\ a < batch => Last1(a) < batch
                      /\ \A j \in 1 .. Len(Words1(a)) :
                           LET b == a - Pos1(a) + j
                           IN b \in 0 .. (R - 1) /\ Used1(b) /\ ring'[b] = <<Item1(a), j>>
    BY <1>4 DEF ItemsWhole, Used, IsItem, Item, Pos, Words, Last
  <2>1. CASE Used(a)
    <3>1. /\ IsItem(a) /\ Item1(a) = Item(a) /\ Pos1(a) = Pos(a) /\ Words1(a) = Words(a)
          /\ Last1(a) = Last(a)
      BY <1>19, <2>1
    <3>2. /\ a < batch => Last(a) < batch
          /\ \A j \in 1 .. Len(Words(a)) :
               LET b == a - Pos(a) + j
               IN b \in 0 .. (R - 1) /\ Used(b) /\ ring[b] = <<Item(a), j>>
      BY <2>1, <3>1 DEF RingInv, ItemsWhole
    <3>3. ASSUME NEW j \in 1 .. Len(Words(a))
          PROVE  LET b == a - Pos(a) + j
                 IN b \in 0 .. (R - 1) /\ Used1(b) /\ ring'[b] = <<Item(a), j>>
      BY <1>17, <3>2
    <3> QED  BY <3>1, <3>2, <3>3
  <2>2. CASE New(a)
    <3>1. /\ Item1(a) = i /\ Pos1(a) = a - at + 1 /\ Words1(a) = Menu[i].words
          /\ Last1(a) = at + n - 1
      BY <1>20, <2>2
    <3>2. a < batch => Last1(a) < batch
      <4>1. a < batch => at + n - 1 < batch
        <5>1. CASE Used(batch)
          <6>1. ~ New(batch)  BY <1>1, <1>7, <5>1
          <6> QED  BY <1>1, <1>2, <1>3, <2>2, <6>1
        <5>2. CASE batch = wptr
          BY <1>1, <1>2, <1>3, <2>2, <5>2
        <5> QED  BY <1>1, <5>1, <5>2
      <4> QED  BY <3>1, <4>1
    <3>3. ASSUME NEW j \in 1 .. n
          PROVE  LET b == a - (a - at + 1) + j
                 IN b \in 0 .. (R - 1) /\ Used1(b) /\ ring'[b] = <<i, j>>
      <4> DEFINE b == a - (a - at + 1) + j
      <4>1. b = at + j - 1 /\ b \in 0 .. (R - 1) /\ New(b) /\ b - at + 1 = j
        BY <1>1, <1>2, <1>3
      <4> HIDE DEF b
      <4>2. Used1(b) /\ ring'[b] = <<i, j>>  BY <1>5, <1>6, <4>1
      <4> QED  BY <4>1, <4>2 DEF b
    <3> QED  BY <3>1, <3>2, <3>3 DEF n
  <2> QED  BY <1>6, <1>21, <2>1, <2>2
<1>23. Reads(E)'
  <2>1. E \in [0 .. R -> Seq(Commands)] /\ E[R] = E[0] /\ E[wptr'] = <<>>
    <3>1. 0 \in 0 .. (R - 1)  BY <1>1
    <3>2. E[R] = E[0] /\ E[R] \in Seq(Commands)
      <4> HIDE DEF Entry
      <4> QED  BY <1>11, <3>1
    <3>3. E[wptr'] = <<>>
      <4>1. Entry(wptr') = <<>>  OBVIOUS
      <4> HIDE DEF Entry
      <4> QED  BY <1>4, <1>11, <4>1
    <3>4. \A a \in 0 .. R : E[a] \in Seq(Commands)
      <4>1. \A a \in 0 .. R : a = R \/ a \in 0 .. (R - 1)  BY <1>1
      <4> HIDE DEF Entry
      <4> QED  BY <1>11, <3>2, <4>1
    <3>5. E = [a \in 0 .. R |-> E[a]]
      <4> HIDE DEF Entry
      <4> QED  BY <1>10
    <3> QED  BY <3>2, <3>3, <3>4, <3>5
  <2>2. ASSUME NEW a \in 0 .. (R - 1), Used1(a)
        PROVE  IF IsItem1(a)
               THEN Frame1(a) \in DOMAIN OfItem[Item1(a)] =>
                      E[a] = OfItem[Item1(a)][Frame1(a)] \o E[Last1(a) + 1]
               ELSE E[a] = E[a + 1]
    <3>1. CASE Used(a) /\ IsItem1(a)
      <4>1. /\ IsItem(a) /\ Item1(a) = Item(a) /\ Frame1(a) = ItemFrame(a)
            /\ Last1(a) = Last(a)
        BY <1>19, <3>1
      <4> SUFFICES ASSUME ItemFrame(a) \in DOMAIN OfItem[Item(a)]
                   PROVE  E[a] = OfItem[Item(a)][ItemFrame(a)] \o E[Last(a) + 1]
        BY <3>1, <4>1
      <4>2. D[a] = OfItem[Item(a)][ItemFrame(a)] \o D[Last(a) + 1]
        BY <3>1, <4>1 DEF RingInv, Reads
      <4>3. E[a] = D[a] \o C  BY <1>17, <3>1
      <4>4. E[Last(a) + 1] = D[Last(a) + 1] \o C /\ Last(a) + 1 \in 0 .. R
        <5>1. Len(Words(a)) \in 1 .. Len(Words(a)) /\ Pos(a) \in Nat
              /\ a - Pos(a) + Len(Words(a)) = Last(a)
          <6>1. Len(Words(a)) \in Nat /\ Pos(a) \in 1 .. Len(Words(a))
            BY <4>1, ItemTyped DEF RingInv
          <6> QED  BY <1>1, <6>1 DEF Last
        <5>2. Last(a) \in 0 .. (R - 1) /\ Used(Last(a))
          BY <3>1, <4>1, <5>1, ItemWords DEF RingInv
        <5> DEFINE b == Last(a) + 1
        <5>3. b \in 0 .. R /\ (b = R \/ (b \in 0 .. (R - 1) /\ (Used(b) \/ b = wptr)))
              /\ (b = R => wptr < rptr)
          BY <1>1, <5>2 DEF Used
        <5> HIDE DEF b, Entry
        <5>4. b = R => E[b] = D[b] \o C  BY <1>15, <5>3
        <5>5. b \in 0 .. (R - 1) /\ Used(b) => E[b] = D[b] \o C  BY <1>17
        <5>6. b = wptr => E[b] = D[b] \o C  BY <1>1, <1>11, <1>13
        <5>7. E[b] = D[b] \o C  BY <5>3, <5>4, <5>5, <5>6
        <5> QED  BY <5>3, <5>7 DEF b
      <4>5. OfItem[Item(a)][ItemFrame(a)] \in Seq(Commands) /\ D[Last(a) + 1] \in Seq(Commands)
        <5>1. Item(a) \in DOMAIN Menu  BY <4>1, ItemTyped DEF RingInv
        <5>2. Decodes(Menu[Item(a)].words, OfItem[Item(a)])  BY <5>1, ItemMeant
        <5>3. OfItem[Item(a)][ItemFrame(a)] \in Seq(Commands)  BY <5>2 DEF Decodes
        <5> QED  BY <4>4, <5>3 DEF RingInv, Reads
      <4>6. (OfItem[Item(a)][ItemFrame(a)] \o D[Last(a) + 1]) \o C
              = OfItem[Item(a)][ItemFrame(a)] \o (D[Last(a) + 1] \o C)
        <5> DEFINE x == OfItem[Item(a)][ItemFrame(a)]
                   y == D[Last(a) + 1]
        <5>1. x \in Seq(Commands) /\ y \in Seq(Commands) /\ C \in Seq(Commands)
          BY <1>2, <4>5
        <5> HIDE DEF x, y, Entry
        <5>2. (x \o y) \o C = x \o (y \o C)  BY <5>1, ConcatAssociative
        <5> QED  BY <5>2 DEF x, y
      <4> HIDE DEF Entry
      <4> QED  BY <4>2, <4>3, <4>4, <4>6
    <3>2. CASE Used(a) /\ ~ IsItem1(a)
      <4>1. ~ IsItem(a)  BY <1>17, <3>2 DEF IsItem
      <4>2. D[a] = D[a + 1]  BY <3>2, <4>1 DEF RingInv, Reads
      <4> DEFINE b == a + 1
      <4>3. b \in 0 .. R /\ (b = R \/ (b \in 0 .. (R - 1) /\ (Used(b) \/ b = wptr)))
            /\ (b = R => wptr < rptr)
        BY <1>1, <3>2 DEF Used
      <4> HIDE DEF b, Entry
      <4>4. b = R => E[b] = D[b] \o C  BY <1>15, <4>3
      <4>5. b \in 0 .. (R - 1) /\ Used(b) => E[b] = D[b] \o C  BY <1>17
      <4>6. b = wptr => E[b] = D[b] \o C  BY <1>1, <1>11, <1>13
      <4>7. E[b] = D[b] \o C  BY <4>3, <4>4, <4>5, <4>6
      <4>8. E[a] = D[a] \o C  BY <1>17, <3>2
      <4> QED  BY <3>2, <4>2, <4>7, <4>8 DEF b
    <3>3. CASE New(a)
      <4>1. /\ Item1(a) = i /\ Last1(a) = at + n - 1 /\ Frame1(a) = F(a - at + 1)
        BY <1>20, <3>3
      <4>2. IsItem1(a)  BY <1>2, <1>5, <3>3
      <4> SUFFICES ASSUME F(a - at + 1) \in DOMAIN OfItem[i]
                   PROVE  E[a] = OfItem[i][F(a - at + 1)] \o E[at + n]
        <5>1. Last1(a) + 1 = at + n  BY <1>2, <1>3, <4>1
        <5> HIDE DEF Entry, Last1, F, Frame1, Item1, IsItem1
        <5> QED  BY <4>1, <4>2, <5>1
      <4>3. E[a] = OfItem[i][F(a - at + 1)]
        <5>1. Entry(a) = OfItem[i][F(a - at + 1)]  BY <1>8, <3>3
        <5> HIDE DEF Entry
        <5> QED  BY <1>11, <5>1
      <4>4. E[at + n] = <<>>
        <5> HIDE DEF Entry
        <5> QED  BY <1>3, <1>4, <2>1
      <4>5. E[a] \in Seq(Commands)
        <5> HIDE DEF Entry
        <5> QED  BY <1>11
      <4> QED  BY <4>3, <4>4, <4>5, ConcatEmptySeq
    <3>4. CASE Padding(a)
      <4>1. ~ IsItem1(a)  BY <1>21, <3>4
      <4>2. Entry(a) = C  BY <1>9, <3>4
      <4>3. CASE a + 1 = R
        <5>1. New(0) /\ 0 - at + 1 = 1 /\ 0 \in 0 .. (R - 1)  BY <1>1, <1>2, <1>3, <3>4
        <5>2. Entry(0) = C  BY <1>2, <1>8, <5>1
        <5> HIDE DEF Entry
        <5> QED  BY <1>11, <4>1, <4>2, <4>3, <5>2
      <4>4. CASE a + 1 # R
        <5>1. a + 1 \in 0 .. (R - 1) /\ Padding(a + 1)  BY <1>1, <3>4, <4>4
        <5>2. Entry(a + 1) = C  BY <1>9, <5>1
        <5> HIDE DEF Entry
        <5> QED  BY <1>11, <4>1, <4>2, <5>1, <5>2
      <4> QED  BY <4>3, <4>4
    <3> QED  BY <1>6, <2>2, <3>1, <3>2, <3>3, <3>4
  <2> QED  BY <2>1, <2>2 DEF Reads, Used, IsItem, Item, Pos, Words, Last, ItemFrame
<1> QED
  <2>1. RingInv(E)'  BY <1>18, <1>22, <1>23 DEF RingInv
  <2>2. \A a \in 0 .. (R - 1) : Used(a) =>
          Used(a)' /\ ring'[a] = ring[a] /\ E[a] = D[a] \o C
    BY <1>17 DEF Used
  <2> HIDE DEF Entry
  <2>3. Lengthens(D, E, C)  BY <1>14, <1>15, <1>16, <2>2 DEF Lengthens
  <2> QED  BY <2>1, <2>3 DEF C

Continued(s, T, E, C) ==
  \E U : IsChain(s, U, E)' /\ U[1] = T[1] \o C /\ U[Len(U)] = T[Len(T)] \o C

\* A call of the pump stands for the longer stream when the title has submitted.
LEMMA ChainSubmitted ==
  ASSUME NEW D, NEW E, NEW C \in Seq(Commands), RingTyped, RingInv(E)',
         D \in [0 .. RingSize -> Seq(Commands)],
         NEW s \in Seq(Frames), NEW T, IsChain(s, T, D),
         batch' = batch, rptr' = rptr,
         Lengthens(D, E, C)
  PROVE  Continued(s, T, E, C)
<1> USE DEF Lengthens
<1> DEFINE U == [j \in 1 .. Len(T) |-> T[j] \o C]
<1>1. /\ RingSize \in Nat \ {0} /\ batch \in 0 .. (RingSize - 1) /\ batch \in 0 .. RingSize
      /\ RingSize \in 0 .. RingSize
  BY PacketAssumption DEF RingTyped
<1>2. /\ T \in Seq(Seq(Commands)) /\ Len(T) = Len(s) + 1 /\ Len(s) \in Nat
      /\ 1 \in 1 .. Len(T) /\ Len(T) \in 1 .. Len(T)
  <2>1. Len(s) \in Nat  BY LenProperties
  <2> QED  BY <2>1 DEF IsChain
<1>3. \A j \in 1 .. Len(T) : T[j] \in Seq(Commands) /\ T[j] \o C \in Seq(Commands)
  <2>1. \A j \in 1 .. Len(T) : T[j] \in Seq(Commands)  BY <1>2
  <2> QED  BY <2>1, ConcatProperties
<1>4. U \in Seq(Seq(Commands)) /\ Len(U) = Len(T)
      /\ \A j \in 1 .. Len(T) : U[j] = T[j] \o C
  <2>1. Len(T) \in Nat  BY <1>2
  <2>2. U \in [1 .. Len(T) -> Seq(Commands)]  BY <1>3
  <2> HIDE DEF U
  <2>3. U \in Seq(Seq(Commands)) /\ Len(U) = Len(T)  BY <2>1, <2>2, FunctionIsSeq
  <2> QED  BY <2>3 DEF U
<1> HIDE DEF U
<1>5. ASSUME NEW f \in Frames, NEW t \in Seq(Commands), NEW u \in Seq(Commands),
             Links(f, t, u, D)
      PROVE  Links(f, t \o C, u \o C, E)'
  <2>1. CASE f.depth = 0
    <3>1. /\ f.at <= f.end /\ f.end \in {batch, RingSize}
          /\ f.end = RingSize => batch < rptr
          /\ \A a \in f.at .. (f.end - 1) : Used(a)
          /\ f.at < f.end => Begins(f.at)
          /\ t = D[f.at] /\ u = D[f.end]
          /\ f.at \in Nat /\ f.end \in Nat
      BY <1>5, <2>1 DEF Links, Frames
    <3>2. E[f.end] = D[f.end] \o C  BY <3>1
    <3>3. f.at < f.end => f.at \in 0 .. (RingSize - 1) /\ Used(f.at)
      <4>1. f.end <= RingSize  BY <1>1, <3>1
      <4>2. f.at < f.end => f.at \in 0 .. (RingSize - 1) /\ f.at \in f.at .. (f.end - 1)
        BY <1>1, <3>1, <4>1
      <4> QED  BY <3>1, <4>2
    <3>4. E[f.at] = D[f.at] \o C
      <4>1. CASE f.at < f.end  BY <3>3, <4>1
      <4>2. CASE f.at = f.end  BY <3>2, <4>2
      <4> QED  BY <3>1, <4>1, <4>2
    <3>5. \A a \in f.at .. (f.end - 1) : Used(a)'
      <4>1. \A a \in f.at .. (f.end - 1) : a \in 0 .. (RingSize - 1)
        BY <1>1, <3>1
      <4> QED  BY <3>1, <4>1
    <3>6. f.at < f.end => Begins(f.at)'
      <4>1. f.at < f.end => ring'[f.at] = ring[f.at]  BY <3>3
      <4> QED  BY <3>1, <4>1 DEF Begins, IsItem, Item, ItemFrame, Pos, Words
    <3> QED  BY <2>1, <3>1, <3>2, <3>4, <3>5, <3>6 DEF Links, Frames
  <2>2. CASE f.depth # 0
    <3>1. OfBuffer[f] \in Seq(Commands) /\ f.at >= RingSize /\ f \in DOMAIN OfBuffer
          /\ t = OfBuffer[f] \o u
      BY <1>5, <2>2, TitleAssumption DEF Links, Decodes
    <3>2. t \o C = OfBuffer[f] \o (u \o C)
      <4>1. PICK c : c = OfBuffer[f]  OBVIOUS
      <4>2. c \in Seq(Commands) /\ u \in Seq(Commands) /\ C \in Seq(Commands)
            /\ t = c \o u
        BY <1>5, <3>1, <4>1
      <4>3. (c \o u) \o C = c \o (u \o C)  BY <4>2, ConcatAssociative
      <4> QED  BY <4>1, <4>2, <4>3
    <3> QED  BY <2>2, <3>1, <3>2 DEF Links, Frames
  <2> QED  BY <2>1, <2>2
<1>6. ASSUME NEW j \in 1 .. Len(s) PROVE Links(s[j], U[j], U[j + 1], E)'
  <2>1. j \in 1 .. Len(T) /\ j + 1 \in 1 .. Len(T)  BY <1>2
  <2>2. s[j] \in Frames  BY ElementOfSeq
  <2>3. Links(s[j], T[j], T[j + 1], D)  BY DEF IsChain
  <2> QED  BY <1>3, <1>4, <1>5, <2>1, <2>2, <2>3
<1>7. IsChain(s, U, E)'
  BY <1>2, <1>4, <1>6 DEF IsChain
<1> QED  BY <1>2, <1>4, <1>7 DEF Continued

-----------------------------------------------------------------------------
(* A step of ExecutePM4.                                                    *)

Types ==
  /\ mode \in Modes
  /\ stack \in [Executors -> Seq(Frames)]
  /\ todo \in [Executors -> Seq(Commands)]
  /\ built \in 0 .. Len(Directory) /\ cursor \in 0 .. built
  /\ swapAt \in {"out", "scan"}
  /\ irqs \in [0 .. 5 -> Nat]
  /\ regs = [r \in Regs |-> regs[r]]

\* What is left for e is what is behind its calls, and t when they have returned.
Owes(e, t, D) ==
  \E T : IsChain(stack[e], T, D) /\ T[1] = todo[e] /\ T[Len(T)] = t

Effective(e) ==
  \/ Type0(e) \/ Type1(e) \/ Interrupt(e) \/ EventWriteShd(e) \/ EventWrite(e)
  \/ SetConstant(e) \/ XeSwap(e) \/ Draw(e)

\* A packet is carried out by the action that is made for it.
LEMMA Dispatch ==
  ASSUME NEW e, Interpret(e), Running(e), More(e)
  PROVE  /\ Idle(Packet(e)) => Skip(e) \/ Ignored(e)
         /\ Calls(Packet(e)) => IndirectBuffer(e)
         /\ \A c, p, n : p[0] = Packet(e) /\ Describes(c, p, n) => Effective(e)
<1>1. /\ Skip(e) => Packet(e).type \in {"zero", "T2"}
      /\ Type0(e) => Packet(e).type = "T0"
      /\ Type1(e) => Packet(e).type = "T1"
      /\ ~ Return(e)
  BY DEF Skip, Type0, Type1, Return
<1>2. /\ IndirectBuffer(e) => Packet(e).type = "T3" /\ Packet(e).op \in {"IB", "IB_PFD"}
      /\ Interrupt(e) => Packet(e).type = "T3" /\ Packet(e).op = "INTERRUPT"
      /\ EventWriteShd(e) => Packet(e).type = "T3" /\ Packet(e).op = "EVENT_WRITE_SHD"
      /\ EventWrite(e) => /\ Packet(e).type = "T3"
                          /\ Packet(e).op \in {"EVENT_WRITE", "EVENT_WRITE_EXT"}
      /\ SetConstant(e) => /\ Packet(e).type = "T3"
                           /\ Packet(e).op \in {"SET_CONSTANT", "SET_CONSTANT2"}
  BY DEF IndirectBuffer, Interrupt, EventWriteShd, EventWrite, SetConstant, Type3
<1>3. /\ XeSwap(e) => Packet(e).type = "T3" /\ Packet(e).op = "XE_SWAP"
      /\ Draw(e) => Packet(e).type = "T3" /\ Packet(e).op \in {"DRAW_INDX", "DRAW_INDX_2"}
      /\ Ignored(e) => /\ Packet(e).type = "T3"
                       /\ Packet(e).op \in {"NOP", "ME_INIT", "WAIT_REG_MEM", "IM_LOAD_IMMEDIATE"}
  BY DEF XeSwap, Draw, Ignored, Type3
<1>4. \/ Skip(e) \/ Ignored(e) \/ IndirectBuffer(e) \/ Effective(e)
  BY <1>1 DEF Interpret, Effective
<1>5. \A c, p, n : p[0] = Packet(e) /\ Describes(c, p, n) =>
        \/ Packet(e).type \in {"T0", "T1"}
        \/ /\ Packet(e).type = "T3"
           /\ Packet(e).op \in {"SET_CONSTANT", "SET_CONSTANT2", "EVENT_WRITE",
                                "EVENT_WRITE_EXT", "INTERRUPT", "EVENT_WRITE_SHD",
                                "XE_SWAP", "DRAW_INDX", "DRAW_INDX_2"}
  BY DEF Describes, Updates
<1>6. Idle(Packet(e)) => Skip(e) \/ Ignored(e)
  BY <1>1, <1>2, <1>3, <1>4 DEF Idle, Effective
<1>7. Calls(Packet(e)) => IndirectBuffer(e)
  BY <1>1, <1>2, <1>3, <1>4 DEF Calls, Effective
<1>8. \A c, p, n : p[0] = Packet(e) /\ Describes(c, p, n) => Effective(e)
  BY <1>1, <1>2, <1>3, <1>4, <1>5
<1> QED  BY <1>6, <1>7, <1>8

\* The words of the packet at the top of a stack.
LEMMA PacketWords ==
  ASSUME NEW e, Top(e) \in Frames, More(e), WellFormed(Mem[Top(e).at])
  PROVE  LET f == Top(e)
             m == Size(Packet(e), f.end - f.at - 1)
             p == PacketAt(Mem, f)
         IN /\ m \in Nat /\ f.at < f.end
            /\ p[0] = Packet(e)
            /\ \A j \in 1 .. m : p[j] = Datum(e, j - 1)
            /\ Behind(Mem, f) = [f EXCEPT !.at = f.at + 1 + m]
            /\ Behind(Mem, f).at - f.at - 1 = m
            /\ Behind(Mem, f) \in Frames
<1> DEFINE f == Top(e)
           m == Size(Packet(e), f.end - f.at - 1)
           p == PacketAt(Mem, f)
<1>1. f \in Frames /\ f.at \in Nat /\ f.end \in Nat /\ f.at < f.end
      /\ f.end - f.at - 1 \in Nat
  BY DEF More, Frames
<1>2. Mem[f.at] = Packet(e)  BY <1>1 DEF Mem, Packet
<1>3. m \in Nat  BY <1>1, <1>2, SizeTyped
<1>4. Behind(Mem, f) = [f EXCEPT !.at = f.at + 1 + m]
  BY <1>1, <1>2 DEF Behind, Frames
<1> HIDE DEF m
<1>5. p = [j \in 0 .. m |-> Mem[f.at + j]]
  BY <1>2 DEF PacketAt, m
<1>6. p[0] = Packet(e)
  <2>1. f.at + 0 = f.at /\ 0 \in 0 .. m  BY <1>1, <1>3
  <2> QED  BY <1>2, <1>5, <2>1
<1>7. ASSUME NEW j \in 1 .. m PROVE p[j] = Datum(e, j - 1)
  <2>1. f.at + j \in Nat /\ f.at + 1 + (j - 1) = f.at + j /\ j \in 0 .. m
    BY <1>1, <1>3
  <2>2. p[j] = Load(f.at + j)  BY <1>5, <2>1 DEF Mem
  <2>3. Datum(e, j - 1) = Load(f.at + 1 + (j - 1))  BY DEF Datum
  <2> QED  BY <2>1, <2>2, <2>3
<1>8. Behind(Mem, f) \in Frames /\ Behind(Mem, f).at - f.at - 1 = m
  <2>1. f.at + 1 + m \in Nat  BY <1>1, <1>3
  <2>2. Behind(Mem, f) \in Frames /\ Behind(Mem, f).at = f.at + 1 + m
    BY <1>1, <1>4, <2>1 DEF Frames
  <2> QED  BY <1>1, <1>3, <2>2
<1> QED  BY <1>1, <1>3, <1>4, <1>6, <1>7, <1>8 DEF m

\* All packets but calls move on by their words; the others are carried out.
LEMMA Moves ==
  ASSUME Types, NEW e \in Executors, Running(e), More(e), Top(e) \in Frames,
         WellFormed(Mem[Top(e).at]), Skip(e) \/ Ignored(e) \/ Effective(e)
  PROVE  /\ stack' = [stack EXCEPT ![e] = <<Behind(Mem, Top(e))>> \o Tail(stack[e])]
         /\ Quiet(e)
         /\ IF Skip(e) \/ Ignored(e) THEN UNCHANGED <<effects, todo>> ELSE Carried(e)
<1> DEFINE f == Top(e)
           m == Size(Packet(e), f.end - f.at - 1)
<1>1. Behind(Mem, f) = [f EXCEPT !.at = f.at + 1 + m]
  BY PacketWords
<1>2. \A n : n = m => Advanced(e, n) = [stack EXCEPT ![e] = <<Behind(Mem, f)>> \o Tail(stack[e])]
  <2>1. e \in DOMAIN stack  BY DEF Types
  <2> HIDE DEF m
  <2>2. Advanced(e, m) = [stack EXCEPT ![e] = <<[Top(e) EXCEPT !.at = @ + 1 + m]>> \o Tail(stack[e])]
    BY <2>1 DEF Advanced
  <2>3. [Top(e) EXCEPT !.at = @ + 1 + m] = [f EXCEPT !.at = f.at + 1 + m]
    BY DEF Frames
  <2> QED  BY <1>1, <2>2, <2>3
<1>3. Skip(e) => stack' = Advanced(e, 0) /\ m = 0 /\ Quiet(e) /\ UNCHANGED <<effects, todo>>
  BY DEF Skip, Size
<1>4. Ignored(e) => /\ stack' = Advanced(e, Packet(e).count) /\ m = Packet(e).count
                    /\ Quiet(e) /\ UNCHANGED <<effects, todo>>
  BY DEF Ignored, Type3, Size
<1>5. Type0(e) => stack' = Advanced(e, m) /\ Quiet(e) /\ Carried(e)
  <2> SUFFICES ASSUME Type0(e) PROVE stack' = Advanced(e, m) /\ Quiet(e) /\ Carried(e)
    OBVIOUS
  <2>1. Packet(e).type = "T0"  BY DEF Type0
  <2>2. f.end - f.at - 1 = f.end - f.at - 1  OBVIOUS
  <2>3. m = IF Packet(e).count < f.end - f.at - 1 THEN Packet(e).count ELSE f.end - f.at - 1
    BY <2>1 DEF Size
  <2>4. stack' = Advanced(e, IF Packet(e).count < f.end - f.at - 1
                             THEN Packet(e).count ELSE f.end - f.at - 1)
    BY DEF Type0
  <2>5. Quiet(e) /\ Carried(e)  BY DEF Type0
  <2> HIDE DEF m
  <2> QED  BY <2>3, <2>4, <2>5
<1>6. Type1(e) => stack' = Advanced(e, 2) /\ m = 2 /\ Quiet(e) /\ Carried(e)
  BY DEF Type1, Size
<1>7. Packet(e).type = "T3" => m = Packet(e).count
  BY DEF Size
<1>8. /\ Interrupt(e) => /\ Packet(e).type = "T3" /\ stack' = Advanced(e, Packet(e).count)
                         /\ Quiet(e) /\ Carried(e)
      /\ EventWriteShd(e) => /\ Packet(e).type = "T3" /\ stack' = Advanced(e, Packet(e).count)
                             /\ Quiet(e) /\ Carried(e)
      /\ EventWrite(e) => /\ Packet(e).type = "T3" /\ stack' = Advanced(e, Packet(e).count)
                          /\ Quiet(e) /\ Carried(e)
  BY DEF Interrupt, EventWriteShd, EventWrite, Type3
<1>9. /\ SetConstant(e) => /\ Packet(e).type = "T3" /\ stack' = Advanced(e, Packet(e).count)
                           /\ Quiet(e) /\ Carried(e)
      /\ XeSwap(e) => /\ Packet(e).type = "T3" /\ stack' = Advanced(e, Packet(e).count)
                      /\ Quiet(e) /\ Carried(e)
      /\ Draw(e) => /\ Packet(e).type = "T3" /\ stack' = Advanced(e, Packet(e).count)
                    /\ Quiet(e) /\ Carried(e)
  BY DEF SetConstant, XeSwap, Draw, Type3
<1> HIDE DEF m, f
<1> QED
  BY <1>2, <1>3, <1>4, <1>5, <1>6, <1>7, <1>8, <1>9 DEF Effective, f

LEMMA ChainUnchanged ==
  ASSUME NEW s, NEW T, NEW D, UNCHANGED <<ring, wptr, rptr, lastWptr, batch>>
  PROVE  /\ IsChain(s, T, D) => IsChain(s, T, D)'
         /\ RingInv(D) => RingInv(D)'
<1>1. \A a : Used(a)' <=> Used(a)  BY DEF Used
<1>2. IsChain(s, T, D) => IsChain(s, T, D)'
  BY DEF IsChain, Links, Used, Begins, IsItem, ItemFrame, Item, Pos, Words
<1>3. RingInv(D) => RingInv(D)'
  BY DEF RingInv, RingTyped, ItemsWhole, Reads, Used, Begins, IsItem, ItemFrame, Item, Pos,
         Words, Last
<1> QED  BY <1>2, <1>3

\* The stream of a call goes on behind its packet, in the buffer that the packet
\* calls, or behind the call.
LEMMA StepOwes ==
  ASSUME Types, NEW D, RingInv(D), NEW e \in Executors, NEW t, Owes(e, t, D), Interpret(e)
  PROVE  /\ stack' = [stack EXCEPT ![e] = stack'[e]] /\ stack'[e] \in Seq(Frames)
         /\ (\A j \in 1 .. Len(stack[e]) : stack[e][j].depth # 0)
              => \A j \in 1 .. Len(stack'[e]) : stack'[e][j].depth # 0
         /\ stack[e] # <<>>
         /\ todo' \in [Executors -> Seq(Commands)]
         /\ Quiet(e)
         /\ \E T : IsChain(stack'[e], T, D) /\ T[1] = todo'[e] /\ T[Len(T)] = t
         /\ \/ UNCHANGED <<effects, todo>>
            \/ /\ Effective(e) /\ More(e) /\ Top(e) \in Frames /\ WellFormed(Mem[Top(e).at])
               /\ todo[e] # <<>> /\ todo' = [todo EXCEPT ![e] = Tail(todo[e])]
               /\ Describes(Head(todo[e]), PacketAt(Mem, Top(e)),
                            Size(Packet(e), Top(e).end - Top(e).at - 1))
<1> DEFINE s == stack[e]
           f == Top(e)
           x == todo[e]
           g == Behind(Mem, f)
<1>1. stack \in [Executors -> Seq(Frames)] /\ todo \in [Executors -> Seq(Commands)]
      /\ s \in Seq(Frames) /\ x \in Seq(Commands)
  BY DEF Types
<1>2. PICK T : IsChain(s, T, D) /\ T[1] = x /\ T[Len(T)] = t
  BY DEF Owes
<1>3. s # <<>>
  BY DEF Interpret, Skip, Type0, Type1, IndirectBuffer, Interrupt, EventWriteShd, EventWrite,
         SetConstant, XeSwap, Ignored, Draw, Return, Type3, Running
<1>4. Running(e)  BY <1>3 DEF Running
<1>5. /\ Len(s) \in Nat \ {0} /\ f = s[1] /\ f \in Frames /\ 1 \in 1 .. Len(s)
      /\ Tail(s) \in Seq(Frames) /\ Len(Tail(s)) = Len(s) - 1
      /\ \A j \in 1 .. Len(Tail(s)) : Tail(s)[j] = s[j + 1]
  <2>1. Len(s) \in Nat \ {0}  BY <1>1, <1>3, EmptySeq
  <2>2. f = s[1] /\ f \in Frames /\ 1 \in 1 .. Len(s)  BY <1>1, <1>3, <2>1 DEF Top
  <2> HIDE DEF s
  <2> QED  BY <1>1, <1>3, <2>1, <2>2, HeadTailProperties
<1>6. /\ T \in Seq(Seq(Commands)) /\ Len(T) = Len(s) + 1 /\ T[2] \in Seq(Commands)
      /\ Links(f, x, T[2], D)
  <2>1. T \in Seq(Seq(Commands)) /\ Len(T) = Len(s) + 1
        /\ Links(s[1], T[1], T[1 + 1], D)
    BY <1>2, <1>5 DEF IsChain
  <2>2. 2 \in 1 .. Len(T) /\ 1 + 1 = 2  BY <1>5, <2>1
  <2> QED  BY <1>2, <1>5, <2>1, <2>2
<1>7. CASE ~ More(e)
  <2>1. Return(e)
    BY <1>7 DEF Interpret, Skip, Type0, Type1, IndirectBuffer, Interrupt, EventWriteShd,
         EventWrite, SetConstant, XeSwap, Ignored, Draw, Type3
  <2>2. /\ stack' = [stack EXCEPT ![e] = Tail(s)] /\ Quiet(e) /\ UNCHANGED <<effects, todo>>
        /\ todo' = todo
    BY <2>1 DEF Return
  <2>3. stack'[e] = Tail(s) /\ stack' = [stack EXCEPT ![e] = stack'[e]]
    BY <1>1, <2>2
  <2>4. f.at >= f.end  BY <1>5, <1>7 DEF More, Frames
  <2>5. x = T[2]
    <3>1. CASE f.depth = 0
      BY <1>5, <1>6, <2>4, <3>1 DEF Links, Frames
    <3>2. CASE f.depth # 0
      <4>1. OfBuffer[f] = <<>> /\ x = OfBuffer[f] \o T[2]
        BY <1>6, <2>4, <3>2, TitleAssumption DEF Links, Decodes
      <4> QED  BY <1>6, <4>1, ConcatEmptySeq
    <3> QED  BY <3>1, <3>2
  <2>6. IsChain(Tail(s), Tail(T), D) /\ Tail(T)[1] = T[2] /\ Tail(T)[Len(Tail(T))] = t
    <3> HIDE DEF s
    <3> QED  BY <1>1, <1>2, <1>3, ChainReturns
  <2>7. (\A j \in 1 .. Len(s) : s[j].depth # 0)
          => \A j \in 1 .. Len(Tail(s)) : Tail(s)[j].depth # 0
    BY <1>5
  <2> HIDE DEF s, x
  <2>8. \E U : IsChain(stack'[e], U, D) /\ U[1] = todo'[e] /\ U[Len(U)] = t
    BY <2>2, <2>3, <2>5, <2>6 DEF x
  <2>9. todo' \in [Executors -> Seq(Commands)]  BY <1>1, <2>2
  <2> QED  BY <1>3, <1>5, <2>2, <2>3, <2>7, <2>8, <2>9 DEF s
<1>8. CASE More(e)
  <2>1. f.at < f.end  BY <1>5, <1>8 DEF More, Frames
  <2>2. WellFormed(Mem[f.at])  BY <1>1, <1>6, <2>1, PacketDecoded
  <2>3. PICK rest \in Seq(Commands) :
          /\ Links(g, rest, T[2], D)
          /\ Decoded(PacketAt(Mem, f), g.at - f.at - 1, f.depth, x, rest)
    BY <1>1, <1>6, <2>1, PacketDecoded
  <2> DEFINE p == PacketAt(Mem, f)
             m == Size(Packet(e), f.end - f.at - 1)
  <2>4. /\ p[0] = Packet(e) /\ m \in Nat /\ g.at - f.at - 1 = m /\ g \in Frames
        /\ g = [f EXCEPT !.at = f.at + 1 + m]
        /\ \A j \in 1 .. m : p[j] = Datum(e, j - 1)
    BY <1>5, <1>8, <2>2, PacketWords
  <2>5. g.depth = f.depth  BY <1>5, <2>4 DEF Frames
  <2> DEFINE r == <<g>> \o Tail(s)
  <2>6. /\ r \in Seq(Frames) /\ r # <<>>
        /\ \A j \in 1 .. Len(r) : r[j] = IF j = 1 THEN g ELSE s[j]
        /\ \E U : IsChain(r, U, D) /\ U[1] = rest /\ U[Len(U)] = t
    <3>1. r = <<g>> \o Tail(s)  OBVIOUS
    <3> HIDE DEF s, g, x, r
    <3>2. Chained(s, T, D, g, rest, T[2])
      BY <1>1, <1>2, <2>3, <2>4 DEF Chained
    <3>3. r # <<>> /\ MovedOn(r, s, g) /\ ChainOf(r, rest, T[Len(T)], D)
      BY <1>3, <3>1, <3>2, ChainAdvances
    <3> QED  BY <1>2, <3>3 DEF MovedOn, ChainOf
  <2>7. Len(r) = Len(s)
    <3>1. <<g>> \in Seq(Frames) /\ Len(<<g>>) = 1  BY <2>4
    <3> HIDE DEF s, g
    <3> QED  BY <1>5, <3>1, ConcatProperties
  <2>8. (\A j \in 1 .. Len(s) : s[j].depth # 0) => \A j \in 1 .. Len(r) : r[j].depth # 0
    <3> HIDE DEF r, s, g
    <3> QED  BY <1>5, <2>5, <2>6, <2>7
  <2>9. CASE Idle(p[0]) /\ x = rest
    <3>1. Skip(e) \/ Ignored(e)  BY <1>4, <1>8, <2>4, <2>9, Dispatch
    <3>2. stack' = [stack EXCEPT ![e] = r] /\ Quiet(e) /\ UNCHANGED <<effects, todo>>
      BY <1>4, <1>5, <1>8, <2>2, <3>1, Moves
    <3> HIDE DEF r, s, p, g
    <3>3. stack'[e] = r /\ stack' = [stack EXCEPT ![e] = stack'[e]]
      BY <1>1, <3>2
    <3>4. todo' = todo  BY <3>2
    <3>5. \E U : IsChain(stack'[e], U, D) /\ U[1] = todo'[e] /\ U[Len(U)] = t
      BY <2>6, <2>9, <3>3, <3>4
    <3> QED  BY <1>1, <1>3, <2>6, <2>8, <3>2, <3>3, <3>4, <3>5 DEF s
  <2>10. CASE x # <<>> /\ Tail(x) = rest /\ Describes(Head(x), p, m)
    <3>1. Effective(e)  BY <1>4, <1>8, <2>4, <2>10, Dispatch
    <3>2. ~ Skip(e) /\ ~ Ignored(e)
      <4>1. Skip(e) => Packet(e).type \in {"zero", "T2"}  BY DEF Skip
      <4>2. Ignored(e) => /\ Packet(e).type = "T3"
                          /\ Packet(e).op \in {"NOP", "ME_INIT", "WAIT_REG_MEM", "IM_LOAD_IMMEDIATE"}
        BY DEF Ignored, Type3
      <4> HIDE DEF p, m, x
      <4> QED  BY <2>4, <2>10, <4>1, <4>2 DEF Describes, Updates
    <3>3. stack' = [stack EXCEPT ![e] = r] /\ Quiet(e) /\ Carried(e)
      BY <1>4, <1>5, <1>8, <2>2, <3>1, <3>2, Moves
    <3>4. todo' = [todo EXCEPT ![e] = Tail(x)]
      <4>1. Tail(x) = SubSeq(x, 2, Len(x))
        <5> HIDE DEF x
        <5> QED  BY <1>1, <2>10, TailIsSubSeq
      <4> QED  BY <1>1, <3>3, <4>1 DEF Carried
    <3> HIDE DEF r, s, p, g, m, x
    <3>5. stack'[e] = r /\ stack' = [stack EXCEPT ![e] = stack'[e]]
      BY <1>1, <3>3
    <3>6. todo'[e] = rest /\ todo' \in [Executors -> Seq(Commands)]
      BY <1>1, <2>10, <3>4
    <3>7. \E U : IsChain(stack'[e], U, D) /\ U[1] = todo'[e] /\ U[Len(U)] = t
      BY <2>6, <3>5, <3>6
    <3> QED  BY <1>3, <1>5, <1>8, <2>2, <2>6, <2>8, <2>10, <3>1, <3>3, <3>4, <3>5, <3>6, <3>7
               DEF s, x, p, m
  <2>11. CASE /\ Calls(p[0]) /\ InDepth(p[1], p[2], f.depth + 1)
              /\ x = Called(p[1], p[2], f.depth + 1) \o rest
    <3>1. IndirectBuffer(e)  BY <1>4, <1>8, <2>4, <2>11, Dispatch
    <3>2. m = Packet(e).count /\ m >= 2
      <4>1. Packet(e).type = "T3" /\ Packet(e).op \in {"IB", "IB_PFD"}
        BY <2>4, <2>11 DEF Calls
      <4>2. Packet(e) = Mem[f.at]  BY <1>5 DEF Packet, Mem, Frames
      <4>3. Packet(e).count \in Nat /\ Packet(e).count >= 2
        BY <2>2, <4>1, <4>2 DEF WellFormed, Needs
      <4> QED  BY <4>1, <4>3 DEF Size
    <3>3. p[1] = Datum(e, 0) /\ p[2] = Datum(e, 1)
      <4>1. 1 \in 1 .. m /\ 2 \in 1 .. m /\ 1 - 1 = 0 /\ 2 - 1 = 1  BY <2>4, <3>2
      <4> HIDE DEF m, p
      <4> QED  BY <2>4, <4>1
    <3>4. Advanced(e, m)[e] = r
      <4>1. e \in DOMAIN stack  BY <1>1
      <4> HIDE DEF m
      <4>2. Advanced(e, m)[e] = <<[Top(e) EXCEPT !.at = @ + 1 + m]>> \o Tail(stack[e])
        BY <4>1 DEF Advanced
      <4>3. [Top(e) EXCEPT !.at = @ + 1 + m] = [f EXCEPT !.at = f.at + 1 + m]
        BY <1>5 DEF Frames
      <4> QED  BY <2>4, <4>2, <4>3
    <3> DEFINE q == Call(p[1], p[2], f.depth + 1, r)
    <3>5. stack' = [stack EXCEPT ![e] = q] /\ Quiet(e) /\ UNCHANGED <<effects, todo>>
      <4> HIDE DEF m, p, r
      <4> QED  BY <3>1, <3>2, <3>3, <3>4 DEF IndirectBuffer
    <3>6. f.depth \in Nat /\ MaxDepth \in Nat  BY <1>5, PacketAssumption DEF Frames
    <3>7. /\ q \in Seq(Frames)
          /\ (\A j \in 1 .. Len(s) : s[j].depth # 0) => \A j \in 1 .. Len(q) : q[j].depth # 0
          /\ \E U : IsChain(q, U, D) /\ U[1] = x /\ U[Len(U)] = t
      <4>1. CASE f.depth + 1 > MaxDepth
        <5>1. q = r  BY <4>1 DEF Call
        <5>2. x = rest
          <6> HIDE DEF x, p, f
          <6> QED  BY <2>3, <2>11, <4>1, ConcatEmptySeq DEF Called
        <5> HIDE DEF q, r, s, x
        <5> QED  BY <2>6, <2>8, <5>1, <5>2
      <4>2. CASE ~ (f.depth + 1 > MaxDepth)
        <5> DEFINE c == Frame(p[1], p[2], f.depth + 1)
        <5>1. f.depth + 1 <= MaxDepth /\ f.depth + 1 \in 1 .. MaxDepth  BY <3>6, <4>2
        <5>2. p[1] \in Nat /\ p[1] >= RingSize /\ p[2] \in Nat /\ c \in DOMAIN OfBuffer
          BY <2>11, <5>1 DEF InDepth
        <5>3. c \in Frames /\ c.at >= RingSize /\ c.depth = f.depth + 1 /\ c.depth # 0
          <6> HIDE DEF p, f
          <6> QED  BY <3>6, <5>1, <5>2 DEF Frame, Frames
        <5>4. q = <<c>> \o r  BY <4>2 DEF Call, Frame
        <5>5. x = OfBuffer[c] \o rest  BY <2>11, <4>2 DEF Called
        <5>10. x \in Seq(Commands)  BY <1>1
        <5> HIDE DEF c, r, q, s, x, p
        <5>6. PICK U : IsChain(r, U, D) /\ U[1] = rest /\ U[Len(U)] = t  BY <2>6
        <5>7. Links(c, x, U[1], D)
          BY <5>2, <5>3, <5>5, <5>6 DEF Links, Frames
        <5>8. /\ q \in Seq(Frames) /\ Len(q) = Len(r) + 1
              /\ \A j \in 1 .. Len(q) : q[j] = IF j = 1 THEN c ELSE r[j - 1]
              /\ \E V : IsChain(q, V, D) /\ V[1] = x /\ V[Len(V)] = t
          <6>1. Chained(r, U, D, c, x, U[1])
            BY <2>6, <5>3, <5>6, <5>7, <5>10 DEF Chained
          <6>2. CalledOver(q, r, c) /\ ChainOf(q, x, U[Len(U)], D)
            BY <5>4, <6>1, ChainCalls
          <6> QED  BY <5>6, <6>2 DEF CalledOver, ChainOf
        <5>9. ASSUME \A j \in 1 .. Len(s) : s[j].depth # 0, NEW j \in 1 .. Len(q)
              PROVE  q[j].depth # 0
          <6>1. CASE j = 1  BY <5>3, <5>8, <6>1
          <6>2. CASE j # 1
            <7>1. j - 1 \in 1 .. Len(r)  BY <1>5, <2>7, <5>8, <6>2
            <7> QED  BY <2>8, <5>8, <5>9, <6>2, <7>1
          <6> QED  BY <6>1, <6>2
        <5> QED  BY <5>8, <5>9
      <4> QED  BY <4>1, <4>2
    <3> HIDE DEF q, r, s, p, x
    <3>8. stack'[e] = q /\ stack' = [stack EXCEPT ![e] = stack'[e]] /\ todo' = todo
      BY <1>1, <3>5
    <3> QED  BY <1>1, <1>3, <3>5, <3>7, <3>8 DEF s, x
  <2>12. \/ Idle(p[0]) /\ x = rest
         \/ x # <<>> /\ Tail(x) = rest /\ Describes(Head(x), p, m)
         \/ /\ Calls(p[0]) /\ InDepth(p[1], p[2], f.depth + 1)
            /\ x = Called(p[1], p[2], f.depth + 1) \o rest
    BY <2>3, <2>4 DEF Decoded
  <2> QED  BY <2>9, <2>10, <2>11, <2>12
<1> QED  BY <1>7, <1>8

-----------------------------------------------------------------------------
(* What a packet does is what its command does.                             *)

\* The executor e has a packet with the words p, of which n are behind its header.
Holding(e, p, n) ==
  /\ n = Size(Packet(e), Top(e).end - Top(e).at - 1) /\ n \in Nat
  /\ p[0] = Packet(e) /\ WellFormed(p[0])
  /\ \A j \in 1 .. n : p[j] = Datum(e, j - 1)

\* k words behind the packet's header, from the b-th on.
Taken(e, p, b, k, values) ==
  /\ values = [i \in 1 .. k |-> Datum(e, i + b - 2)]
  /\ \A j \in b .. (b + k - 1) : p[j] = Datum(e, j - 1)

\* The registers first .. first + k - 1 get them.
LEMMA WrittenIsRun ==
  ASSUME NEW e, NEW p, NEW first, NEW b \in Nat, NEW k \in Int, NEW values,
         Types, Taken(e, p, b, k, values)
  PROVE  Written(first, values) = Stream!Updated(Run(p, first, b, k))
<1> DEFINE upd == Run(p, first, b, k)
<1>1. DOMAIN values = 1 .. k /\ \A i \in 1 .. k : values[i] = Datum(e, i + b - 2)
  BY DEF Taken
<1>2. k > 0 => Len(values) = k
  <2> SUFFICES ASSUME k > 0 PROVE Len(values) = k  OBVIOUS
  <2>1. k \in Nat  OBVIOUS
  <2> DEFINE S == {values[i] : i \in 1 .. k}
  <2>2. values \in [1 .. k -> S]
    <3>1. values = [i \in 1 .. k |-> values[i]]  BY <1>1 DEF Taken
    <3> QED  BY <3>1
  <2> QED  BY <2>1, <2>2, FunctionIsSeq
<1>3. k <= 0 => Len(values) = 0
  <2> SUFFICES ASSUME k <= 0 PROVE Len(values) = 0  OBVIOUS
  <2>1. values = [i \in 1 .. k |-> Datum(e, i + b - 2)]  BY DEF Taken
  <2>2. values \in [1 .. 0 -> {}]  BY <2>1
  <2> QED  BY <2>2, FunctionIsSeq
<1>8. 0 .. (Len(values) - 1) = 0 .. (k - 1)
  <2>1. CASE k > 0  BY <1>2, <2>1
  <2>2. CASE k <= 0
    <3>1. Len(values) - 1 = -1  BY <1>3, <2>2
    <3>2. 0 .. -1 = {} /\ 0 .. (k - 1) = {}  BY <2>2
    <3> QED  BY <3>1, <3>2
  <2> QED  BY <2>1, <2>2
<1>4. ASSUME NEW r \in Regs
      PROVE  Written(first, values)[r] = Stream!Updated(upd)[r]
  <2> DEFINE d == r - first
  <2>1. CASE d \in 0 .. (k - 1)
    <3>1. k > 0 /\ d \in 0 .. (Len(values) - 1) /\ d + 1 \in 1 .. k
      <4> HIDE DEF d
      <4> QED  BY <1>2, <2>1
    <3>2. Written(first, values)[r] = values[d + 1]  BY <3>1 DEF Written
    <3>3. d + b \in b .. (b + k - 1) /\ d + b - 1 = (d + 1) + b - 2
      <4> HIDE DEF d
      <4> QED  BY <2>1
    <3>4. p[d + b] = Datum(e, (d + 1) + b - 2)
      <4> HIDE DEF d
      <4> DEFINE i == d + b
      <4>1. i \in b .. (b + k - 1) /\ i - 1 = (d + 1) + b - 2  BY <2>1, <3>3
      <4> HIDE DEF i
      <4>2. p[i] = Datum(e, i - 1)  BY <4>1 DEF Taken
      <4> QED  BY <4>1, <4>2 DEF i
    <3>5. r \in DOMAIN upd /\ upd[r] = p[d + b]  BY <2>1 DEF Run
    <3>6. Stream!Updated(upd)[r] = upd[r]
      <4> HIDE DEF upd
      <4> QED  BY <3>5 DEF Stream!Updated, Types
    <3> HIDE DEF d
    <3> QED  BY <1>1, <3>1, <3>2, <3>4, <3>5, <3>6
  <2>2. CASE d \notin 0 .. (k - 1)
    <3>1. d \notin 0 .. (Len(values) - 1)  BY <1>8, <2>2
    <3>2. Written(first, values)[r] = regs[r]  BY <3>1 DEF Written
    <3>3. r \notin DOMAIN upd  BY <2>2 DEF Run
    <3>4. r \in DOMAIN regs  BY DEF Types
    <3>5. Stream!Updated(upd)[r] = regs[r]  BY <3>3, <3>4 DEF Stream!Updated
    <3> QED  BY <3>2, <3>5
  <2> QED  BY <2>1, <2>2
<1>5. DOMAIN regs = Regs  BY DEF Types
<1>6. Written(first, values) = [r \in Regs |-> Written(first, values)[r]]  BY Zenon DEF Written
<1>7. Stream!Updated(upd) = [r \in Regs |-> Stream!Updated(upd)[r]]
  BY <1>5 DEF Stream!Updated
<1> QED  BY <1>4, <1>6, <1>7

\* One register.
LEMMA WrittenOne ==
  ASSUME NEW first \in Int, NEW v, regs = [r \in Regs |-> regs[r]], Regs \subseteq Nat
  PROVE  Written(first, <<v>>) = [r \in Regs |-> IF r = first THEN v ELSE regs[r]]
<1>1. Len(<<v>>) = 1 /\ <<v>>[1] = v  OBVIOUS
<1>2. ASSUME NEW r \in Regs
      PROVE  (IF r - first \in 0 .. (Len(<<v>>) - 1) THEN <<v>>[r - first + 1] ELSE regs[r])
               = IF r = first THEN v ELSE regs[r]
  <2>1. r \in Nat  OBVIOUS
  <2>2. r - first \in 0 .. (Len(<<v>>) - 1) <=> r = first  BY <1>1, <2>1
  <2>3. r = first => r - first + 1 = 1  BY <2>1
  <2> QED  BY <1>1, <2>2, <2>3
<1> QED  BY <1>2 DEF Written

LEMMA UpdateIs ==
  ASSUME NEW p, NEW n
  PROVE  /\ p[0].type = "T0" /\ ~ p[0].one => Update(p, n) = Run(p, p[0].base, 1, n)
         /\ p[0].type = "T0" /\ p[0].one => Update(p, n) = Repeated(p, n)
         /\ p[0].type = "T1" => Update(p, n) = Both(p)
         /\ p[0].type = "T3" /\ p[0].op = "SET_CONSTANT2" =>
              Update(p, n) = Run(p, p[1], 2, n - 1)
         /\ p[0].type = "T3" /\ p[0].op = "SET_CONSTANT" =>
              Update(p, n) = IF p[1].type \notin 0 .. 4 THEN <<>>
                             ELSE Run(p, Area[p[1].type + 1] + p[1].index, 2, n - 1)
         /\ p[0].type = "T3" /\ p[0].op \in {"EVENT_WRITE", "EVENT_WRITE_EXT"} =>
              Update(p, n) = Event(p)
  BY DEF Update

LEMMA Type0Effect ==
  ASSUME Types, NEW e \in Executors, NEW p, NEW n, Holding(e, p, n), NEW c,
         Describes(c, p, n), Type0(e)
  PROVE  Stream!Set(c)
<1>1. Packet(e).type = "T0"  BY DEF Type0
<1> DEFINE h == Packet(e)
           values == [i \in 1 .. n |-> Datum(e, i - 1)]
<1>2. c.kind = "set" /\ c.upd = Update(p, n)
  BY <1>1 DEF Describes, Updates, Holding
<1>3. n = (IF h.count < Top(e).end - Top(e).at - 1 THEN h.count ELSE Top(e).end - Top(e).at - 1)
  BY <1>1 DEF Holding, Size
<1>4. /\ regs' = (IF h.one /\ n > 0 THEN Written(h.base, <<values[n]>>)
                  ELSE Written(h.base, values))
      /\ UNCHANGED <<mem, counter, draws, irqs, flat, tex>>
  BY <1>3 DEF Type0
<1>5. n \in Nat /\ h.base \in Nat /\ p[0] = h /\ regs = [r \in Regs |-> regs[r]]
      /\ \A j \in 1 .. n : p[j] = Datum(e, j - 1)
  BY <1>1 DEF Holding, WellFormed, Types
<1>6. regs' = Stream!Updated(c.upd)
  <2>1. CASE ~ h.one
    <3>1. c.upd = Run(p, h.base, 1, n)  BY <1>1, <1>2, <1>5, <2>1, UpdateIs
    <3>2. Taken(e, p, 1, n, values)
      <4>1. \A i \in 1 .. n : i + 1 - 2 = i - 1  BY <1>5
      <4>2. 1 + n - 1 = n  BY <1>5
      <4> QED  BY <1>5, <4>1, <4>2 DEF Taken
    <3> HIDE DEF values, h
    <3>3. Written(h.base, values) = Stream!Updated(Run(p, h.base, 1, n))
      BY <1>5, <3>2, WrittenIsRun
    <3> QED  BY <1>4, <2>1, <3>1, <3>3
  <2>2. CASE h.one /\ n > 0
    <3>1. values[n] = p[n]  BY <1>5, <2>2
    <3>2. c.upd = [r \in {h.base} |-> p[n]]
      <4>1. c.upd = Repeated(p, n)  BY <1>1, <1>2, <1>5, <2>2, UpdateIs
      <4> QED  BY <1>5, <2>2, <4>1 DEF Repeated
    <3>3. regs' = [r \in Regs |-> IF r = h.base THEN p[n] ELSE regs[r]]
      <4> HIDE DEF values, h
      <4> QED  BY <1>4, <1>5, <2>2, <3>1, WrittenOne, PacketAssumption
    <3>4. DOMAIN regs = Regs  BY <1>5
    <3> HIDE DEF values, h
    <3> QED  BY <3>2, <3>3, <3>4 DEF Stream!Updated
  <2>3. CASE h.one /\ ~ (n > 0)
    <3>1. n = 0  BY <1>5, <2>3
    <3>2. c.upd = [r \in {} |-> p[n]]
      <4>1. c.upd = Repeated(p, n)  BY <1>1, <1>2, <1>5, <2>3, UpdateIs
      <4> QED  BY <3>1, <4>1 DEF Repeated
    <3>3. Len(values) = 0
      <4>1. values \in [1 .. 0 -> {}]  BY <3>1
      <4> HIDE DEF values
      <4> QED  BY <4>1, FunctionIsSeq
    <3>4. Written(h.base, values) = [r \in Regs |-> regs[r]]
      <4> HIDE DEF values
      <4> QED  BY <3>3 DEF Written
    <3>5. DOMAIN regs = Regs  BY <1>5
    <3> HIDE DEF values, h
    <3> QED  BY <1>4, <2>3, <3>2, <3>4, <3>5 DEF Stream!Updated
  <2> QED  BY <2>1, <2>2, <2>3
<1> QED  BY <1>2, <1>4, <1>6 DEF Stream!Set

LEMMA Type1Effect ==
  ASSUME Types, NEW e \in Executors, NEW p, NEW n, Holding(e, p, n), NEW c,
         Describes(c, p, n), Type1(e)
  PROVE  Stream!Set(c)
<1>1. Packet(e).type = "T1"  BY DEF Type1
<1> DEFINE h == Packet(e)
<1>2. c.kind = "set" /\ c.upd = Update(p, n)
  BY <1>1 DEF Describes, Updates, Holding
<1>3. n = 2 /\ p[1] = Datum(e, 0) /\ p[2] = Datum(e, 1) /\ p[0] = h
  <2>1. n = 2 /\ p[0] = h /\ \A j \in 1 .. 2 : p[j] = Datum(e, j - 1)
    BY <1>1 DEF Holding, Size
  <2>2. 1 \in 1 .. 2 /\ 2 \in 1 .. 2 /\ 1 - 1 = 0 /\ 2 - 1 = 1  OBVIOUS
  <2> HIDE DEF h
  <2> QED  BY <2>1, <2>2
<1>4. c.upd = [r \in {h.first, h.second} |-> IF r = h.second THEN p[2] ELSE p[1]]
  <2>1. c.upd = Both(p)  BY <1>1, <1>2, <1>3, UpdateIs
  <2> HIDE DEF h
  <2> QED  BY <1>3, <2>1, Zenon DEF Both
<1>5. regs' = [r \in Regs |-> IF r = h.second THEN p[2] ELSE IF r = h.first THEN p[1] ELSE regs[r]]
      /\ UNCHANGED <<mem, counter, draws, irqs, flat, tex>>
  BY <1>3 DEF Type1
<1>6. DOMAIN regs = Regs  BY DEF Types
<1>7. regs' = Stream!Updated(c.upd)
  <2> HIDE DEF h
  <2> QED  BY <1>4, <1>5, <1>6 DEF Stream!Updated
<1> QED  BY <1>2, <1>5, <1>7 DEF Stream!Set

LEMMA SetConstantEffect ==
  ASSUME Types, NEW e \in Executors, NEW p, NEW n, Holding(e, p, n), NEW c,
         Describes(c, p, n), SetConstant(e)
  PROVE  Stream!Set(c)
<1> DEFINE h == Packet(e)
           values == [i \in 1 .. (n - 1) |-> Datum(e, i)]
<1>1. h.type = "T3" /\ h.op \in {"SET_CONSTANT", "SET_CONSTANT2"}
  BY DEF SetConstant, Type3
<1>2. c.kind = "set" /\ c.upd = Update(p, n)
  BY <1>1 DEF Describes, Updates, Holding
<1>3. n = h.count /\ n \in Nat /\ n >= 1 /\ p[0] = h /\ p[1] = Datum(e, 0)
  <2>1. n = h.count /\ p[0] = h /\ n \in Nat /\ n >= Needs(h.op)
    BY <1>1 DEF Holding, Size, WellFormed
  <2>2. Needs(h.op) = 1  BY <1>1 DEF Needs
  <2> HIDE DEF h
  <2>3. 1 \in 1 .. n /\ 1 - 1 = 0  BY <2>1, <2>2
  <2>4. p[1] = Datum(e, 0)  BY <2>3 DEF Holding
  <2> QED  BY <2>1, <2>2, <2>4
<1>4. Taken(e, p, 2, n - 1, values)
  <2>1. values = [i \in 1 .. (n - 1) |-> Datum(e, i + 2 - 2)]
    <3>1. \A i \in 1 .. (n - 1) : i + 2 - 2 = i  BY <1>3
    <3> QED  BY <3>1
  <2>2. \A j \in 2 .. (2 + (n - 1) - 1) : p[j] = Datum(e, j - 1)
    <3>1. \A j \in 2 .. (2 + (n - 1) - 1) : j \in 1 .. n  BY <1>3
    <3> QED  BY <3>1 DEF Holding
  <2> QED  BY <2>1, <2>2 DEF Taken
<1>5. UNCHANGED <<mem, counter, draws, irqs, flat, tex>>  BY DEF SetConstant
<1>6. regs' = IF h.op = "SET_CONSTANT2" THEN Written(p[1], values)
              ELSE IF p[1].type \notin 0 .. 4 THEN regs
              ELSE Written(Area[p[1].type + 1] + p[1].index, values)
  BY <1>3 DEF SetConstant
<1>7. \A first : Written(first, values) = Stream!Updated(Run(p, first, 2, n - 1))
  <2>1. n - 1 \in Int /\ 2 \in Nat  BY <1>3
  <2> HIDE DEF values
  <2> QED  BY <1>4, <2>1, WrittenIsRun
<1>8. regs' = Stream!Updated(c.upd)
  <2> HIDE DEF values, h
  <2>1. CASE h.op = "SET_CONSTANT2"
    <3>1. c.upd = Run(p, p[1], 2, n - 1)  BY <1>1, <1>2, <1>3, <2>1, UpdateIs
    <3> QED  BY <1>6, <1>7, <2>1, <3>1
  <2>2. CASE h.op = "SET_CONSTANT" /\ p[1].type \notin 0 .. 4
    <3>1. c.upd = <<>>  BY <1>1, <1>2, <1>3, <2>2, UpdateIs
    <3>2. regs' = regs  BY <1>6, <2>2
    <3>3. DOMAIN c.upd = {}  BY <3>1
    <3>4. regs = [r \in Regs |-> regs[r]]  BY DEF Types
    <3> QED  BY <3>2, <3>3, <3>4 DEF Stream!Updated
  <2>3. CASE h.op = "SET_CONSTANT" /\ ~ (p[1].type \notin 0 .. 4)
    <3>1. c.upd = Run(p, Area[p[1].type + 1] + p[1].index, 2, n - 1)
      BY <1>1, <1>2, <1>3, <2>3, UpdateIs
    <3>2. regs' = Written(Area[p[1].type + 1] + p[1].index, values)
      BY <1>6, <2>3
    <3> QED  BY <1>7, <3>1, <3>2
  <2> QED  BY <1>1, <2>1, <2>2, <2>3
<1> QED  BY <1>2, <1>5, <1>8 DEF Stream!Set

\* The first word of the other packets.
LEMMA FirstWords ==
  ASSUME NEW e, NEW p, NEW n, Holding(e, p, n), Packet(e).type = "T3"
  PROVE  /\ n = Packet(e).count
         /\ p[1] = Datum(e, 0)
         /\ Needs(Packet(e).op) >= 2 => p[2] = Datum(e, 1)
         /\ Needs(Packet(e).op) >= 3 => p[3] = Datum(e, 2)
<1>1. n = Packet(e).count /\ n \in Nat /\ n >= Needs(Packet(e).op)
  BY DEF Holding, Size, WellFormed
<1>2. Needs(Packet(e).op) \in 1 .. 3  BY DEF Needs
<1>3. \A j \in 1 .. n : p[j] = Datum(e, j - 1)  BY DEF Holding
<1>4. p[1] = Datum(e, 0)
  <2>1. 1 \in 1 .. n /\ 1 - 1 = 0  BY <1>1, <1>2
  <2> QED  BY <1>3, <2>1
<1>5. Needs(Packet(e).op) >= 2 => p[2] = Datum(e, 1)
  <2>1. Needs(Packet(e).op) >= 2 => 2 \in 1 .. n /\ 2 - 1 = 1  BY <1>1, <1>2
  <2> QED  BY <1>3, <2>1
<1>6. Needs(Packet(e).op) >= 3 => p[3] = Datum(e, 2)
  <2>1. Needs(Packet(e).op) >= 3 => 3 \in 1 .. n /\ 3 - 1 = 2  BY <1>1, <1>2
  <2> QED  BY <1>3, <2>1
<1> QED  BY <1>1, <1>4, <1>5, <1>6

LEMMA EventWriteEffect ==
  ASSUME Types, NEW e \in Executors, NEW p, NEW n, Holding(e, p, n), NEW c,
         Describes(c, p, n), EventWrite(e)
  PROVE  Stream!Set(c)
<1>1. Packet(e).type = "T3" /\ Packet(e).op \in {"EVENT_WRITE", "EVENT_WRITE_EXT"}
  BY DEF EventWrite, Type3
<1>2. p[0] = Packet(e) /\ p[1] = Datum(e, 0)
  BY <1>1, FirstWords DEF Holding
<1>3. c.kind = "set" /\ c.upd = Update(p, n)
  BY <1>1, <1>2 DEF Describes, Updates
<1>4. c.upd = Event(p)  BY <1>1, <1>2, <1>3, UpdateIs
<1>5. /\ regs' = Written(Initiator, <<p[1].event % 64>>)
      /\ UNCHANGED <<mem, counter, draws, irqs, flat, tex>>
  BY <1>2 DEF EventWrite
<1>6. regs = [r \in Regs |-> regs[r]]  BY DEF Types
<1>7. regs' = [r \in Regs |-> IF r = Initiator THEN p[1].event % 64 ELSE regs[r]]
  <2>1. Initiator \in Int /\ Regs \subseteq Nat  BY PacketAssumption DEF Initiator
  <2> QED  BY <1>5, <1>6, <2>1, WrittenOne
<1>8. DOMAIN regs = Regs  BY <1>6
<1>9. regs' = Stream!Updated(c.upd)
  BY <1>4, <1>7, <1>8, Zenon DEF Event, Stream!Updated
<1> QED  BY <1>3, <1>5, <1>9 DEF Stream!Set

\* A fence.
LEMMA FenceEffect ==
  ASSUME Types, NEW e \in Executors, NEW p, NEW n, Holding(e, p, n), NEW c,
         Describes(c, p, n), EventWriteShd(e)
  PROVE  Stream!Fence(c)
<1>1. Packet(e).type = "T3" /\ Packet(e).op = "EVENT_WRITE_SHD"
  BY DEF EventWriteShd, Type3
<1>2. p[0] = Packet(e) /\ p[1] = Datum(e, 0) /\ p[2] = Datum(e, 1) /\ p[3] = Datum(e, 2)
  <2>1. Needs(Packet(e).op) = 3  BY <1>1 DEF Needs
  <2> QED  BY <1>1, <2>1, FirstWords DEF Holding
<1>3. /\ c.kind = IF p[1].counter THEN "count" ELSE "fence"
      /\ c.event = p[1].event % 64
      /\ c.addr = p[2] - (p[2] % 4)
      /\ ~p[1].counter => c.value = p[3]
  BY <1>1, <1>2 DEF Describes, Updates
<1>4. /\ regs' = Written(Initiator, <<p[1].event % 64>>)
      /\ mem' = [mem EXCEPT ![p[2] - (p[2] % 4)] = IF p[1].counter THEN counter ELSE p[3]]
      /\ UNCHANGED <<counter, draws, irqs, flat, tex>>
  BY <1>2 DEF EventWriteShd
<1>5. regs = [r \in Regs |-> regs[r]]  BY DEF Types
<1>6. regs' = [r \in Regs |-> IF r = Initiator THEN c.event ELSE regs[r]]
  <2>1. Initiator \in Int /\ Regs \subseteq Nat  BY PacketAssumption DEF Initiator
  <2> QED  BY <1>3, <1>4, <1>5, <2>1, WrittenOne
<1>7. regs' = [regs EXCEPT ![Initiator] = c.event]
  <2>1. DOMAIN regs = Regs  BY <1>5
  <2> QED  BY <1>6, <2>1
<1>8. (IF c.kind = "fence" THEN c.value ELSE counter) = IF p[1].counter THEN counter ELSE p[3]
  BY <1>3
<1>9. mem' = [mem EXCEPT ![c.addr] = IF c.kind = "fence" THEN c.value ELSE counter]
  BY <1>3, <1>4, <1>8
<1>10. c.kind \in {"fence", "count"}  BY <1>3
<1> QED  BY <1>4, <1>7, <1>9, <1>10 DEF Stream!Fence

LEMMA XeSwapEffect ==
  ASSUME NEW e, NEW p, NEW n, Holding(e, p, n), NEW c, Describes(c, p, n), XeSwap(e)
  PROVE  Stream!Exchange(c)
<1>1. Packet(e).type = "T3" /\ Packet(e).op = "XE_SWAP" /\ p[0] = Packet(e)
  BY DEF XeSwap, Type3, Holding
<1>2. c.kind = "swap"  BY <1>1 DEF Describes, Updates
<1> QED  BY <1>2 DEF XeSwap, Stream!Exchange

LEMMA BitIs ==
  ASSUME NEW m \in Nat, NEW k \in 0 .. 5
  PROVE  Bit(m, k) \in {0, 1}
<1>1. <<1, 2, 4, 8, 16, 32>>[k + 1] \in {1, 2, 4, 8, 16, 32}
  <2>1. k = 0 \/ k = 1 \/ k = 2 \/ k = 3 \/ k = 4 \/ k = 5  OBVIOUS
  <2> QED  BY <2>1
<1> DEFINE d == <<1, 2, 4, 8, 16, 32>>[k + 1]
<1>2. d \in Nat \ {0}  BY <1>1
<1> HIDE DEF d
<1>3. m \div d \in Int  BY <1>2
<1>4. (m \div d) % 2 \in {0, 1}  BY <1>3
<1> QED  BY <1>4 DEF Bit, d

LEMMA InterruptEffect ==
  ASSUME Types, NEW e, NEW p, NEW n, Holding(e, p, n), NEW c, Describes(c, p, n), Interrupt(e)
  PROVE  Stream!Interrupt(c) /\ irqs' \in [0 .. 5 -> Nat]
<1>1. Packet(e).type = "T3" /\ Packet(e).op = "INTERRUPT" /\ p[0] = Packet(e)
  BY DEF Interrupt, Type3, Holding
<1>2. p[1] \in Nat /\ c.kind = "interrupt" /\ c.cpus = {k \in 0 .. 5 : Bit(p[1], k) = 1}
  BY <1>1 DEF Describes, Updates
<1>3. /\ irqs' = [k \in 0 .. 5 |-> irqs[k] + Bit(p[1], k)]
      /\ UNCHANGED <<regs, mem, counter, draws, flat, tex>>
  <2>1. p[1] = Datum(e, 0)  BY <1>1, FirstWords
  <2> QED  BY <2>1 DEF Interrupt
<1>4. \A k \in 0 .. 5 : irqs[k] \in Nat  BY DEF Types
<1>5. ASSUME NEW k \in 0 .. 5
      PROVE  /\ irqs[k] + Bit(p[1], k) = IF k \in c.cpus THEN irqs[k] + 1 ELSE irqs[k]
             /\ irqs[k] + Bit(p[1], k) \in Nat
  <2>1. Bit(p[1], k) \in {0, 1}  BY <1>2, BitIs
  <2>2. k \in c.cpus <=> Bit(p[1], k) = 1  BY <1>2
  <2> QED  BY <1>4, <2>1, <2>2
<1>6. irqs' = [k \in 0 .. 5 |-> IF k \in c.cpus THEN irqs[k] + 1 ELSE irqs[k]]
  BY <1>3, <1>5
<1> QED  BY <1>2, <1>3, <1>5, <1>6 DEF Stream!Interrupt


-----------------------------------------------------------------------------
(* Draws.                                                                   *)

Glyphs == mode \in {"glyph", "panels"}
Drawn == {Text[c.from] : c \in {c \in Commands : IsText(c)}}
Blocks == {c.from : c \in Commands}

\* As long as there is room, the keys seen are those of the texts carved.
SeenInv ==
  /\ tex \in Seq(Blocks) /\ Len(tex) <= Cap
  /\ Glyphs /\ Len(tex) < Cap =>
       \A t \in Drawn : <<Indices[t], Key[t]>> \in seen <=> Stream!Holds(tex, t)

\* What a draw begins with, and what it says.
LEMMA DrawSays ==
  ASSUME NEW e, NEW p, NEW n, Holding(e, p, n), NEW c, Describes(c, p, n), Draw(e)
  PROVE  \E init :
           /\ init = IF Packet(e).op = "DRAW_INDX" THEN Datum(e, 1) ELSE Datum(e, 0)
           /\ c.kind = "draw" /\ c.prim = IF init.n >= 3 THEN init.prim ELSE 0
           /\ c.prim = 13 => init.n = Indices[Text[c.from]]
<1>1. Packet(e).type = "T3" /\ Packet(e).op \in {"DRAW_INDX", "DRAW_INDX_2"} /\ p[0] = Packet(e)
  BY DEF Draw, Type3, Holding
<1>2. p[1] = Datum(e, 0) /\ (Packet(e).op = "DRAW_INDX" => p[2] = Datum(e, 1))
  <2>1. Packet(e).op = "DRAW_INDX" => Needs(Packet(e).op) = 2  BY DEF Needs
  <2> QED  BY <1>1, <2>1, FirstWords
<1>3. /\ c.kind = "draw"
      /\ LET init == IF p[0].op = "DRAW_INDX" THEN p[2] ELSE p[1]
         IN /\ c.prim = IF init.n >= 3 THEN init.prim ELSE 0
            /\ c.prim = 13 => init.n = Indices[Text[c.from]]
  BY <1>1 DEF Describes, Updates
<1>4. (IF p[0].op = "DRAW_INDX" THEN p[2] ELSE p[1])
        = IF Packet(e).op = "DRAW_INDX" THEN Datum(e, 1) ELSE Datum(e, 0)
  BY <1>1, <1>2
<1> QED  BY <1>3, <1>4

\* A draw of the pump carves nothing.
LEMMA PumpDraws ==
  ASSUME NEW e, e # Swap, NEW p, NEW n, Holding(e, p, n), NEW c, Describes(c, p, n), Draw(e)
  PROVE  Stream!Draw(e, c) /\ UNCHANGED <<flat, tex, seen>>
<1>1. c.kind = "draw"  BY DrawSays
<1>2. draws' = draws + 1 /\ UNCHANGED <<flat, tex, seen, regs, mem, counter, irqs>>
  BY DEF Draw
<1> QED  BY <1>1, <1>2 DEF Stream!Draw

\* Before the first command of a stream the registers have their values.
LEMMA BeforeFirst ==
  ASSUME Types, NEW s, NEW r, NEW v \in Before(regs, s, 1, r)
  PROVE  r \in Regs /\ v = regs[r] /\ v = Const(r)
<1>1. 1 .. (1 - 1) = {}  OBVIOUS
<1>2. v \in {regs[q] : q \in {r} \intersect DOMAIN regs}
  BY <1>1 DEF Before
<1>3. DOMAIN regs = Regs  BY DEF Types
<1> QED  BY <1>2, <1>3 DEF Const

\* The rectangle is that of slot 0.
LEMMA BoundRect ==
  ASSUME Types, NEW s, s[1].prim = 8, Binds(regs, s, 1)
  PROVE  IsVertex(0) /\ Buffer(0) = s[1].from
<1>1. PICK v \in Before(regs, s, 1, FetchArea) : v % 4 = 3 /\ s[1].from = v - (v % 4)
  BY DEF Binds
<1>2. v = Const(FetchArea)  BY BeforeFirst
<1>3. FetchArea + (2 * 0) + 0 = FetchArea  BY DEF FetchArea
<1>4. Fetch(0, 0) = v  BY <1>2, <1>3 DEF Fetch
<1> QED  BY <1>1, <1>4 DEF IsVertex, Buffer

\* A strip and a text are those of the last slot with a buffer.
LEMMA BoundSprite ==
  ASSUME Types, NEW s, s[1].prim # 8, Binds(regs, s, 1)
  PROVE  /\ \E slot \in Slots : IsVertex(slot)
         /\ Buffer(SpriteSlot) = s[1].from
         /\ s[1].prim = 13 =>
              Stride(Fetch(SpriteSlot, 1), Indices[Text[s[1].from]]) >= 16
<1>1. PICK slot \in Slots :
        /\ \E v \in Before(regs, s, 1, FetchArea + (2 * slot)) :
             v % 4 = 3 /\ s[1].from = v - (v % 4)
        /\ \A higher \in Slots : higher > slot =>
             \E v \in Before(regs, s, 1, FetchArea + (2 * higher)) : v % 4 # 3
        /\ s[1].prim = 13 =>
             \E v \in Before(regs, s, 1, FetchArea + (2 * slot) + 1) :
               Stride(v, Indices[Text[s[1].from]]) >= 16
  BY DEF Binds
<1>2. ASSUME NEW k \in Slots, NEW v \in Before(regs, s, 1, FetchArea + (2 * k))
      PROVE  v = Fetch(k, 0)
  <2>1. k \in Int  BY PacketAssumption
  <2>2. FetchArea + (2 * k) + 0 = FetchArea + (2 * k)  BY <2>1 DEF FetchArea
  <2> QED  BY <2>2, BeforeFirst DEF Fetch
<1>3. ASSUME NEW v \in Before(regs, s, 1, FetchArea + (2 * slot) + 1)
      PROVE  v = Fetch(slot, 1)
  BY BeforeFirst DEF Fetch
<1>4. IsVertex(slot) /\ Buffer(slot) = s[1].from
  BY <1>1, <1>2 DEF IsVertex, Buffer
<1>5. \A k \in Slots : k > slot => ~ IsVertex(k)
  BY <1>1, <1>2 DEF IsVertex
<1>6. \A k \in Slots : k \in Int  BY PacketAssumption
<1>7. \A k \in Slots : IsVertex(k) /\ (\A r \in Slots : IsVertex(r) => r <= k) <=> k = slot
  BY <1>4, <1>5, <1>6
<1>8. SpriteSlot = slot  BY <1>7 DEF SpriteSlot
<1>9. s[1].prim = 13 => Stride(Fetch(slot, 1), Indices[Text[s[1].from]]) >= 16
  BY <1>1, <1>3
<1> QED  BY <1>4, <1>8, <1>9


\* Texts are told apart by their keys.
LEMMA KeysTell ==
  ASSUME NEW t \in Drawn, NEW u \in Drawn, Indices[t] = Indices[u], Key[t] = Key[u]
  PROVE  t = u
  BY TitleAssumption DEF Drawn

\* A draw of VdSwap carves what the stream says.
LEMMA SwapDraws ==
  ASSUME Types, SeenInv, NEW p, NEW n, Holding(Swap, p, n),
         NEW s \in Seq(Commands), s # <<>>, IsBound(regs, s), Describes(s[1], p, n), Draw(Swap)
  PROVE  Stream!Draw(Swap, s[1]) /\ SeenInv'
<1> DEFINE c == s[1]
<1>1. PICK init :
        /\ init = IF Packet(Swap).op = "DRAW_INDX" THEN Datum(Swap, 1) ELSE Datum(Swap, 0)
        /\ c.kind = "draw" /\ c.prim = IF init.n >= 3 THEN init.prim ELSE 0
        /\ c.prim = 13 => init.n = Indices[Text[c.from]]
  BY DrawSays
<1>2. /\ draws' = draws + 1 /\ UNCHANGED <<regs, mem, counter, irqs, mode>>
      /\ IF init.prim \in {5, 13} /\ init.n >= 3 /\ (\E k \in Slots : IsVertex(k))
         THEN CarveSprite(init.n, init.prim)
         ELSE CarveRect(init.n, init.prim)
  BY <1>1 DEF Draw, Quiet
<1>3. Len(s) \in Nat \ {0} /\ 1 \in 1 .. Len(s) /\ c \in Commands
  BY EmptySeq
<1>4. c.prim \in {5, 8, 13} => Binds(regs, s, 1)
  BY <1>1, <1>3 DEF IsBound
<1>5. c.from \in Blocks /\ mode \in {"flat", "backdrop", "glyph", "panels"}
  BY <1>3, PacketAssumption DEF Blocks, Types
<1>6. tex \in Seq(Blocks) /\ Len(tex) \in Nat /\ Len(tex) <= Cap /\ Cap \in Nat
  BY PacketAssumption DEF SeenInv
<1>7. Inserted(tex, c.from) \in Seq(Blocks) /\ Len(Inserted(tex, c.from)) <= Cap
  BY <1>5, <1>6 DEF Inserted
<1> DEFINE as == Stream!As(c.prim)
           added == as = "tex" \/ (as = "text" /\ ~Stream!Holds(tex, Text[c.from]))
<1>8. CASE c.prim \notin {5, 8, 13}
  <2>1. as = "none"  BY <1>8 DEF Stream!As
  <2>2. UNCHANGED <<flat, tex, seen>>
    <3>1. CASE init.n >= 3
      <4>1. init.prim \notin {5, 8, 13}  BY <1>1, <1>8, <3>1
      <4>2. CarveRect(init.n, init.prim)  BY <1>2, <4>1
      <4> QED  BY <4>1, <4>2 DEF CarveRect
    <3>2. CASE ~ (init.n >= 3)
      <4>1. CarveRect(init.n, init.prim)  BY <1>2, <3>2
      <4> QED  BY <3>2, <4>1 DEF CarveRect
    <3> QED  BY <3>1, <3>2
  <2>3. Stream!Draw(Swap, c)  BY <1>1, <1>2, <2>1, <2>2 DEF Stream!Draw
  <2>4. SeenInv'  BY <1>2, <2>2 DEF SeenInv, Glyphs, Stream!Holds
  <2> QED  BY <2>3, <2>4
<1>9. CASE c.prim = 8
  <2>1. IsVertex(0) /\ Buffer(0) = c.from /\ init.n >= 3 /\ init.prim = 8
    BY <1>1, <1>4, <1>9, BoundRect
  <2>2. CarveRect(init.n, init.prim)  BY <1>2, <2>1
  <2>3. /\ flat' = IF mode = "flat" THEN Inserted(flat, c.from) ELSE flat
        /\ tex' = IF mode = "backdrop" THEN Inserted(tex, c.from) ELSE tex
        /\ UNCHANGED seen
    BY <2>1, <2>2 DEF CarveRect
  <2>4. as = IF mode = "flat" THEN "flat" ELSE IF mode = "backdrop" THEN "tex" ELSE "none"
    BY <1>9 DEF Stream!As
  <2>5. Stream!Draw(Swap, c)
    BY <1>1, <1>2, <2>3, <2>4 DEF Stream!Draw, Stream!Put, Inserted
  <2>6. SeenInv'
    <3>1. CASE mode = "backdrop"
      BY <1>2, <1>7, <2>3, <3>1 DEF SeenInv, Glyphs
    <3>2. CASE mode # "backdrop"
      BY <1>2, <2>3, <3>2 DEF SeenInv, Glyphs, Stream!Holds
    <3> QED  BY <3>1, <3>2
  <2> QED  BY <2>5, <2>6
<1>10. CASE c.prim \in {5, 13}
  <2>1. init.n >= 3 /\ init.prim = c.prim /\ c.prim # 8  BY <1>1, <1>10
  <2>2. /\ \E slot \in Slots : IsVertex(slot)
        /\ Buffer(SpriteSlot) = c.from
        /\ c.prim = 13 => Stride(Fetch(SpriteSlot, 1), Indices[Text[c.from]]) >= 16
    BY <1>4, <1>10, <2>1, BoundSprite
  <2>3. CarveSprite(init.n, init.prim)  BY <1>2, <1>10, <2>1, <2>2
  <2> DEFINE key == <<init.n, Key[Text[c.from]]>>
             text == c.prim = 13 /\ Glyphs
             panel == c.prim = 5 /\ (~Glyphs \/ mode = "panels")
  <2>4. c.prim = 13 => Stride(Fetch(SpriteSlot, 1), init.n) >= 16
    BY <1>1, <2>2
  <2>5. /\ flat' = IF panel \/ (c.prim = 13 /\ ~text) THEN Inserted(flat, c.from) ELSE flat
        /\ tex' = IF text /\ key \notin seen THEN Inserted(tex, c.from) ELSE tex
        /\ seen' = IF text THEN seen \union {key} ELSE seen
    BY <2>1, <2>2, <2>3, <2>4 DEF CarveSprite, Glyphs
  <2>6. /\ c.prim = 13 => as = IF Glyphs THEN "text" ELSE "flat"
        /\ c.prim = 5 => as = IF mode = "glyph" THEN "none" ELSE "flat"
    BY DEF Stream!As, Glyphs
  <2>7. flat' = IF as = "flat" THEN Stream!Put(flat, c.from) ELSE flat
    BY <1>5, <1>10, <2>5, <2>6 DEF Stream!Put, Inserted, Glyphs
  <2>8. CASE ~ text
    <3>1. UNCHANGED <<tex, seen>>  BY <2>5, <2>8
    <3>2. ~ added  BY <1>10, <2>6, <2>8
    <3>3. Stream!Draw(Swap, c)
      BY <1>1, <1>2, <2>7, <3>1, <3>2 DEF Stream!Draw
    <3>4. SeenInv'  BY <1>2, <3>1 DEF SeenInv, Glyphs, Stream!Holds
    <3> QED  BY <3>3, <3>4
  <2>9. CASE text
    <3> DEFINE t == Text[c.from]
    <3>1. t \in Drawn /\ key = <<Indices[t], Key[t]>> /\ Glyphs
      BY <1>1, <1>3, <2>9 DEF Drawn, IsText
    <3>2. /\ tex' = IF key \notin seen THEN Inserted(tex, c.from) ELSE tex
          /\ seen' = seen \union {key}
      BY <2>5, <2>9
    <3>3. as = "text"  BY <2>6, <2>9
    <3>4. CASE Len(tex) < Cap
      <4>1. key \in seen <=> Stream!Holds(tex, t)  BY <3>1, <3>4 DEF SeenInv
      <4>2. tex' = IF Stream!Holds(tex, t) THEN tex ELSE Append(tex, c.from)
        BY <3>2, <3>4, <4>1 DEF Inserted
      <4>3. Stream!Draw(Swap, c)
        BY <1>1, <1>2, <2>7, <3>3, <3>4, <4>2 DEF Stream!Draw, Stream!Put
      <4>4. ASSUME NEW u \in Drawn
            PROVE  <<Indices[u], Key[u]>> \in seen' <=> Stream!Holds(tex, u)'
        <5>1. <<Indices[u], Key[u]>> = key <=> u = t  BY <3>1, KeysTell
        <5>2. <<Indices[u], Key[u]>> \in seen <=> Stream!Holds(tex, u)
          BY <3>1, <3>4 DEF SeenInv
        <5>3. Stream!Holds(tex, u)' <=> Stream!Holds(tex, u) \/ u = t
          <6>1. CASE Stream!Holds(tex, t)  BY <4>2, <6>1 DEF Stream!Holds
          <6>2. CASE ~ Stream!Holds(tex, t)
            <7>1. /\ Len(tex') = Len(tex) + 1 /\ tex'[Len(tex) + 1] = c.from
                  /\ \A i \in 1 .. Len(tex) : tex'[i] = tex[i]
              BY <1>5, <1>6, <4>2, <6>2
            <7>2. \A i \in 1 .. Len(tex') : i \in 1 .. Len(tex) \/ i = Len(tex) + 1
              BY <1>6, <7>1
            <7>3. Stream!Holds(tex, u)' <=> \E i \in 1 .. Len(tex') : Text[tex'[i]] = u
              BY DEF Stream!Holds
            <7>4. Stream!Holds(tex, u) <=> \E i \in 1 .. Len(tex) : Text[tex[i]] = u
              BY DEF Stream!Holds
            <7>5. (\E i \in 1 .. Len(tex') : Text[tex'[i]] = u)
                     <=> (\E i \in 1 .. Len(tex) : Text[tex[i]] = u) \/ u = t
              BY <1>6, <7>1, <7>2
            <7> QED  BY <7>3, <7>4, <7>5
          <6> QED  BY <6>1, <6>2
        <5> QED  BY <3>2, <5>1, <5>2, <5>3
      <4>5. tex' \in Seq(Blocks) /\ Len(tex') <= Cap
        BY <1>6, <1>7, <3>2
      <4>6. SeenInv'  BY <4>4, <4>5 DEF SeenInv
      <4> QED  BY <4>3, <4>6
    <3>5. CASE ~ (Len(tex) < Cap)
      <4>1. tex' = tex /\ Len(tex) = Cap  BY <1>6, <3>2, <3>5 DEF Inserted
      <4>2. Stream!Draw(Swap, c)
        BY <1>1, <1>2, <2>7, <3>3, <3>5, <4>1 DEF Stream!Draw, Stream!Put
      <4>3. SeenInv'  BY <1>6, <4>1 DEF SeenInv
      <4> QED  BY <4>2, <4>3
    <3> QED  BY <3>4, <3>5
  <2> QED  BY <2>8, <2>9
<1> QED  BY <1>8, <1>9, <1>10


-----------------------------------------------------------------------------
(* What a frame draws stays bound.                                          *)

Performs(e, c) ==
  Stream!Set(c) \/ Stream!Fence(c) \/ Stream!Exchange(c) \/ Stream!Interrupt(c)
    \/ Stream!Draw(e, c)

\* The registers behind the command c.
Behaves(c) ==
  /\ DOMAIN regs' = Regs
  /\ \A r \in Regs :
       /\ c.kind = "set" /\ r \in DOMAIN c.upd => regs'[r] = c.upd[r]
       /\ ~ Writes(c, r) => regs'[r] = regs[r]

LEMMA PerformsWrites ==
  ASSUME NEW e, NEW c, Performs(e, c), regs = [r \in Regs |-> regs[r]]
  PROVE  Behaves(c) /\ regs' = [r \in Regs |-> regs'[r]]
<1>1. DOMAIN regs = Regs  OBVIOUS
<1>2. CASE Stream!Set(c)
  <2>1. c.kind = "set" /\ regs' = [r \in Regs |-> IF r \in DOMAIN c.upd THEN c.upd[r] ELSE regs[r]]
    BY <1>1, <1>2 DEF Stream!Set, Stream!Updated
  <2> QED  BY <2>1 DEF Behaves, Writes
<1>3. CASE Stream!Fence(c)
  <2>1. c.kind \in {"fence", "count"} /\ regs' = [regs EXCEPT ![Initiator] = c.event]
    BY <1>3 DEF Stream!Fence
  <2> QED  BY <1>1, <2>1 DEF Behaves, Writes
<1>4. CASE ~ Stream!Set(c) /\ ~ Stream!Fence(c)
  <2>1. regs' = regs /\ c.kind \in {"swap", "interrupt", "draw"}
    BY <1>4 DEF Performs, Stream!Exchange, Stream!Interrupt, Stream!Draw
  <2> QED  BY <1>1, <2>1 DEF Behaves, Writes
<1> QED  BY <1>2, <1>3, <1>4

\* A register has before a command what it has behind the first one.
LEMMA BeforeRest ==
  ASSUME NEW s \in Seq(Commands), s # <<>>, Behaves(Head(s)), DOMAIN regs = Regs,
         NEW j \in 1 .. Len(Tail(s)), NEW r, NEW v \in Before(regs, s, j + 1, r)
  PROVE  v \in Before(regs', Tail(s), j, r)
<1> DEFINE t == Tail(s)
<1>1. /\ Len(s) \in Nat \ {0} /\ Head(s) = s[1] /\ t \in Seq(Commands)
      /\ Len(t) = Len(s) - 1 /\ \A i \in 1 .. Len(t) : t[i] = s[i + 1]
  <2>1. Len(s) \in Nat \ {0} /\ Head(s) = s[1]  BY EmptySeq
  <2> QED  BY <2>1, HeadTailProperties
<1> HIDE DEF t
<1>2. \A i \in 1 .. (j - 1) : i + 1 \in 1 .. (j + 1 - 1) /\ t[i] = s[i + 1]
  BY <1>1
<1>3. \A k \in 1 .. (j + 1 - 1) : k = 1 \/ (k - 1 \in 1 .. (j - 1) /\ t[k - 1] = s[k])
  <2> SUFFICES ASSUME NEW k \in 1 .. (j + 1 - 1), k # 1
               PROVE  k - 1 \in 1 .. (j - 1) /\ t[k - 1] = s[k]
    OBVIOUS
  <2>1. k - 1 \in 1 .. (j - 1) /\ k - 1 \in 1 .. Len(t) /\ k - 1 + 1 = k  BY <1>1
  <2> QED  BY <1>1, <2>1
<1>4. CASE \E l \in 1 .. (j + 1 - 1) : Writes(s[l], r)
  <2>1. v \in {s[k].upd[r] : k \in {k \in 1 .. (j + 1 - 1) :
                  /\ s[k].kind = "set" /\ r \in Regs \intersect DOMAIN s[k].upd
                  /\ \A l \in (k + 1) .. (j + 1 - 1) : ~Writes(s[l], r)}}
    BY <1>4 DEF Before
  <2>2. PICK k \in 1 .. (j + 1 - 1) :
          /\ s[k].kind = "set" /\ r \in Regs \intersect DOMAIN s[k].upd
          /\ \A l \in (k + 1) .. (j + 1 - 1) : ~Writes(s[l], r)
          /\ v = s[k].upd[r]
    BY <2>1
  <2>3. CASE k = 1
    <3>1. \A i \in 1 .. (j - 1) : ~Writes(t[i], r)
      <4>1. \A i \in 1 .. (j - 1) : i + 1 \in (k + 1) .. (j + 1 - 1)  BY <2>3
      <4> QED  BY <1>2, <2>2, <4>1
    <3>2. regs'[r] = v /\ r \in DOMAIN regs'
      BY <1>1, <2>2, <2>3 DEF Behaves
    <3>3. v \in {regs'[q] : q \in {r} \intersect DOMAIN regs'}  BY <3>2
    <3> QED  BY <3>1, <3>3 DEF Before, t
  <2>4. CASE k # 1
    <3>1. k - 1 \in 1 .. (j - 1) /\ t[k - 1] = s[k]  BY <1>3, <2>4
    <3>2. \A l \in (k - 1 + 1) .. (j - 1) : ~Writes(t[l], r)
      <4> SUFFICES ASSUME NEW l \in (k - 1 + 1) .. (j - 1) PROVE ~Writes(t[l], r)
        OBVIOUS
      <4>1. l + 1 \in (k + 1) .. (j + 1 - 1) /\ l \in 1 .. (j - 1)  BY <2>2, <2>4
      <4> QED  BY <1>2, <2>2, <4>1
    <3>3. v \in {t[i].upd[r] : i \in {i \in 1 .. (j - 1) :
                  /\ t[i].kind = "set" /\ r \in Regs \intersect DOMAIN t[i].upd
                  /\ \A l \in (i + 1) .. (j - 1) : ~Writes(t[l], r)}}
      BY <2>2, <3>1, <3>2
    <3> QED  BY <3>3 DEF Before, t
  <2> QED  BY <2>3, <2>4
<1>5. CASE ~ \E l \in 1 .. (j + 1 - 1) : Writes(s[l], r)
  <2>1. ASSUME NEW k \in 1 .. (j + 1 - 1), s[k].kind = "set",
               r \in Regs \intersect DOMAIN s[k].upd
        PROVE  FALSE
    BY <1>5, <2>1 DEF Writes
  <2>2. v \in {regs[q] : q \in {r} \intersect DOMAIN regs}
    BY <1>5, <2>1 DEF Before
  <2>3. 1 \in 1 .. (j + 1 - 1)  OBVIOUS
  <2>4. r \in Regs /\ v = regs'[r] /\ r \in DOMAIN regs'
    BY <1>1, <1>5, <2>2, <2>3 DEF Behaves
  <2>5. v \in {regs'[q] : q \in {r} \intersect DOMAIN regs'}  BY <2>4
  <2>6. ~ \E l \in 1 .. (j - 1) : Writes(t[l], r)
    BY <1>2, <1>5
  <2> QED  BY <2>5, <2>6 DEF Before, t
<1> QED  BY <1>4, <1>5

LEMMA BindsMore ==
  ASSUME NEW f, NEW s, NEW j, NEW g, NEW t, NEW i, s[j] = t[i], Binds(f, s, j),
         \A r : \A v \in Before(f, s, j, r) : v \in Before(g, t, i, r)
  PROVE  Binds(g, t, i)
<1>1. CASE s[j].prim = 8  BY <1>1 DEF Binds
<1>2. CASE s[j].prim # 8
  <2>1. PICK slot \in Slots :
        /\ \E v \in Before(f, s, j, FetchArea + (2 * slot)) :
             v % 4 = 3 /\ s[j].from = v - (v % 4)
        /\ \A higher \in Slots : higher > slot =>
             \E v \in Before(f, s, j, FetchArea + (2 * higher)) : v % 4 # 3
        /\ s[j].prim = 13 =>
             \E v \in Before(f, s, j, FetchArea + (2 * slot) + 1) :
               Stride(v, Indices[Text[s[j].from]]) >= 16
    BY <1>2 DEF Binds
  <2>2. /\ \E v \in Before(g, t, i, FetchArea + (2 * slot)) :
             v % 4 = 3 /\ t[i].from = v - (v % 4)
        /\ \A higher \in Slots : higher > slot =>
             \E v \in Before(g, t, i, FetchArea + (2 * higher)) : v % 4 # 3
        /\ t[i].prim = 13 =>
             \E v \in Before(g, t, i, FetchArea + (2 * slot) + 1) :
               Stride(v, Indices[Text[t[i].from]]) >= 16
    BY <2>1
  <2>3. t[i].prim # 8  BY <1>2
  <2> QED  BY <2>2, <2>3 DEF Binds
<1> QED  BY <1>1, <1>2

LEMMA StaysBound ==
  ASSUME NEW s \in Seq(Commands), s # <<>>, Behaves(Head(s)), DOMAIN regs = Regs,
         IsBound(regs, s)
  PROVE  IsBound(regs', Tail(s))
<1>1. /\ Len(s) \in Nat \ {0} /\ Len(Tail(s)) = Len(s) - 1
      /\ \A i \in 1 .. Len(Tail(s)) : Tail(s)[i] = s[i + 1]
  BY EmptySeq, HeadTailProperties
<1>2. SUFFICES ASSUME NEW j \in 1 .. Len(Tail(s)), Tail(s)[j].kind = "draw",
                      Tail(s)[j].prim \in {5, 8, 13}
               PROVE  Binds(regs', Tail(s), j)
  BY DEF IsBound
<1>3. j + 1 \in 1 .. Len(s) /\ s[j + 1] = Tail(s)[j]  BY <1>1
<1>4. Binds(regs, s, j + 1)  BY <1>2, <1>3 DEF IsBound
<1>5. \A r : \A v \in Before(regs, s, j + 1, r) : v \in Before(regs', Tail(s), j, r)
  BY BeforeRest
<1> QED  BY <1>3, <1>4, <1>5, BindsMore

\* A frame needs nothing of the registers.
LEMMA BoundAnyhow ==
  ASSUME NEW s, IsBound(<<>>, s)
  PROVE  IsBound(regs, s)
<1>1. SUFFICES ASSUME NEW j \in 1 .. Len(s), s[j].kind = "draw", s[j].prim \in {5, 8, 13}
               PROVE  Binds(regs, s, j)
  BY DEF IsBound
<1>2. Binds(<<>>, s, j)  BY <1>1 DEF IsBound
<1>3. DOMAIN <<>> = {}  OBVIOUS
<1>4. \A r : \A v \in Before(<<>>, s, j, r) : v \in Before(regs, s, j, r)
  BY <1>3 DEF Before
<1> QED  BY <1>2, <1>4, BindsMore


-----------------------------------------------------------------------------
(* A step of an executor.                                                   *)

\* A command with an effect takes that effect.
LEMMA EffectivePerforms ==
  ASSUME Types, SeenInv, NEW e \in Executors, NEW p, NEW n, Holding(e, p, n),
         NEW s \in Seq(Commands), s # <<>>, Describes(s[1], p, n), Effective(e),
         Quiet(e), e = Swap => IsBound(regs, s)
  PROVE  Performs(e, s[1]) /\ SeenInv' /\ irqs' \in [0 .. 5 -> Nat]
<1>1. CASE Draw(e) /\ e = Swap
  <2>1. Stream!Draw(Swap, s[1]) /\ SeenInv'  BY <1>1, SwapDraws
  <2>2. irqs' = irqs  BY <1>1 DEF Draw
  <2> QED  BY <1>1, <2>1, <2>2 DEF Performs, Types
<1>2. CASE Draw(e) /\ e # Swap
  <2>1. Stream!Draw(e, s[1]) /\ UNCHANGED <<flat, tex, seen>>  BY <1>2, PumpDraws
  <2>2. irqs' = irqs  BY <1>2 DEF Draw
  <2>3. SeenInv'  BY <2>1 DEF SeenInv, Quiet, Glyphs, Stream!Holds
  <2> QED  BY <2>1, <2>2, <2>3 DEF Performs, Types
<1>3. CASE ~ Draw(e)
  <2>1. UNCHANGED <<tex, seen>> /\ (~ Interrupt(e) => irqs' = irqs)
    BY <1>3 DEF Effective, Type0, Type1, Interrupt, EventWriteShd, EventWrite, SetConstant, XeSwap
  <2>2. SeenInv'  BY <2>1 DEF SeenInv, Quiet, Glyphs, Stream!Holds
  <2>3. CASE Interrupt(e)
    BY <2>2, <2>3, InterruptEffect DEF Performs
  <2>4. CASE ~ Interrupt(e)
    <3>1. irqs' \in [0 .. 5 -> Nat]  BY <2>1, <2>4 DEF Types
    <3>2. Type0(e) => Stream!Set(s[1])  BY Type0Effect
    <3>3. Type1(e) => Stream!Set(s[1])  BY Type1Effect
    <3>4. SetConstant(e) => Stream!Set(s[1])  BY SetConstantEffect
    <3>5. EventWrite(e) => Stream!Set(s[1])  BY EventWriteEffect
    <3>6. EventWriteShd(e) => Stream!Fence(s[1])  BY FenceEffect
    <3>7. XeSwap(e) => Stream!Exchange(s[1])  BY XeSwapEffect
    <3> QED  BY <1>3, <2>2, <2>4, <3>1, <3>2, <3>3, <3>4, <3>5, <3>6, <3>7
              DEF Performs, Effective
  <2> QED  BY <2>3, <2>4
<1> QED  BY <1>1, <1>2, <1>3

\* Every text of the segments is carved or still to come, and none is carved twice.
Carved == {Text[tex[i]] : i \in 1 .. Len(tex)}
TextInv ==
  Glyphs =>
    /\ \A i, j \in 1 .. Len(tex) : Text[tex[i]] = Text[tex[j]] => i = j
    /\ swapAt = "scan" => Carved \union TextsIn(todo[Swap]) = Texts \/ Len(tex) = Cap

LEMMA TextsOfRest ==
  ASSUME NEW s \in Seq(Commands), s # <<>>
  PROVE  TextsIn(s) = TextsIn(Tail(s)) \union
           (IF IsText(Head(s)) THEN {Text[Head(s).from]} ELSE {})
<1>1. /\ Len(s) \in Nat \ {0} /\ Len(Tail(s)) = Len(s) - 1 /\ Head(s) = s[1]
      /\ \A i \in 1 .. Len(Tail(s)) : Tail(s)[i] = s[i + 1]
  BY EmptySeq, HeadTailProperties
<1>2. ASSUME NEW x \in TextsIn(s)
      PROVE  x \in TextsIn(Tail(s)) \/ (IsText(Head(s)) /\ x = Text[Head(s).from])
  <2>1. PICK k \in 1 .. Len(s) : IsText(s[k]) /\ x = Text[s[k].from]
    BY <1>2 DEF TextsIn
  <2>2. CASE k = 1  BY <1>1, <2>1, <2>2
  <2>3. CASE k # 1
    <3>1. k - 1 \in 1 .. Len(Tail(s)) /\ Tail(s)[k - 1] = s[k]
      <4>1. k - 1 \in 1 .. Len(Tail(s)) /\ k - 1 + 1 = k  BY <1>1, <2>3
      <4> QED  BY <1>1, <4>1
    <3> QED  BY <2>1, <3>1 DEF TextsIn
  <2> QED  BY <2>2, <2>3
<1>3. ASSUME NEW x \in TextsIn(Tail(s)) PROVE x \in TextsIn(s)
  <2>1. PICK k \in 1 .. Len(Tail(s)) : IsText(Tail(s)[k]) /\ x = Text[Tail(s)[k].from]
    BY <1>3 DEF TextsIn
  <2>2. k + 1 \in 1 .. Len(s) /\ s[k + 1] = Tail(s)[k]  BY <1>1
  <2> QED  BY <2>1, <2>2 DEF TextsIn
<1>4. IsText(Head(s)) => Text[Head(s).from] \in TextsIn(s)
  BY <1>1 DEF TextsIn
<1> QED  BY <1>2, <1>3, <1>4

\* A command of a frame that is carried out leaves the texts complete.
LEMMA TextsCarried ==
  ASSUME TextInv, SeenInv, NEW s \in Seq(Commands), s = todo[Swap], s # <<>>,
         todo'[Swap] = Tail(s), Performs(Swap, Head(s)), Quiet(Swap)
  PROVE  TextInv'
<1> SUFFICES ASSUME Glyphs PROVE TextInv'  BY DEF TextInv, Glyphs, Quiet
<1> DEFINE c == Head(s)
           t == Text[c.from]
<1>1. /\ mode' = mode /\ swapAt' = swapAt /\ built' = built /\ Texts' = Texts
  BY DEF Quiet, titleVars, swapVars, Texts
<1>2. TextsIn(s) = TextsIn(Tail(s)) \union (IF IsText(c) THEN {t} ELSE {})
  BY TextsOfRest
<1>3. /\ tex \in Seq(Blocks) /\ Len(tex) \in Nat /\ Len(tex) <= Cap /\ Cap \in Nat
      /\ \A i, j \in 1 .. Len(tex) : Text[tex[i]] = Text[tex[j]] => i = j
      /\ swapAt = "scan" => Carved \union TextsIn(s) = Texts \/ Len(tex) = Cap
  BY PacketAssumption DEF TextInv, SeenInv
<1>4. Stream!Holds(tex, t) <=> t \in Carved
  BY DEF Stream!Holds, Carved
<1>5. tex' = IF IsText(c) /\ ~Stream!Holds(tex, t) THEN Stream!Put(tex, c.from) ELSE tex
  <2>1. CASE Stream!Draw(Swap, c)
    <3>1. c.kind = "draw" /\ Stream!As(c.prim) # "tex" /\ (Stream!As(c.prim) = "text" <=> c.prim = 13)
      BY <2>1 DEF Stream!Draw, Stream!As, Glyphs
    <3> QED  BY <2>1, <3>1 DEF Stream!Draw, IsText
  <2>2. CASE ~ Stream!Draw(Swap, c)
    BY <2>2 DEF Performs, Stream!Set, Stream!Fence, Stream!Exchange, Stream!Interrupt, IsText
  <2> QED  BY <2>1, <2>2
<1>6. CASE tex' = tex
  <2>1. Carved' = Carved  BY <1>6 DEF Carved
  <2>2. IsText(c) => t \in Carved \/ Len(tex) = Cap
    <3>1. ASSUME Len(tex) < Cap PROVE Len(Append(tex, c.from)) = Len(tex) + 1
      BY <1>3
    <3>2. ASSUME Len(tex) < Cap PROVE Append(tex, c.from) # tex
      BY <1>3, <3>1, <3>2
    <3> QED  BY <1>3, <1>4, <1>5, <1>6, <3>2 DEF Stream!Put
  <2>3. swapAt' = "scan" => Carved' \union TextsIn(todo'[Swap]) = Texts' \/ Len(tex') = Cap
    BY <1>1, <1>2, <1>3, <1>6, <2>1, <2>2
  <2> QED  BY <1>3, <1>6, <2>3 DEF TextInv
<1>7. CASE tex' # tex
  <2>1. IsText(c) /\ t \notin Carved /\ Len(tex) < Cap /\ tex' = Append(tex, c.from)
    BY <1>4, <1>5, <1>7 DEF Stream!Put
  <2>2. /\ Len(tex') = Len(tex) + 1 /\ tex'[Len(tex) + 1] = c.from
        /\ \A i \in 1 .. Len(tex) : tex'[i] = tex[i]
    BY <1>3, <2>1, AppendProperties
  <2>3. \A i \in 1 .. Len(tex') : i \in 1 .. Len(tex) \/ i = Len(tex) + 1
    BY <1>3, <2>2
  <2>4. Carved' = Carved \union {t}
    <3>1. Len(tex) + 1 \in 1 .. Len(tex') /\ \A i \in 1 .. Len(tex) : i \in 1 .. Len(tex')
      BY <1>3, <2>2
    <3> QED  BY <2>2, <2>3, <3>1 DEF Carved
  <2>5. ASSUME NEW i \in 1 .. Len(tex'), NEW j \in 1 .. Len(tex'),
               Text[tex'[i]] = Text[tex'[j]]
        PROVE  i = j
    <3>1. \A k \in 1 .. Len(tex) : Text[tex[k]] # t  BY <2>1 DEF Carved
    <3> QED  BY <1>3, <2>2, <2>3, <2>5, <3>1
  <2>6. swapAt' = "scan" => Carved' \union TextsIn(todo'[Swap]) = Texts' \/ Len(tex') = Cap
    BY <1>1, <1>2, <1>3, <2>1, <2>4
  <2> QED  BY <2>5, <2>6 DEF TextInv
<1> QED  BY <1>6, <1>7


-----------------------------------------------------------------------------
(* The invariant.                                                           *)

\* The pump owes the commands from its packet to the write index, and VdSwap those
\* of the segments that it has not executed.
Behindhand(D) == Owes(Pump, D[batch], D)
Scanned(D) ==
  /\ \A j \in 1 .. Len(stack[Swap]) : stack[Swap][j].depth # 0
  /\ IF swapAt = "scan"
     THEN \E t \in Seq(Commands) :
            Owes(Swap, t, D) /\ SegmentCommands[built] = SegmentCommands[cursor] \o t
     ELSE stack[Swap] = <<>> /\ todo[Swap] = <<>>
StreamInv == \E D : RingInv(D) /\ Behindhand(D) /\ Scanned(D)

\* Who executes holds the run token.
LockInv ==
  /\ owner = Pump <=> batch # lastWptr
  /\ owner = Swap <=> swapAt = "scan"
  /\ stack[Pump] # <<>> => batch # lastWptr

FrameInv == swapAt = "scan" => IsBound(regs, todo[Swap])

IInv == Types /\ StreamInv /\ SeenInv /\ TextInv /\ LockInv /\ FrameInv

LEMMA OwesNext ==
  ASSUME NEW e, NEW t, NEW D, UNCHANGED <<ring, wptr, rptr, lastWptr, batch>>,
         \E T : IsChain(stack'[e], T, D) /\ T[1] = todo'[e] /\ T[Len(T)] = t
  PROVE  Owes(e, t, D)'
<1>1. PICK s : s = stack'[e]  OBVIOUS
<1>2. PICK T : IsChain(s, T, D) /\ T[1] = todo'[e] /\ T[Len(T)] = t
  BY <1>1
<1>3. IsChain(s, T, D)'  BY <1>2, ChainUnchanged
<1> QED  BY <1>1, <1>2, <1>3 DEF Owes

LEMMA OwesKept ==
  ASSUME NEW e, NEW t, NEW D, Owes(e, t, D), UNCHANGED <<ring, wptr, rptr, lastWptr, batch>>,
         stack'[e] = stack[e], todo'[e] = todo[e]
  PROVE  Owes(e, t, D)'
<1>1. \E T : IsChain(stack'[e], T, D) /\ T[1] = todo'[e] /\ T[Len(T)] = t
  BY DEF Owes
<1> QED  BY <1>1, OwesNext


\* The calls and the streams behind a step of e.
LEMMA StreamStep ==
  ASSUME Types, StreamInv, NEW e \in Executors, Interpret(e)
  PROVE  /\ StreamInv'
         /\ irqs' \in [0 .. 5 -> Nat] /\ regs' = [r \in Regs |-> regs'[r]] => Types'
         /\ Quiet(e) /\ Running(e) /\ (e = Swap => swapAt = "scan")
         /\ \A x \in Executors \ {e} : stack'[x] = stack[x] /\ todo'[x] = todo[x]
         /\ \/ UNCHANGED <<effects, todo>>
            \/ /\ Effective(e) /\ More(e) /\ Top(e) \in Frames /\ WellFormed(Mem[Top(e).at])
               /\ todo[e] # <<>> /\ todo' = [todo EXCEPT ![e] = Tail(todo[e])]
               /\ Describes(Head(todo[e]), PacketAt(Mem, Top(e)),
                            Size(Packet(e), Top(e).end - Top(e).at - 1))
<1>1. PICK D : RingInv(D) /\ Behindhand(D) /\ Scanned(D)  BY DEF StreamInv
<1>2. Running(e)
  BY DEF Interpret, Skip, Type0, Type1, IndirectBuffer, Interrupt, EventWriteShd, EventWrite,
         SetConstant, XeSwap, Ignored, Draw, Return, Type3
<1>3. e = Swap => swapAt = "scan"  BY <1>1, <1>2 DEF Scanned, Running
<1>4. e \in {Pump, Swap} /\ Pump # Swap  BY PacketAssumption DEF Executors
<1>5. PICK t : /\ Owes(e, t, D) /\ (e = Pump => t = D[batch])
               /\ e = Swap => /\ t \in Seq(Commands)
                              /\ SegmentCommands[built] = SegmentCommands[cursor] \o t
  BY <1>1, <1>3, <1>4 DEF Behindhand, Scanned
<1>6. /\ stack' = [stack EXCEPT ![e] = stack'[e]] /\ stack'[e] \in Seq(Frames)
      /\ (\A j \in 1 .. Len(stack[e]) : stack[e][j].depth # 0)
           => \A j \in 1 .. Len(stack'[e]) : stack'[e][j].depth # 0
      /\ todo' \in [Executors -> Seq(Commands)]
      /\ Quiet(e)
      /\ \E T : IsChain(stack'[e], T, D) /\ T[1] = todo'[e] /\ T[Len(T)] = t
      /\ \/ UNCHANGED <<effects, todo>>
         \/ /\ Effective(e) /\ More(e) /\ Top(e) \in Frames /\ WellFormed(Mem[Top(e).at])
            /\ todo[e] # <<>> /\ todo' = [todo EXCEPT ![e] = Tail(todo[e])]
            /\ Describes(Head(todo[e]), PacketAt(Mem, Top(e)),
                         Size(Packet(e), Top(e).end - Top(e).at - 1))
  BY <1>1, <1>5, StepOwes
<1>7. \A x \in Executors \ {e} : stack'[x] = stack[x] /\ todo'[x] = todo[x]
  BY <1>6 DEF Types
<1>8. /\ UNCHANGED <<ring, wptr, rptr, lastWptr, batch, swapAt, cursor, built>>
      /\ mode' = mode /\ wptr' = wptr
  BY <1>6 DEF Quiet, titleVars, pumpVars, swapVars
<1>9. RingInv(D)'  BY <1>1, <1>8, ChainUnchanged
<1>10. Owes(e, t, D)'  BY <1>6, <1>8, OwesNext
<1>11. Behindhand(D)'
  <2>1. CASE e = Pump
    BY <1>5, <1>8, <1>10, <2>1 DEF Behindhand, Owes
  <2>2. CASE e = Swap
    <3>1. stack'[Pump] = stack[Pump] /\ todo'[Pump] = todo[Pump]
      BY <1>4, <1>7, <2>2 DEF Executors
    <3>2. PICK u : u = D[batch]  OBVIOUS
    <3>3. Owes(Pump, u, D)'  BY <1>1, <1>8, <3>1, <3>2, OwesKept DEF Behindhand
    <3> QED  BY <1>8, <3>2, <3>3 DEF Behindhand, Owes
  <2> QED  BY <1>4, <2>1, <2>2
<1>12. Scanned(D)'
  <2>1. CASE e = Swap
    <3>1. swapAt' = "scan"  BY <1>3, <1>8, <2>1
    <3>2. \A j \in 1 .. Len(stack'[Swap]) : stack'[Swap][j].depth # 0
      BY <1>1, <1>6, <2>1 DEF Scanned
    <3>3. SegmentCommands[built'] = SegmentCommands[cursor'] \o t /\ t \in Seq(Commands)
      BY <1>5, <1>8, <2>1
    <3> QED  BY <1>10, <2>1, <3>1, <3>2, <3>3 DEF Scanned
  <2>2. CASE e = Pump
    <3>1. stack'[Swap] = stack[Swap] /\ todo'[Swap] = todo[Swap]
      BY <1>4, <1>7, <2>2 DEF Executors
    <3>2. CASE swapAt = "scan"
      <4>1. PICK u \in Seq(Commands) :
              Owes(Swap, u, D) /\ SegmentCommands[built] = SegmentCommands[cursor] \o u
        BY <1>1, <3>2 DEF Scanned
      <4>2. Owes(Swap, u, D)'  BY <1>8, <3>1, <4>1, OwesKept
      <4>3. SegmentCommands[built'] = SegmentCommands[cursor'] \o u
        BY <1>8, <4>1
      <4> QED  BY <1>1, <1>8, <3>1, <3>2, <4>2, <4>3 DEF Scanned
    <3>3. CASE swapAt # "scan"
      BY <1>1, <1>8, <3>1, <3>3 DEF Scanned
    <3> QED  BY <3>2, <3>3
  <2> QED  BY <1>4, <2>1, <2>2
<1>13. StreamInv'  BY <1>9, <1>11, <1>12 DEF StreamInv
<1>14. ASSUME irqs' \in [0 .. 5 -> Nat], regs' = [r \in Regs |-> regs'[r]]
       PROVE  Types'
  <2>1. stack' \in [Executors -> Seq(Frames)]
    <3>1. stack \in [Executors -> Seq(Frames)]  BY DEF Types
    <3> QED  BY <1>6, <3>1
  <2> QED  BY <1>6, <1>8, <1>14, <2>1 DEF Types
<1> QED  BY <1>2, <1>3, <1>6, <1>7, <1>13, <1>14


\* A step of an executor is a command of its stream, or none.
LEMMA InterpretKeeps ==
  ASSUME Locked, IInv, NEW e \in Executors, Interpret(e)
  PROVE  IInv' /\ (UNCHANGED Stream!vars \/ Stream!Execute(e))
<1> USE DEF IInv
<1>1. /\ StreamInv'
      /\ irqs' \in [0 .. 5 -> Nat] /\ regs' = [r \in Regs |-> regs'[r]] => Types'
      /\ Quiet(e) /\ Running(e) /\ (e = Swap => swapAt = "scan")
      /\ \A x \in Executors \ {e} : stack'[x] = stack[x] /\ todo'[x] = todo[x]
      /\ \/ UNCHANGED <<effects, todo>>
         \/ /\ Effective(e) /\ More(e) /\ Top(e) \in Frames /\ WellFormed(Mem[Top(e).at])
            /\ todo[e] # <<>> /\ todo' = [todo EXCEPT ![e] = Tail(todo[e])]
            /\ Describes(Head(todo[e]), PacketAt(Mem, Top(e)),
                         Size(Packet(e), Top(e).end - Top(e).at - 1))
  BY StreamStep
<1>3. e \in {Pump, Swap} /\ Pump # Swap  BY PacketAssumption DEF Executors
<1>4. UNCHANGED <<mode, wptr, built, batch, lastWptr, swapAt, cursor, shown, frames, owner>>
  BY <1>1 DEF Quiet, titleVars, pumpVars, swapVars
<1>5. e = Pump => swapAt # "scan"
  BY <1>1, <1>3 DEF LockInv, Running
<1>6. LockInv'
  <2>1. e = Swap => stack'[Pump] = stack[Pump]  BY <1>1, <1>3 DEF Executors
  <2>2. e = Pump => batch # lastWptr  BY <1>1 DEF LockInv, Running
  <2> QED  BY <1>3, <1>4, <2>1, <2>2 DEF LockInv
<1>7. CASE UNCHANGED <<effects, todo>>
  <2>1. UNCHANGED <<regs, mem, counter, draws, irqs, flat, tex, seen, todo>>
    BY <1>7 DEF effects
  <2>2. Types'  BY <1>1, <2>1 DEF Types
  <2>3. SeenInv'  BY <1>4, <2>1 DEF SeenInv, Glyphs, Stream!Holds
  <2>4. TextInv'
    BY <1>4, <2>1 DEF TextInv, Glyphs, Carved, Texts
  <2>5. FrameInv'
    <3>1. FrameInv  OBVIOUS
    <3>2. IsBound(regs, todo[Swap]) => IsBound(regs', todo'[Swap])
      BY <2>1
    <3> QED  BY <1>4, <3>1, <3>2 DEF FrameInv
  <2>6. UNCHANGED Stream!vars  BY <1>4, <2>1 DEF Stream!vars
  <2> QED  BY <1>1, <1>6, <2>2, <2>3, <2>4, <2>5, <2>6
<1>8. CASE ~ UNCHANGED <<effects, todo>>
  <2> DEFINE s == todo[e]
             p == PacketAt(Mem, Top(e))
             n == Size(Packet(e), Top(e).end - Top(e).at - 1)
  <2>1. /\ Effective(e) /\ More(e) /\ Top(e) \in Frames /\ WellFormed(Mem[Top(e).at])
        /\ s # <<>> /\ todo' = [todo EXCEPT ![e] = Tail(s)]
        /\ Describes(Head(s), p, n)
    BY <1>1, <1>8
  <2>2. s \in Seq(Commands) /\ Head(s) = s[1] /\ todo'[e] = Tail(s)
    BY <2>1 DEF Types
  <2>3. Holding(e, p, n)
    <3>1. p[0] = Packet(e) /\ n \in Nat /\ \A j \in 1 .. n : p[j] = Datum(e, j - 1)
      BY <2>1, PacketWords
    <3>2. WellFormed(p[0])
      <4>1. Mem[Top(e).at] = Packet(e)  BY <2>1 DEF Mem, Packet, Frames
      <4> QED  BY <2>1, <3>1, <4>1
    <3> QED  BY <3>1, <3>2 DEF Holding
  <2> HIDE DEF p, n
  <2>4. e = Swap => IsBound(regs, s)  BY <1>1 DEF FrameInv
  <2>5. Performs(e, s[1]) /\ SeenInv' /\ irqs' \in [0 .. 5 -> Nat]
    <3> HIDE DEF s
    <3> QED  BY <1>1, <2>1, <2>2, <2>3, <2>4, EffectivePerforms
  <2>6. Behaves(s[1]) /\ regs' = [r \in Regs |-> regs'[r]]
    <3>1. regs = [r \in Regs |-> regs[r]]  BY DEF Types
    <3> HIDE DEF s
    <3> QED  BY <2>5, <3>1, PerformsWrites
  <2>7. Types'  BY <1>1, <2>5, <2>6
  <2>8. TextInv'
    <3>1. CASE e = Swap
      BY <1>1, <2>1, <2>2, <2>5, <3>1, TextsCarried
    <3>2. CASE e = Pump
      <4>1. todo'[Swap] = todo[Swap] /\ tex' = tex
        <5>1. todo'[Swap] = todo[Swap]  BY <1>1, <1>3, <3>2 DEF Executors
        <5>2. tex' = tex
          BY <1>3, <2>5, <3>2 DEF Performs, Stream!Set, Stream!Fence, Stream!Exchange,
               Stream!Interrupt, Stream!Draw
        <5> QED  BY <5>1, <5>2
      <4> QED  BY <1>4, <4>1 DEF TextInv, Glyphs, Carved, Texts
    <3> QED  BY <1>3, <3>1, <3>2
  <2>9. FrameInv'
    <3>1. CASE e = Swap
      <4>1. DOMAIN regs = Regs /\ IsBound(regs, s)  BY <2>4, <3>1 DEF Types
      <4>2. IsBound(regs', Tail(s))
        <5> HIDE DEF s
        <5> QED  BY <2>1, <2>2, <2>6, <4>1, StaysBound
      <4>3. IsBound(regs', todo'[Swap])  BY <2>2, <3>1, <4>2
      <4> QED  BY <4>3 DEF FrameInv
    <3>2. CASE e = Pump  BY <1>4, <1>5, <3>2 DEF FrameInv
    <3> QED  BY <1>3, <3>1, <3>2
  <2>10. Stream!Execute(e)
    BY <1>4, <2>1, <2>2, <2>5 DEF Stream!Execute, Performs
  <2> QED  BY <1>1, <1>6, <2>5, <2>7, <2>8, <2>9, <2>10
<1> QED  BY <1>7, <1>8


-----------------------------------------------------------------------------
(* The title.                                                               *)

\* Calls outside the ring do not see it.
LEMMA BelowUnchanged ==
  ASSUME NEW t, NEW D, NEW E, Owes(Swap, t, D),
         \A j \in 1 .. Len(stack[Swap]) : stack[Swap][j].depth # 0,
         stack'[Swap] = stack[Swap], todo'[Swap] = todo[Swap]
  PROVE  Owes(Swap, t, E)'
<1>1. PICK T : IsChain(stack[Swap], T, D) /\ T[1] = todo[Swap] /\ T[Len(T)] = t
  BY DEF Owes
<1>2. PICK s : s = stack[Swap]  OBVIOUS
<1>3. ASSUME NEW j \in 1 .. Len(s) PROVE Links(s[j], T[j], T[j + 1], E)'
  <2>1. Links(s[j], T[j], T[j + 1], D) /\ s[j].depth # 0
    BY <1>1, <1>2 DEF IsChain
  <2> QED  BY <2>1 DEF Links
<1>4. IsChain(s, T, E)'  BY <1>1, <1>2, <1>3 DEF IsChain
<1> QED  BY <1>1, <1>2, <1>4 DEF Owes

LEMMA SubmitKeeps ==
  ASSUME IInv, NEW i \in DOMAIN Menu, Submit(i)
  PROVE  IInv' /\ Stream!Submit(Pump)
<1> USE DEF IInv
<1> DEFINE C == Menu[i].commands
<1>1. /\ UNCHANGED <<mode, built, rptr, lastWptr, batch, swapAt, cursor, shown, frames, owner, stack,
                     regs, mem, counter, draws, irqs, flat, tex, seen>>
      /\ todo' = [todo EXCEPT ![Pump] = @ \o C]
  BY DEF Submit, pumpVars, swapVars, effects
<1>2. PICK D : RingInv(D) /\ Behindhand(D) /\ Scanned(D)  BY DEF StreamInv
<1>3. PICK E : RingInv(E)' /\ Lengthens(D, E, C)
  BY <1>2, RingSubmit
<1>4. C \in Seq(Commands)  BY ItemMeant
<1>5. Pump # Swap /\ Pump \in Executors /\ Swap \in Executors
  BY PacketAssumption DEF Executors
<1>6. todo \in [Executors -> Seq(Commands)] /\ stack \in [Executors -> Seq(Frames)]
  BY DEF Types
<1>7. /\ todo'[Swap] = todo[Swap] /\ todo'[Pump] = todo[Pump] \o C
      /\ todo' \in [Executors -> Seq(Commands)]
  <2>1. todo[Pump] \o C \in Seq(Commands)  BY <1>4, <1>5, <1>6, ConcatProperties
  <2> QED  BY <1>1, <1>5, <1>6, <2>1
<1>8. Behindhand(E)'
  <2>1. PICK T : IsChain(stack[Pump], T, D) /\ T[1] = todo[Pump] /\ T[Len(T)] = D[batch]
    BY <1>2 DEF Behindhand, Owes
  <2>2. PICK s : s = stack[Pump]  OBVIOUS
  <2>3. s \in Seq(Frames)  BY <1>5, <1>6, <2>2
  <2>4. RingTyped /\ D \in [0 .. RingSize -> Seq(Commands)]
    BY <1>2 DEF RingInv, Reads
  <2>5. Continued(s, T, E, C)
    <3>1. batch' = batch /\ rptr' = rptr /\ RingTyped  BY <1>1, <2>4
    <3>2. IsChain(s, T, D)  BY <2>1, <2>2
    <3>3. RingInv(E)' /\ Lengthens(D, E, C)  BY <1>3
    <3>4. D \in [0 .. RingSize -> Seq(Commands)]  BY <2>4
    <3> HIDE DEF C, IInv
    <3> QED  BY <1>4, <2>3, <3>1, <3>2, <3>3, <3>4, ChainSubmitted
  <2>6. PICK U : IsChain(s, U, E)' /\ U[1] = T[1] \o C /\ U[Len(U)] = T[Len(T)] \o C
    BY <2>5 DEF Continued
  <2>7. U[1] = todo'[Pump] /\ U[Len(U)] = E[batch']
    BY <1>1, <1>3, <1>7, <2>1, <2>6 DEF Lengthens
  <2>8. s = stack'[Pump]  BY <1>1, <2>2
  <2> QED  BY <2>6, <2>7, <2>8 DEF Behindhand, Owes
<1>9. Scanned(E)'
  <2>1. CASE swapAt = "scan"
    <3>1. PICK t \in Seq(Commands) :
            Owes(Swap, t, D) /\ SegmentCommands[built] = SegmentCommands[cursor] \o t
      BY <1>2, <2>1 DEF Scanned
    <3>2. Owes(Swap, t, E)'
      <4>1. \A j \in 1 .. Len(stack[Swap]) : stack[Swap][j].depth # 0
        BY <1>2 DEF Scanned
      <4> QED  BY <1>1, <1>7, <3>1, <4>1, BelowUnchanged
    <3> QED  BY <1>1, <1>2, <2>1, <3>1, <3>2 DEF Scanned
  <2>2. CASE swapAt # "scan"  BY <1>1, <1>2, <1>7, <2>2 DEF Scanned
  <2> QED  BY <2>1, <2>2
<1>10. StreamInv'  BY <1>3, <1>8, <1>9 DEF StreamInv
<1>11. Types'  BY <1>1, <1>7 DEF Types
<1>12. SeenInv'  BY <1>1 DEF SeenInv, Glyphs, Stream!Holds
<1>13. TextInv'  BY <1>1, <1>7 DEF TextInv, Glyphs, Carved, Texts
<1>14. LockInv'  BY <1>1 DEF LockInv
<1>15. FrameInv'
  <2>1. FrameInv  OBVIOUS
  <2>2. IsBound(regs, todo[Swap]) => IsBound(regs', todo'[Swap])  BY <1>1, <1>7
  <2> QED  BY <1>1, <2>1, <2>2 DEF FrameInv
<1>16. Stream!Submit(Pump)
  <2>1. UNCHANGED <<mode, Stream!effects, shown>>  BY <1>1 DEF Stream!effects
  <2> QED  BY <1>1, <2>1 DEF Stream!Submit
<1> QED  BY <1>10, <1>11, <1>12, <1>13, <1>14, <1>15, <1>16

LEMMA RecordKeeps ==
  ASSUME IInv, Record
  PROVE  IInv' /\ UNCHANGED Stream!vars
<1> USE DEF IInv
<1>1. /\ UNCHANGED <<mode, ring, wptr, rptr, lastWptr, batch, swapAt, cursor, shown, frames, owner,
                     stack, regs, mem, counter, draws, irqs, flat, tex, seen, todo>>
      /\ swapAt = "out" /\ built' = built + 1 /\ built < Len(Directory)
  BY DEF Record, pumpVars, swapVars, effects
<1>2. PICK D : RingInv(D) /\ Behindhand(D) /\ Scanned(D)  BY DEF StreamInv
<1>3. RingInv(D)'  BY <1>1, <1>2, ChainUnchanged
<1>4. Behindhand(D)'
  <2>1. PICK t : t = D[batch]  OBVIOUS
  <2>2. Owes(Pump, t, D)'  BY <1>1, <1>2, <2>1, OwesKept DEF Behindhand
  <2> QED  BY <1>1, <2>1, <2>2 DEF Behindhand, Owes
<1>5. Scanned(D)'  BY <1>1, <1>2 DEF Scanned
<1>6. StreamInv'  BY <1>3, <1>4, <1>5 DEF StreamInv
<1>7. Types'
  <2>1. built' \in 0 .. Len(Directory) /\ cursor' \in 0 .. built'
    BY <1>1, PacketAssumption DEF Types
  <2> QED  BY <1>1, <2>1 DEF Types
<1>8. SeenInv'  BY <1>1 DEF SeenInv, Glyphs, Stream!Holds
<1>9. TextInv'  BY <1>1 DEF TextInv, Glyphs
<1>10. LockInv' /\ FrameInv'  BY <1>1 DEF LockInv, FrameInv
<1> QED  BY <1>1, <1>6, <1>7, <1>8, <1>9, <1>10 DEF Stream!vars


-----------------------------------------------------------------------------
(* The pump's batches.                                                      *)

LEMMA NothingCalled ==
  ASSUME NEW e, NEW t, NEW D, stack[e] = <<>>, Owes(e, t, D)
  PROVE  todo[e] = t
<1>1. PICK T : IsChain(stack[e], T, D) /\ T[1] = todo[e] /\ T[Len(T)] = t
  BY DEF Owes
<1>2. Len(T) = 1  BY <1>1 DEF IsChain
<1> QED  BY <1>1, <1>2

LEMMA CallsNothing ==
  ASSUME NEW e, NEW t \in Seq(Commands), NEW D, stack'[e] = <<>>, todo'[e] = t
  PROVE  Owes(e, t, D)'
<1> DEFINE T == <<t>>
<1>1. T \in Seq(Seq(Commands)) /\ Len(T) = 1 /\ T[1] = t  OBVIOUS
<1> HIDE DEF T
<1>2. IsChain(<<>>, T, D)'  BY <1>1 DEF IsChain
<1> QED  BY <1>1, <1>2 DEF Owes

\* After a step, s is the stack of e, which owes t and then u behind its first call.
Proceeds(e, s, t) == stack'[e] = s /\ todo'[e] = t
Leads(f, t, u, D) == t \in Seq(Commands) /\ u \in Seq(Commands) /\ Links(f, t, u, D)'

LEMMA CallsOne ==
  ASSUME NEW e, NEW t, NEW u, NEW D, NEW f, Proceeds(e, <<f>>, t), Leads(f, t, u, D)
  PROVE  Owes(e, u, D)'
<1> USE DEF Proceeds, Leads
<1> DEFINE T == <<t, u>>
<1>1. T \in Seq(Seq(Commands)) /\ Len(T) = 2 /\ T[1] = t /\ T[2] = u  OBVIOUS
<1> HIDE DEF T
<1> DEFINE s == <<f>>
<1>2. Len(s) = 1 /\ s[1] = f  OBVIOUS
<1> HIDE DEF s
<1>3. ASSUME NEW j \in 1 .. Len(s) PROVE Links(s[j], T[j], T[j + 1], D)'
  <2>1. j = 1 /\ j + 1 = 2  BY <1>2
  <2> QED  BY <1>1, <1>2, <2>1
<1>4. IsChain(s, T, D)'  BY <1>1, <1>2, <1>3 DEF IsChain
<1> QED  BY <1>1, <1>4 DEF Owes, s

LEMMA CallsTwo ==
  ASSUME NEW e, NEW t, NEW u, NEW v, NEW D, NEW f, NEW g, Proceeds(e, <<f, g>>, t),
         Leads(f, t, u, D), Leads(g, u, v, D)
  PROVE  Owes(e, v, D)'
<1> USE DEF Proceeds, Leads
<1> DEFINE T == <<t, u, v>>
<1>1. T \in Seq(Seq(Commands)) /\ Len(T) = 3 /\ T[1] = t /\ T[2] = u /\ T[3] = v  OBVIOUS
<1> HIDE DEF T
<1> DEFINE s == <<f, g>>
<1>2. Len(s) = 2 /\ s[1] = f /\ s[2] = g  OBVIOUS
<1> HIDE DEF s
<1>3. ASSUME NEW j \in 1 .. Len(s) PROVE Links(s[j], T[j], T[j + 1], D)'
  <2>1. CASE j = 1
    <3>1. j + 1 = 2  BY <2>1
    <3> QED  BY <1>1, <1>2, <2>1, <3>1
  <2>2. CASE j = 2
    <3>1. j + 1 = 3  BY <2>2
    <3> QED  BY <1>1, <1>2, <2>2, <3>1
  <2> QED  BY <1>2, <2>1, <2>2
<1>4. IsChain(s, T, D)'  BY <1>1, <1>2, <1>3 DEF IsChain
<1> QED  BY <1>1, <1>4 DEF Owes, s

\* All that is between two words of an item is there.
LEMMA WordsBetween ==
  ASSUME RingTyped, ItemsWhole, NEW a \in 0 .. (RingSize - 1), Used(a), IsItem(a),
         NEW j \in 1 .. Len(Words(a)), NEW c \in Int,
         (a <= c /\ c <= a - Pos(a) + j) \/ (a - Pos(a) + j <= c /\ c <= a)
  PROVE  Used(c)
<1>1. a \in Int /\ Len(Words(a)) \in Nat /\ Pos(a) \in 1 .. Len(Words(a))
  BY ItemTyped, PacketAssumption
<1> DEFINE k == c - a + Pos(a)
<1>2. k \in 1 .. Len(Words(a)) /\ a - Pos(a) + k = c  BY <1>1
<1> HIDE DEF k
<1> QED  BY <1>2, ItemWords

\* A packet begins where the word before is not there.
LEMMA BeginsHere ==
  ASSUME RingTyped, ItemsWhole, NEW a \in 0 .. (RingSize - 1), Used(a),
         ~ (a - 1 \in 0 .. (RingSize - 1) /\ Used(a - 1))
  PROVE  Begins(a)
<1> SUFFICES ASSUME IsItem(a) PROVE ItemFrame(a) \in DOMAIN OfItem[Item(a)]
  BY DEF Begins
<1>1. /\ a \in Int /\ Len(Words(a)) \in Nat /\ Pos(a) \in 1 .. Len(Words(a))
      /\ ItemIsRead(Item(a))
  BY ItemTyped, PacketAssumption
<1>2. Pos(a) = 1
  <2>1. SUFFICES ASSUME Pos(a) # 1 PROVE FALSE  OBVIOUS
  <2>2. Pos(a) - 1 \in 1 .. Len(Words(a)) /\ a - Pos(a) + (Pos(a) - 1) = a - 1
    BY <1>1, <2>1
  <2>3. a - 1 \in 0 .. (RingSize - 1) /\ Used(a - 1)
    BY <2>2, ItemWords
  <2> QED  BY <2>3
<1>3. ItemFrame(a) = Frame(1, Len(Menu[Item(a)].words), 0)
  BY <1>1, <1>2 DEF ItemFrame, Frame, Words
<1> QED  BY <1>1, <1>3 DEF ItemIsRead


\* The new batch ends at the write index, where no item has words on both sides.
LEMMA RingBegins ==
  ASSUME NEW D, RingInv(D), batch' = wptr, UNCHANGED <<ring, wptr, rptr, lastWptr>>
  PROVE  RingInv(D)'
<1> USE DEF RingInv
<1>1. RingSize \in Nat \ {0} /\ wptr \in 0 .. (RingSize - 1) /\ rptr \in 0 .. (RingSize - 1)
  BY PacketAssumption DEF RingTyped
<1>2. ~ Used(wptr)  BY <1>1 DEF Used
<1>3. RingTyped'  BY DEF RingTyped, Used
<1>4. ASSUME NEW a \in 0 .. (RingSize - 1), Used(a), IsItem(a), a < wptr
      PROVE  Last(a) < wptr
  <2>1. a \in Int /\ Len(Words(a)) \in Nat /\ Pos(a) \in 1 .. Len(Words(a))
    BY <1>4, ItemTyped, PacketAssumption
  <2>2. Len(Words(a)) \in 1 .. Len(Words(a)) /\ a - Pos(a) + Len(Words(a)) = Last(a)
    BY <2>1 DEF Last
  <2>3. SUFFICES ASSUME ~ (Last(a) < wptr) PROVE FALSE  OBVIOUS
  <2>4. a <= wptr /\ wptr <= a - Pos(a) + Len(Words(a)) /\ wptr \in Int
    BY <1>1, <1>4, <2>1, <2>2, <2>3
  <2>5. Used(wptr)  BY <1>4, <2>2, <2>4, WordsBetween
  <2> QED  BY <1>2, <2>5
<1>5. ItemsWhole'
  BY <1>4 DEF ItemsWhole, Used, IsItem, Item, Pos, Words, Last
<1>6. Reads(D)'
  BY DEF Reads, Used, IsItem, ItemFrame, Item, Pos, Words, Last
<1> QED  BY <1>3, <1>5, <1>6

\* What the pump has read is nowhere the beginning of an item whose end it has not.
LEMMA RingEnds ==
  ASSUME NEW D, RingInv(D), rptr' = batch, lastWptr' = batch, UNCHANGED <<ring, wptr, batch>>
  PROVE  RingInv(D)'
<1> USE DEF RingInv
<1> DEFINE Used1(a) == IF rptr' <= wptr' THEN rptr' <= a /\ a < wptr' ELSE rptr' <= a \/ a < wptr'
<1>1. /\ RingSize \in Nat \ {0} /\ wptr \in 0 .. (RingSize - 1) /\ rptr \in 0 .. (RingSize - 1)
      /\ batch \in 0 .. (RingSize - 1) /\ (Used(batch) \/ batch = wptr)
  BY PacketAssumption DEF RingTyped
<1>2. \A a \in 0 .. (RingSize - 1) : Used1(a) => Used(a) /\ a # wptr
  BY <1>1 DEF Used
<1>3. RingTyped'
  <2>1. Used1(batch) \/ batch = wptr  BY <1>1
  <2> QED  BY <1>1, <2>1 DEF RingTyped, Used
<1>4. ~ Used(wptr)  BY <1>1 DEF Used
<1>5. ASSUME NEW a \in 0 .. (RingSize - 1), Used1(a), IsItem(a), NEW j \in 1 .. Len(Words(a))
      PROVE  Used1(a - Pos(a) + j)
  <2> DEFINE b == a - Pos(a) + j
  <2>1. Used(a) /\ a \in Int /\ wptr \in Int  BY <1>1, <1>2, <1>5
  <2>2. /\ Len(Words(a)) \in Nat /\ Pos(a) \in 1 .. Len(Words(a)) /\ Pos(a) <= Len(Words(a))
    BY <1>5, ItemTyped
  <2>3. b \in 0 .. (RingSize - 1) /\ Used(b) /\ IsItem(b) /\ Last(b) = Last(a)
    BY <1>5, <2>1, ItemWords
  <2>4. Last(a) >= a  BY <2>1, <2>2 DEF Last
  <2>5. b < batch => Last(a) < batch
    BY <2>3 DEF ItemsWhole
  <2>6. ~ (a <= wptr /\ wptr <= b) /\ ~ (b <= wptr /\ wptr <= a)
    BY <1>4, <1>5, <2>1, WordsBetween
  <2> SUFFICES Used1(b)  OBVIOUS
  <2>7. Last(a) \in Int  BY <2>1, <2>2 DEF Last
  <2> HIDE DEF b
  <2> QED  BY <1>1, <1>5, <2>1, <2>3, <2>4, <2>5, <2>6, <2>7 DEF Used
<1>6. ItemsWhole'
  <2> SUFFICES ASSUME NEW a \in 0 .. (RingSize - 1), Used1(a), IsItem(a)
               PROVE  /\ a < batch => Last(a) < batch
                      /\ \A j \in 1 .. Len(Words(a)) :
                           LET b == a - Pos(a) + j
                           IN b \in 0 .. (RingSize - 1) /\ Used1(b) /\ ring[b] = <<Item(a), j>>
    BY DEF ItemsWhole, Used, IsItem, Item, Pos, Words, Last
  <2>1. /\ a < batch => Last(a) < batch
        /\ \A j \in 1 .. Len(Words(a)) :
             LET b == a - Pos(a) + j
             IN b \in 0 .. (RingSize - 1) /\ ring[b] = <<Item(a), j>>
    BY <1>2 DEF ItemsWhole
  <2> HIDE DEF Used1
  <2> QED  BY <1>5, <2>1
<1>7. Reads(D)'
  <2>1. ASSUME NEW a \in 0 .. (RingSize - 1), Used1(a) PROVE Used(a)
    BY <1>2, <2>1
  <2>2. /\ D \in [0 .. RingSize -> Seq(Commands)]
        /\ D[RingSize] = D[0] /\ D[wptr] = <<>>
        /\ \A a \in 0 .. (RingSize - 1) : Used1(a) =>
             IF IsItem(a)
             THEN ItemFrame(a) \in DOMAIN OfItem[Item(a)] =>
                    D[a] = OfItem[Item(a)][ItemFrame(a)] \o D[Last(a) + 1]
             ELSE D[a] = D[a + 1]
    BY <2>1 DEF Reads
  <2> QED  BY <2>2 DEF Reads, Used, IsItem, ItemFrame, Item, Pos, Words, Last
<1> QED  BY <1>3, <1>6, <1>7

LEMMA TwoCalls ==
  ASSUME NEW f, NEW g
  PROVE  <<f>> \o <<g>> = <<f, g>>
<1> DEFINE S == {f, g}
           s == <<f>>
           t == <<g>>
           u == <<f, g>>
<1>1. /\ s \in Seq(S) /\ t \in Seq(S) /\ u \in Seq(S)
      /\ Len(s) = 1 /\ Len(t) = 1 /\ Len(u) = 2
      /\ s[1] = f /\ t[1] = g /\ u[1] = f /\ u[2] = g
  OBVIOUS
<1> HIDE DEF S, s, t, u
<1>2. /\ s \o t \in Seq(S) /\ Len(s \o t) = 1 + 1
      /\ \A i \in 1 .. 1 + 1 : (s \o t)[i] = IF i <= 1 THEN s[i] ELSE t[i - 1]
  <2>1. \A a, b \in Seq(S) :
          /\ a \o b \in Seq(S) /\ Len(a \o b) = Len(a) + Len(b)
          /\ \A i \in 1 .. Len(a) + Len(b) :
               (a \o b)[i] = IF i <= Len(a) THEN a[i] ELSE b[i - Len(a)]
    BY ConcatProperties
  <2>2. s \in Seq(S) /\ t \in Seq(S) /\ Len(s) = 1 /\ Len(t) = 1  BY <1>1
  <2> QED  BY <2>1, <2>2
<1>3. Len(s \o t) = Len(u)  BY <1>1, <1>2
<1>4. ASSUME NEW i \in 1 .. Len(s \o t) PROVE (s \o t)[i] = u[i]
  <2>1. i = 1 \/ i = 2  BY <1>2
  <2> QED  BY <1>1, <1>2, <2>1
<1>5. s \o t = u  BY <1>1, <1>2, <1>3, <1>4, SeqEqual
<1> QED  BY <1>5 DEF s, t, u

\* What ExecuteRing calls.
LEMMA RingCalls ==
  ASSUME NEW D, RingInv(D), batch' = wptr, batch = lastWptr, wptr # lastWptr,
         UNCHANGED <<ring, wptr, rptr, lastWptr>>,
         stack'[Pump] = ExecuteRing(lastWptr, wptr), todo'[Pump] = D[lastWptr]
  PROVE  stack'[Pump] \in Seq(Frames) /\ Owes(Pump, D[wptr], D)'
<1> DEFINE L == lastWptr
           R == RingSize
           Used1(a) == IF rptr' <= wptr' THEN rptr' <= a /\ a < wptr' ELSE rptr' <= a \/ a < wptr'
<1>1. /\ R \in Nat \ {0} /\ wptr \in 0 .. (R - 1) /\ L \in 0 .. (R - 1) /\ rptr = L
      /\ RingTyped /\ ItemsWhole
  BY PacketAssumption DEF RingInv, RingTyped
<1>2. D \in [0 .. R -> Seq(Commands)] /\ D[R] = D[0]
  BY DEF RingInv, Reads
<1>3. Used(L) /\ ~ (L - 1 \in 0 .. (R - 1) /\ Used(L - 1))
  BY <1>1 DEF Used
<1>4. Begins(L)  BY <1>1, <1>3, BeginsHere
<1>5. MaxDepth \in Nat /\ ~ (0 > MaxDepth) /\ 0 \in 0 .. MaxDepth  BY PacketAssumption
<1>6. \A a : Begins(a) => Begins(a)'
  BY DEF Begins, IsItem, ItemFrame, Item, Pos, Words
<1>7. CASE wptr >= L
  <2> DEFINE f == [at |-> L, end |-> wptr, depth |-> 0]
  <2>1. stack'[Pump] = <<f>>
    <3>1. L + (wptr - L) = wptr  BY <1>1
    <3>2. stack'[Pump] = Call(L, wptr - L, 0, <<>>)  BY <1>7 DEF ExecuteRing
    <3>3. Call(L, wptr - L, 0, <<>>) = <<[at |-> L, end |-> L + (wptr - L), depth |-> 0]>>
      BY <1>5 DEF Call
    <3> QED  BY <3>1, <3>2, <3>3
  <2>2. f \in Frames  BY <1>1, <1>5 DEF Frames
  <2>3. \A a \in L .. (wptr - 1) : Used(a)  BY <1>1, <1>7 DEF Used
  <2>4. Links(f, D[L], D[wptr], D)'
    BY <1>1, <1>4, <1>6, <1>7, <2>2, <2>3 DEF Links, Used, Frames
  <2>5. D[L] \in Seq(Commands) /\ D[wptr] \in Seq(Commands)  BY <1>1, <1>2
  <2> HIDE DEF f
  <2>6. Owes(Pump, D[wptr], D)'
    <3>1. PICK t : t = D[L]  OBVIOUS
    <3>2. PICK u : u = D[wptr]  OBVIOUS
    <3>3. Links(f, t, u, D)'  BY <2>4, <3>1, <3>2 DEF Links
    <3>4. Proceeds(Pump, <<f>>, t) /\ Leads(f, t, u, D)
      BY <2>1, <2>5, <3>1, <3>2, <3>3 DEF Proceeds, Leads
    <3>5. Owes(Pump, u, D)'  BY <3>4, CallsOne
    <3> QED  BY <3>2, <3>5 DEF Owes
  <2> QED  BY <2>1, <2>2, <2>6
<1>8. CASE ~ (wptr >= L)
  <2> DEFINE f == [at |-> L, end |-> R, depth |-> 0]
             g == [at |-> 0, end |-> wptr, depth |-> 0]
  <2>1. stack'[Pump] = <<f, g>>
    <3>1. L + (R - L) = R /\ 0 + wptr = wptr  BY <1>1
    <3>2. stack'[Pump] = Call(L, R - L, 0, Call(0, wptr, 0, <<>>))
      BY <1>8 DEF ExecuteRing
    <3>3. Call(0, wptr, 0, <<>>) = <<[at |-> 0, end |-> 0 + wptr, depth |-> 0]>>
      BY <1>5 DEF Call
    <3>4. Call(L, R - L, 0, <<g>>) = <<[at |-> L, end |-> L + (R - L), depth |-> 0], g>>
      <4> DEFINE h == [at |-> L, end |-> L + (R - L), depth |-> 0]
      <4>1. Call(L, R - L, 0, <<g>>) = <<h>> \o <<g>>  BY <1>5 DEF Call
      <4> HIDE DEF g, h
      <4>2. <<h>> \o <<g>> = <<h, g>>  BY TwoCalls
      <4> QED  BY <4>1, <4>2 DEF h
    <3> QED  BY <3>1, <3>2, <3>3, <3>4
  <2>2. f \in Frames /\ g \in Frames  BY <1>1, <1>5 DEF Frames
  <2>3. \A a : a \in L .. (R - 1) \/ a \in 0 .. (wptr - 1) => Used(a)
    BY <1>1, <1>8 DEF Used
  <2>4. Links(f, D[L], D[R], D)'
    BY <1>1, <1>4, <1>6, <1>8, <2>2, <2>3 DEF Links, Used, Frames
  <2>5. 0 < wptr => Begins(0)
    <3> SUFFICES ASSUME 0 < wptr PROVE Begins(0)  OBVIOUS
    <3>1. 0 \in 0 .. (R - 1) /\ Used(0) /\ 0 - 1 \notin 0 .. (R - 1)
      BY <1>1, <2>3
    <3> QED  BY <1>1, <3>1, BeginsHere
  <2>6. Links(g, D[0], D[wptr], D)'
    BY <1>1, <1>6, <1>8, <2>2, <2>3, <2>5 DEF Links, Used, Frames
  <2>7. D[L] \in Seq(Commands) /\ D[wptr] \in Seq(Commands) /\ D[0] \in Seq(Commands)
    BY <1>1, <1>2
  <2> HIDE DEF f, g
  <2>8. Owes(Pump, D[wptr], D)'
    <3>1. PICK t : t = D[L]  OBVIOUS
    <3>2. PICK u : u = D[wptr]  OBVIOUS
    <3>3. PICK v : v = D[0] /\ v = D[R]  BY <1>2
    <3>4. Links(f, t, v, D)' /\ Links(g, v, u, D)'
      BY <2>4, <2>6, <3>1, <3>2, <3>3 DEF Links
    <3>5. Proceeds(Pump, <<f, g>>, t) /\ Leads(f, t, v, D) /\ Leads(g, v, u, D)
      BY <2>1, <2>7, <3>1, <3>2, <3>3, <3>4 DEF Proceeds, Leads
    <3>6. Owes(Pump, u, D)'  BY <3>5, CallsTwo
    <3> QED  BY <3>2, <3>6 DEF Owes
  <2>9. <<f, g>> \in Seq(Frames)  BY <2>2
  <2> QED  BY <2>1, <2>8, <2>9
<1> QED  BY <1>7, <1>8


\* VdSwap's calls do not see the pump.
LEMMA ScannedKept ==
  ASSUME NEW D, Scanned(D), stack'[Swap] = stack[Swap], todo'[Swap] = todo[Swap],
         UNCHANGED <<swapAt, built, cursor>>
  PROVE  Scanned(D)'
<1>1. CASE swapAt = "scan"
  <2>1. PICK t \in Seq(Commands) :
          Owes(Swap, t, D) /\ SegmentCommands[built] = SegmentCommands[cursor] \o t
    BY <1>1 DEF Scanned
  <2>2. Owes(Swap, t, D)'
    <3>1. \A j \in 1 .. Len(stack[Swap]) : stack[Swap][j].depth # 0
      BY DEF Scanned
    <3> QED  BY <2>1, <3>1, BelowUnchanged
  <2> QED  BY <1>1, <2>1, <2>2 DEF Scanned
<1>2. CASE swapAt # "scan"  BY <1>2 DEF Scanned
<1> QED  BY <1>1, <1>2

\* The rest of the invariant does not see the ring.
LEMMA FrameUnchanged ==
  ASSUME IInv, UNCHANGED <<mode, built, swapAt, cursor, shown, regs, mem, counter, draws, irqs,
                           flat, tex, seen, todo>>,
         stack' \in [Executors -> Seq(Frames)]
  PROVE  Types' /\ SeenInv' /\ TextInv' /\ FrameInv' /\ UNCHANGED Stream!vars
<1> USE DEF IInv
<1>1. Types'  BY DEF Types
<1>2. SeenInv'  BY DEF SeenInv, Glyphs, Stream!Holds
<1>3. TextInv'  BY DEF TextInv, Glyphs, Carved, Texts
<1>4. FrameInv'
  <2>1. FrameInv  OBVIOUS
  <2>2. IsBound(regs, todo[Swap]) => IsBound(regs', todo'[Swap])  OBVIOUS
  <2> QED  BY <2>1, <2>2 DEF FrameInv
<1> QED  BY <1>1, <1>2, <1>3, <1>4 DEF Stream!vars

LEMMA BeginBatchKeeps ==
  ASSUME Locked, IInv, BeginBatch
  PROVE  IInv' /\ UNCHANGED Stream!vars
<1>1. /\ owner = None /\ owner' = Pump /\ batch = lastWptr /\ wptr # lastWptr
      /\ stack[Pump] = <<>> /\ batch' = wptr
      /\ stack' = [stack EXCEPT ![Pump] = ExecuteRing(lastWptr, wptr)]
      /\ UNCHANGED <<mode, ring, wptr, built, rptr, lastWptr, swapAt, cursor, shown, frames,
                     regs, mem, counter, draws, irqs, flat, tex, seen, todo>>
  BY DEF BeginBatch, titleVars, swapVars, effects
<1>2. PICK D : RingInv(D) /\ Behindhand(D) /\ Scanned(D)  BY DEF IInv, StreamInv
<1>3. Pump # Swap /\ Pump \in Executors /\ Swap \in Executors /\ None \notin {Pump, Swap}
  BY PacketAssumption DEF Executors
<1>4. stack \in [Executors -> Seq(Frames)]  BY DEF IInv, Types
<1>5. RingInv(D)'  BY <1>1, <1>2, RingBegins
<1>6. stack'[Pump] = ExecuteRing(lastWptr, wptr) /\ stack'[Swap] = stack[Swap]
  BY <1>1, <1>3, <1>4
<1>7. todo'[Pump] = D[lastWptr]
  <2>1. todo[Pump] = D[batch]
    <3>1. PICK t : t = D[batch]  OBVIOUS
    <3>2. Owes(Pump, t, D)  BY <1>2, <3>1 DEF Behindhand
    <3> QED  BY <1>1, <3>1, <3>2, NothingCalled
  <2> QED  BY <1>1, <2>1
<1>8. stack'[Pump] \in Seq(Frames) /\ Owes(Pump, D[wptr], D)'
  BY <1>1, <1>2, <1>6, <1>7, RingCalls
<1>9. Behindhand(D)'  BY <1>1, <1>8 DEF Behindhand, Owes
<1>10. Scanned(D)'  BY <1>1, <1>2, <1>6, ScannedKept
<1>11. StreamInv'  BY <1>5, <1>9, <1>10 DEF StreamInv
<1>12. stack' \in [Executors -> Seq(Frames)]  BY <1>1, <1>4, <1>6, <1>8
<1>13. Types' /\ SeenInv' /\ TextInv' /\ FrameInv' /\ UNCHANGED Stream!vars
  BY <1>1, <1>12, FrameUnchanged
<1>14. LockInv'  BY <1>1, <1>3 DEF IInv, LockInv
<1> QED  BY <1>11, <1>13, <1>14 DEF IInv

LEMMA EndBatchKeeps ==
  ASSUME Locked, IInv, EndBatch
  PROVE  IInv' /\ UNCHANGED Stream!vars
<1>1. /\ stack[Pump] = <<>> /\ batch # lastWptr /\ rptr' = batch /\ lastWptr' = batch
      /\ owner' = None
      /\ UNCHANGED <<mode, ring, wptr, built, batch, swapAt, cursor, shown, frames, stack,
                     regs, mem, counter, draws, irqs, flat, tex, seen, todo>>
  BY DEF EndBatch, titleVars, swapVars, effects
<1>2. PICK D : RingInv(D) /\ Behindhand(D) /\ Scanned(D)  BY DEF IInv, StreamInv
<1>3. Pump # Swap /\ None \notin {Pump, Swap}  BY PacketAssumption
<1>4. RingInv(D)'  BY <1>1, <1>2, RingEnds
<1>5. Behindhand(D)'
  <2>1. PICK t : t = D[batch]  OBVIOUS
  <2>2. Owes(Pump, t, D)  BY <1>2, <2>1 DEF Behindhand
  <2>3. todo[Pump] = t  BY <1>1, <2>2, NothingCalled
  <2>4. t \in Seq(Commands)
    <3>1. batch \in 0 .. RingSize  BY <1>2, PacketAssumption DEF RingInv, RingTyped
    <3> QED  BY <1>2, <2>1, <3>1 DEF RingInv, Reads
  <2>5. Owes(Pump, t, D)'  BY <1>1, <2>3, <2>4, CallsNothing
  <2> QED  BY <1>1, <2>1, <2>5 DEF Behindhand, Owes
<1>6. Scanned(D)'  BY <1>1, <1>2, ScannedKept
<1>7. StreamInv'  BY <1>4, <1>5, <1>6 DEF StreamInv
<1>8. stack' \in [Executors -> Seq(Frames)]  BY <1>1 DEF IInv, Types
<1>9. Types' /\ SeenInv' /\ TextInv' /\ FrameInv' /\ UNCHANGED Stream!vars
  BY <1>1, <1>8, FrameUnchanged
<1>10. LockInv'  BY <1>1, <1>3 DEF IInv, LockInv
<1> QED  BY <1>7, <1>9, <1>10 DEF IInv


-----------------------------------------------------------------------------
(* The directory: its commands are those of its words, one after the other.  *)

LEMMA LeastOf ==
  ASSUME NEW X \in SUBSET Nat, X # {}
  PROVE  \E n \in X : \A m \in X : n <= m
<1>1. PICK n \in X : \A m \in X : <<m, n>> \notin OpToRel(<, Nat)
  BY WFMin, NatLessThanWellFounded, Zenon
<1>2. \A m \in X : ~(m < n)
  BY <1>1, Zenon DEF OpToRel
<1> QED
  BY <1>2

LEMMA FromTo ==
  ASSUME NEW m \in Nat, NEW n \in Nat, NEW S, m \in S,
         \A i \in (m + 1) .. n : i - 1 \in S => i \in S
  PROVE  \A i \in m .. n : i \in S
<1> DEFINE X == {i \in m .. n : i \notin S}
<1>1. SUFFICES ASSUME X # {} PROVE FALSE
  OBVIOUS
<1>2. X \in SUBSET Nat  OBVIOUS
<1> HIDE DEF X
<1>3. PICK k \in X : \A i \in X : k <= i  BY <1>1, <1>2, LeastOf
<1>4. k \in m .. n /\ k \notin S  BY DEF X
<1>5. k # m  BY <1>4
<1>6. k - 1 \in m .. n /\ k \in (m + 1) .. n /\ ~ (k <= k - 1)  BY <1>4, <1>5
<1>7. k - 1 \in S  BY <1>3, <1>6 DEF X
<1> QED  BY <1>4, <1>6, <1>7

\* A segment names a buffer that has a meaning at depth 1.
LEMMA ListedTyped ==
  ASSUME NEW n \in 1 .. Len(Directory)
  PROVE  /\ Listed(n) \in Seq(Commands)
         /\ IsSegment(Directory[n]) =>
              LET d == Directory[n]
                  f == Frame(d.addr, d.len, 1)
              IN /\ f \in DOMAIN OfBuffer /\ f \in Frames /\ f.at >= RingSize
                 /\ Listed(n) = OfBuffer[f]
                 /\ Call(d.addr, d.len, 1, <<>>) = <<f>>
<1> DEFINE d == Directory[n]
           f == Frame(d.addr, d.len, 1)
<1>1. CASE IsSegment(d)
  <2>1. InDepth(d.addr, d.len, 1) /\ d.commands = Called(d.addr, d.len, 1)
    BY <1>1, TitleAssumption
  <2>2. 1 <= MaxDepth /\ ~ (1 > MaxDepth)  BY PacketAssumption
  <2>3. d.addr \in Nat /\ d.addr >= RingSize /\ d.len \in Nat /\ f \in DOMAIN OfBuffer
    BY <2>1, <2>2 DEF InDepth
  <2>4. Listed(n) = OfBuffer[f]  BY <1>1, <2>1, <2>2 DEF Listed, Called
  <2>5. f \in Frames /\ f.at >= RingSize /\ OfBuffer[f] \in Seq(Commands)
    <3>1. f.at = d.addr  BY DEF Frame
    <3> HIDE DEF f
    <3> QED  BY <2>3, <3>1, TitleAssumption DEF Decodes, Frames
  <2>6. Call(d.addr, d.len, 1, <<>>) = <<f>>
    BY <2>2 DEF Call, Frame
  <2> QED  BY <2>3, <2>4, <2>5, <2>6
<1>2. CASE ~ IsSegment(d)
  <2>1. Listed(n) = <<>>  BY <1>2 DEF Listed
  <2> QED  BY <1>2, <2>1
<1> QED  BY <1>1, <1>2

\* f has the commands of the first n words.
Lists(f, n) ==
  /\ f \in [0 .. n -> Seq(Commands)] /\ f[0] = <<>>
  /\ \A i \in 1 .. n : f[i] = f[i - 1] \o Listed(i)

LEMMA ListsExists ==
  \E f : Lists(f, Len(Directory))
<1> DEFINE N == Len(Directory)
           S == {i \in 0 .. N : \E f : Lists(f, i)}
<1>0. N \in Nat  BY PacketAssumption
<1> HIDE DEF N
<1>1. 0 \in S
  <2>1. Lists([i \in 0 .. 0 |-> <<>>], 0)
    <3>1. <<>> \in Seq(Commands)  OBVIOUS
    <3> QED  BY <3>1 DEF Lists
  <2> QED  BY <1>0, <2>1
<1>2. ASSUME NEW i \in (0 + 1) .. N, i - 1 \in S PROVE i \in S
  <2>0. i \in 1 .. N /\ i \in 0 .. N  BY <1>0
  <2>1. PICK f : Lists(f, i - 1)  BY <1>2
  <2> DEFINE g == [j \in 0 .. i |-> IF j = i THEN f[i - 1] \o Listed(i) ELSE f[j]]
  <2>2. f \in [0 .. i - 1 -> Seq(Commands)] /\ f[0] = <<>>
        /\ \A j \in 1 .. i - 1 : f[j] = f[j - 1] \o Listed(j)
    BY <2>1 DEF Lists
  <2>3. f[i - 1] \in Seq(Commands) /\ Listed(i) \in Seq(Commands)
    <3>1. Listed(i) \in Seq(Commands)  BY <2>0, ListedTyped DEF N
    <3>2. i - 1 \in 0 .. i - 1  BY <2>0
    <3> QED  BY <2>2, <3>1, <3>2
  <2>4. f[i - 1] \o Listed(i) \in Seq(Commands)  BY <2>3, ConcatProperties
  <2>5. \A j \in 0 .. i : j # i => j \in 0 .. i - 1  BY <2>0
  <2>6. g \in [0 .. i -> Seq(Commands)]  BY <2>2, <2>4, <2>5
  <2>7. g[0] = <<>> /\ g[i] = f[i - 1] \o Listed(i) /\ \A j \in 0 .. i - 1 : g[j] = f[j]
    BY <2>0, <2>2
  <2> HIDE DEF g
  <2>8. \A j \in 1 .. i : g[j] = g[j - 1] \o Listed(j)
    <3> SUFFICES ASSUME NEW j \in 1 .. i PROVE g[j] = g[j - 1] \o Listed(j)
      OBVIOUS
    <3>1. j - 1 \in 0 .. i - 1  BY <2>0
    <3>2. g[j - 1] = f[j - 1]  BY <2>7, <3>1
    <3>3. CASE j = i  BY <2>7, <3>2, <3>3
    <3>4. CASE j # i
      <4>1. j \in 1 .. i - 1 /\ j \in 0 .. i - 1  BY <2>0, <3>4
      <4> QED  BY <2>2, <2>7, <3>2, <4>1
    <3> QED  BY <3>3, <3>4
  <2>9. Lists(g, i)  BY <2>6, <2>7, <2>8 DEF Lists
  <2> QED  BY <2>0, <2>9
<1>3. N \in S
  <2> HIDE DEF S
  <2>1. \A i \in 0 .. N : i \in S  BY <1>0, <1>1, <1>2, FromTo
  <2> QED  BY <1>0, <2>1
<1> QED  BY <1>3 DEF N

LEMMA SegmentCommandsIs ==
  Lists(SegmentCommands, Len(Directory))
<1> DEFINE N == Len(Directory)
           Solves(f) == f = [n \in 0 .. N |-> IF n = 0 THEN <<>> ELSE f[n - 1] \o Listed(n)]
<1>0. N \in Nat  BY PacketAssumption
<1>1. PICK g : Lists(g, N)  BY ListsExists
<1> HIDE DEF N
<1>2. Solves(g)
  <2>1. g = [n \in 0 .. N |-> g[n]]  BY <1>1 DEF Lists
  <2>2. ASSUME NEW n \in 0 .. N
        PROVE  g[n] = IF n = 0 THEN <<>> ELSE g[n - 1] \o Listed(n)
    <3>1. n = 0 \/ n \in 1 .. N  BY <1>0
    <3> QED  BY <1>0, <1>1, <3>1 DEF Lists
  <2> QED  BY <2>1, <2>2
<1>3. SegmentCommands = CHOOSE f : Solves(f)  BY DEF SegmentCommands, N
<1> HIDE DEF Solves
<1>4. Solves(SegmentCommands)  BY <1>2, <1>3
<1> DEFINE h == SegmentCommands
<1>5. h = [n \in 0 .. N |-> IF n = 0 THEN <<>> ELSE h[n - 1] \o Listed(n)]
  BY <1>4 DEF Solves
<1> HIDE DEF h
<1>6. h[0] = <<>> /\ \A n \in 1 .. N : h[n] = h[n - 1] \o Listed(n)
  <2>1. 0 \in 0 .. N /\ \A n \in 1 .. N : n \in 0 .. N /\ n # 0  BY <1>0
  <2> QED  BY <1>5, <2>1
<1>7. \A n \in 0 .. N : h[n] = g[n]
  <2> DEFINE S == {n \in 0 .. N : h[n] = g[n]}
  <2>1. 0 \in S  BY <1>0, <1>1, <1>6 DEF Lists
  <2>2. \A n \in (0 + 1) .. N : n - 1 \in S => n \in S
    <3> SUFFICES ASSUME NEW n \in (0 + 1) .. N, n - 1 \in S PROVE n \in S
      OBVIOUS
    <3>1. n \in 1 .. N /\ n \in 0 .. N  BY <1>0
    <3> QED  BY <1>1, <1>6, <3>1 DEF Lists
  <2>3. \A n \in 0 .. N : n \in S
    <3> HIDE DEF S
    <3> QED  BY <1>0, <2>1, <2>2, FromTo
  <2> QED  BY <2>3
<1>8. h \in [0 .. N -> Seq(Commands)]
  <2>1. h = [n \in 0 .. N |-> h[n]]  BY <1>5
  <2>2. \A n \in 0 .. N : h[n] \in Seq(Commands)  BY <1>1, <1>7 DEF Lists
  <2> QED  BY <2>1, <2>2
<1> QED  BY <1>6, <1>8 DEF Lists, h, N

\* The commands of the first m words are a beginning of those of the first n.
LEMMA Listings ==
  ASSUME NEW n \in 0 .. Len(Directory), NEW m \in 0 .. n
  PROVE  \E r \in Seq(Commands) : SegmentCommands[n] = SegmentCommands[m] \o r
<1> DEFINE N == Len(Directory)
           h == SegmentCommands
           S == {i \in m .. n : \E r \in Seq(Commands) : h[i] = h[m] \o r}
<1>0. N \in Nat /\ m \in Nat /\ n \in Nat /\ m <= n /\ n <= N  BY PacketAssumption
<1>1. Lists(h, N)  BY SegmentCommandsIs
<1> HIDE DEF N, h
<1>2. \A i \in 0 .. n : i \in 0 .. N  BY <1>0 DEF N
<1>3. m \in S
  <2>1. h[m] \in Seq(Commands)  BY <1>0, <1>1, <1>2 DEF Lists
  <2>2. h[m] = h[m] \o <<>> /\ <<>> \in Seq(Commands)  BY <2>1, ConcatEmptySeq
  <2>3. \E r \in Seq(Commands) : h[m] = h[m] \o r  BY <2>2, Zenon
  <2>4. m \in m .. n  BY <1>0
  <2> QED  BY <2>3, <2>4
<1>4. \A i \in (m + 1) .. n : i - 1 \in S => i \in S
  <2> SUFFICES ASSUME NEW i \in (m + 1) .. n, i - 1 \in S PROVE i \in S
    OBVIOUS
  <2>1. i \in 1 .. N /\ i \in m .. n  BY <1>0, <1>2
  <2>2. PICK r \in Seq(Commands) : h[i - 1] = h[m] \o r  OBVIOUS
  <2>3. h[i] = h[i - 1] \o Listed(i)  BY <1>1, <2>1 DEF Lists
  <2>4. Listed(i) \in Seq(Commands)  BY <2>1, ListedTyped DEF N
  <2>5. h[m] \in Seq(Commands)  BY <1>0, <1>1, <1>2 DEF Lists
  <2>6. h[i] = h[m] \o (r \o Listed(i)) /\ r \o Listed(i) \in Seq(Commands)
    <3>1. (h[m] \o r) \o Listed(i) = h[m] \o (r \o Listed(i))
      <4> DEFINE x == h[m]
                 y == Listed(i)
      <4>1. x \in Seq(Commands) /\ y \in Seq(Commands) /\ r \in Seq(Commands)
        BY <2>4, <2>5
      <4> HIDE DEF x, y, S
      <4>2. (x \o r) \o y = x \o (r \o y)  BY <4>1, ConcatAssociative
      <4> QED  BY <4>2 DEF x, y
    <3>2. r \o Listed(i) \in Seq(Commands)  BY <2>4, ConcatProperties
    <3> QED  BY <2>2, <2>3, <3>1, <3>2
  <2> QED  BY <2>1, <2>6
<1>5. \A i \in m .. n : i \in S
  <2> HIDE DEF S
  <2> QED  BY <1>0, <1>3, <1>4, FromTo
<1>6. n \in S
  <2>1. n \in m .. n  BY <1>0
  <2> QED  BY <1>5, <2>1
<1> QED  BY <1>6 DEF h


-----------------------------------------------------------------------------
(* VdSwap.                                                                  *)

LEMMA PumpKept ==
  ASSUME NEW D, Behindhand(D), UNCHANGED <<ring, wptr, rptr, lastWptr, batch>>,
         stack'[Pump] = stack[Pump], todo'[Pump] = todo[Pump]
  PROVE  Behindhand(D)'
<1>1. PICK t : t = D[batch]  OBVIOUS
<1>2. Owes(Pump, t, D)'  BY <1>1, OwesKept DEF Behindhand
<1> QED  BY <1>1, <1>2 DEF Behindhand, Owes

LEMMA BeginFrameKeeps ==
  ASSUME Locked, IInv, BeginFrame
  PROVE  IInv' /\ Stream!StartFrame
<1> DEFINE s == SegmentCommands[built]
<1>1. /\ swapAt = "out" /\ built > 0 /\ owner = None /\ owner' = Swap
      /\ swapAt' = "scan" /\ cursor' = 0 /\ flat' = <<>> /\ tex' = <<>> /\ seen' = {}
      /\ todo' = [todo EXCEPT ![Swap] = s]
      /\ UNCHANGED <<mode, ring, wptr, built, rptr, lastWptr, batch, shown, frames, stack,
                     regs, mem, counter, draws, irqs>>
  BY DEF BeginFrame, titleVars, pumpVars
<1>2. PICK D : RingInv(D) /\ Behindhand(D) /\ Scanned(D)  BY DEF IInv, StreamInv
<1>3. Pump # Swap /\ Pump \in Executors /\ Swap \in Executors /\ None \notin {Pump, Swap}
  BY PacketAssumption DEF Executors
<1>4. todo \in [Executors -> Seq(Commands)] /\ built \in 1 .. Len(Directory)
      /\ Len(Directory) \in Nat
  BY <1>1, PacketAssumption DEF IInv, Types
<1>5. s \in Seq(Commands) /\ SegmentCommands[0] = <<>>
  <2>1. built \in 0 .. Len(Directory)  BY <1>4
  <2> QED  BY <2>1, SegmentCommandsIs DEF Lists
<1>6. /\ todo' \in [Executors -> Seq(Commands)] /\ todo'[Swap] = s
      /\ todo'[Pump] = todo[Pump]
  BY <1>1, <1>3, <1>4, <1>5
<1>7. stack[Swap] = <<>> /\ todo[Swap] = <<>>  BY <1>1, <1>2 DEF Scanned
<1>8. RingInv(D)'  BY <1>1, <1>2, ChainUnchanged
<1>9. Behindhand(D)'  BY <1>1, <1>2, <1>6, PumpKept
<1>10. Scanned(D)'
  <2>1. PICK t : t = s  OBVIOUS
  <2>2. Owes(Swap, t, D)'
    <3>1. t \in Seq(Commands) /\ stack'[Swap] = <<>> /\ todo'[Swap] = t
      BY <1>1, <1>5, <1>6, <1>7, <2>1
    <3> QED  BY <3>1, CallsNothing
  <2>3. SegmentCommands[built'] = SegmentCommands[cursor'] \o t
    <3>1. <<>> \o t = t  BY <1>5, <2>1, ConcatEmptySeq
    <3> QED  BY <1>1, <1>5, <2>1, <3>1
  <2>4. stack'[Swap] = <<>> /\ swapAt' = "scan" /\ t \in Seq(Commands)
    BY <1>1, <1>5, <1>7, <2>1
  <2>5. \A j \in 1 .. Len(stack'[Swap]) : stack'[Swap][j].depth # 0
    BY <2>4
  <2> QED  BY <2>2, <2>3, <2>4, <2>5 DEF Scanned
<1>11. StreamInv'  BY <1>8, <1>9, <1>10 DEF StreamInv
<1>12. Types'
  <2>1. cursor' \in 0 .. built'  BY <1>1, <1>4
  <2> QED  BY <1>1, <1>6, <2>1 DEF IInv, Types
<1>13. SeenInv'
  <2>1. <<>> \in Seq(Blocks) /\ Len(<<>>) = 0 /\ 1 .. 0 = {}  OBVIOUS
  <2>2. 0 <= Cap  BY PacketAssumption
  <2> QED  BY <1>1, <2>1, <2>2 DEF SeenInv, Stream!Holds
<1>14. TextInv'
  <2>1. Len(tex') = 0 /\ 1 .. 0 = {}  BY <1>1
  <2>2. Carved' = {}  BY <2>1 DEF Carved
  <2>3. TextsIn(todo'[Swap]) = Texts'  BY <1>1, <1>6 DEF Texts
  <2> QED  BY <2>1, <2>2, <2>3 DEF TextInv
<1>15. LockInv'  BY <1>1, <1>3 DEF IInv, LockInv
<1>16. FrameInv'
  <2>1. IsBound(<<>>, s)  BY <1>4, TitleAssumption
  <2>2. IsBound(regs, s)  BY <2>1, BoundAnyhow
  <2>3. IsBound(regs', todo'[Swap])  BY <1>1, <1>6, <2>2
  <2> QED  BY <2>3 DEF FrameInv
<1>17. Stream!StartFrame
  <2>1. s \in {Menu[i].commands : i \in DOMAIN Menu}
                \union {SegmentCommands[n] : n \in 1 .. Len(Directory)}
    BY <1>4
  <2> HIDE DEF s
  <2> QED  BY <1>1, <1>7, <2>1 DEF Stream!StartFrame
<1> QED  BY <1>11, <1>12, <1>13, <1>14, <1>15, <1>16, <1>17 DEF IInv

\* A word of the directory: what is left of the segments begins with its commands.
LEMMA ScanOwes ==
  ASSUME NEW D, Scanned(D), Types, Scan
  PROVE  Scanned(D)' /\ stack'[Swap] \in Seq(Frames)
<1>1. /\ swapAt = "scan" /\ stack[Swap] = <<>> /\ cursor < built /\ cursor' = cursor + 1
      /\ swapAt' = swapAt /\ built' = built /\ todo' = todo
      /\ stack' = LET d == Directory[cursor + 1]
                  IN IF IsSegment(d)
                     THEN [stack EXCEPT ![Swap] = Call(d.addr, d.len, 1, <<>>)]
                     ELSE stack
  BY DEF Scan, titleVars
<1>2. /\ stack \in [Executors -> Seq(Frames)] /\ todo \in [Executors -> Seq(Commands)]
      /\ built \in 0 .. Len(Directory) /\ cursor \in 0 .. built /\ Swap \in Executors
      /\ Len(Directory) \in Nat
  BY PacketAssumption DEF Types, Executors
<1> DEFINE n == cursor + 1
           d == Directory[n]
           l == Listed(n)
<1>3. n \in 1 .. Len(Directory) /\ n - 1 = cursor /\ n \in 0 .. built
  BY <1>1, <1>2
<1>4. PICK t \in Seq(Commands) :
        Owes(Swap, t, D) /\ SegmentCommands[built] = SegmentCommands[cursor] \o t
  BY <1>1 DEF Scanned
<1>5. todo[Swap] = t  BY <1>1, <1>4, NothingCalled
<1>6. PICK r \in Seq(Commands) : SegmentCommands[built] = SegmentCommands[n] \o r
  BY <1>2, <1>3, Listings
<1> HIDE DEF n
<1>7. SegmentCommands[n] = SegmentCommands[cursor] \o l
      /\ SegmentCommands[cursor] \in Seq(Commands) /\ l \in Seq(Commands)
  <2>1. SegmentCommands[n] = SegmentCommands[n - 1] \o l
    BY <1>3, SegmentCommandsIs DEF Lists
  <2>2. cursor \in 0 .. Len(Directory)  BY <1>1, <1>2
  <2>3. SegmentCommands[cursor] \in Seq(Commands)
    BY <2>2, SegmentCommandsIs DEF Lists
  <2> QED  BY <1>3, <2>1, <2>3, ListedTyped
<1> HIDE DEF l
<1>8. t = l \o r
  <2> DEFINE x == SegmentCommands[cursor]
  <2>1. x \o t = (x \o l) \o r /\ x \in Seq(Commands)  BY <1>4, <1>6, <1>7
  <2> HIDE DEF x
  <2>2. (x \o l) \o r = x \o (l \o r)
    <3>1. x \in Seq(Commands) /\ l \in Seq(Commands) /\ r \in Seq(Commands)
      BY <1>7, <2>1
    <3> QED  BY <3>1, ConcatAssociative
  <2>3. l \o r \in Seq(Commands)  BY <1>7, ConcatProperties
  <2>4. x \o t = x \o (l \o r)  BY <2>1, <2>2
  <2> QED  BY <2>1, <2>3, <2>4, ConcatSimplifications
<1>9. SegmentCommands[built'] = SegmentCommands[cursor'] \o r
  BY <1>1, <1>6 DEF n
<1>10. CASE IsSegment(d)
  <2> PICK f : f = Frame(d.addr, d.len, 1)  OBVIOUS
  <2>1. /\ f \in DOMAIN OfBuffer /\ f \in Frames /\ f.at >= RingSize /\ l = OfBuffer[f]
        /\ Call(d.addr, d.len, 1, <<>>) = <<f>>
    BY <1>3, <1>10, ListedTyped DEF l
  <2>2. stack'[Swap] = <<f>>
    BY <1>1, <1>2, <1>10, <2>1 DEF n
  <2>3. f.depth = 1  BY DEF Frame
  <2>4. Links(f, t, r, D)'
    <3>1. t = OfBuffer[f] \o r  BY <1>8, <2>1
    <3>2. f \in [at : Nat, end : Nat, depth : 0 .. MaxDepth] /\ f.depth # 0
      BY <2>1, <2>3 DEF Frames
    <3> QED  BY <2>1, <3>1, <3>2 DEF Links
  <2>5. Proceeds(Swap, <<f>>, t) /\ Leads(f, t, r, D)
    BY <1>1, <1>5, <2>2, <2>4 DEF Proceeds, Leads
  <2>6. Owes(Swap, r, D)'  BY <2>5, CallsOne
  <2>7. \A j \in 1 .. Len(stack'[Swap]) : stack'[Swap][j].depth # 0
    BY <2>2, <2>3
  <2>8. stack'[Swap] \in Seq(Frames)  BY <2>1, <2>2
  <2> QED  BY <1>1, <1>9, <2>6, <2>7, <2>8 DEF Scanned
<1>11. CASE ~ IsSegment(d)
  <2>1. l = <<>>  BY <1>11 DEF l, Listed
  <2>2. t = r  BY <1>8, <2>1, ConcatEmptySeq
  <2>3. stack'[Swap] = <<>> /\ todo'[Swap] = r
    BY <1>1, <1>5, <1>11, <2>2 DEF n
  <2>4. Owes(Swap, r, D)'  BY <2>3, CallsNothing
  <2>5. \A j \in 1 .. Len(stack'[Swap]) : stack'[Swap][j].depth # 0
    BY <2>3
  <2>6. stack'[Swap] \in Seq(Frames)  BY <2>3
  <2> QED  BY <1>1, <1>9, <2>4, <2>5, <2>6 DEF Scanned
<1> QED  BY <1>10, <1>11


LEMMA ScanKeeps ==
  ASSUME IInv, Scan
  PROVE  IInv' /\ UNCHANGED Stream!vars
<1>1. /\ cursor < built /\ cursor' = cursor + 1 /\ todo' = todo
      /\ UNCHANGED <<mode, built, swapAt, shown, owner, regs, mem, counter, draws, irqs,
                     flat, tex, seen, ring, wptr, rptr, lastWptr, batch>>
      /\ stack' = LET d == Directory[cursor + 1]
                  IN IF IsSegment(d)
                     THEN [stack EXCEPT ![Swap] = Call(d.addr, d.len, 1, <<>>)]
                     ELSE stack
  BY DEF Scan, titleVars, pumpVars, effects
<1>2. PICK D : RingInv(D) /\ Behindhand(D) /\ Scanned(D)  BY DEF IInv, StreamInv
<1>3. Scanned(D)' /\ stack'[Swap] \in Seq(Frames)  BY <1>2, ScanOwes DEF IInv
<1>4. stack'[Pump] = stack[Pump] /\ stack' \in [Executors -> Seq(Frames)]
  <2>1. stack \in [Executors -> Seq(Frames)] /\ Pump # Swap /\ {Pump, Swap} = Executors
    BY PacketAssumption DEF IInv, Types, Executors
  <2> HIDE DEF Executors
  <2>2. stack' \in [Executors -> Seq(Frames)]
    <3>1. PICK s : s = stack'[Swap]  OBVIOUS
    <3>2. stack' = stack \/ stack' = [stack EXCEPT ![Swap] = s]
      BY <1>1, <2>1, <3>1
    <3>3. s \in Seq(Frames)  BY <1>3, <3>1
    <3> QED  BY <2>1, <3>2, <3>3
  <2> QED  BY <1>1, <2>1, <2>2
<1>5. StreamInv'
  <2>1. RingInv(D)'  BY <1>1, <1>2, ChainUnchanged
  <2>2. Behindhand(D)'  BY <1>1, <1>2, <1>4, PumpKept
  <2> QED  BY <1>3, <2>1, <2>2 DEF StreamInv
<1>6. Types'
  <2>1. Len(Directory) \in Nat  BY PacketAssumption
  <2>2. built \in 0 .. Len(Directory) /\ cursor \in 0 .. built  BY DEF IInv, Types
  <2>3. cursor' \in 0 .. built'  BY <1>1, <2>1, <2>2
  <2> QED  BY <1>1, <1>4, <2>3 DEF IInv, Types
<1>7. SeenInv'  BY <1>1 DEF IInv, SeenInv, Glyphs, Stream!Holds
<1>8. TextInv'  BY <1>1 DEF IInv, TextInv, Glyphs, Carved, Texts
<1>9. LockInv'  BY <1>1, <1>4 DEF IInv, LockInv
<1>10. FrameInv'
  <2>1. IsBound(regs, todo[Swap]) => IsBound(regs', todo'[Swap])  BY <1>1
  <2> QED  BY <1>1, <2>1 DEF IInv, FrameInv
<1>11. UNCHANGED Stream!vars  BY <1>1 DEF Stream!vars
<1> QED  BY <1>5, <1>6, <1>7, <1>8, <1>9, <1>10, <1>11 DEF IInv

\* With the directory at its end and no call in progress nothing of it is left.
LEMMA NothingLeft ==
  ASSUME Types, StreamInv, swapAt = "scan", stack[Swap] = <<>>, cursor = built
  PROVE  todo[Swap] = <<>>
<1>1. PICK D : Scanned(D)  BY DEF StreamInv
<1>2. PICK t \in Seq(Commands) :
        Owes(Swap, t, D) /\ SegmentCommands[built] = SegmentCommands[cursor] \o t
  BY <1>1 DEF Scanned
<1>3. todo[Swap] = t  BY <1>2, NothingCalled
<1> DEFINE x == SegmentCommands[built]
<1>4. x \in Seq(Commands)
  <2>1. built \in 0 .. Len(Directory)  BY DEF Types
  <2> QED  BY <2>1, SegmentCommandsIs DEF Lists
<1>5. x = x \o t  BY <1>2
<1> HIDE DEF x
<1>6. t = <<>>  BY <1>2, <1>4, <1>5, ConcatSimplifications
<1> QED  BY <1>3, <1>6

LEMMA EndFrameKeeps ==
  ASSUME Locked, IInv, EndFrame
  PROVE  IInv' /\ Stream!EndFrame
<1>1. /\ swapAt = "scan" /\ stack[Swap] = <<>> /\ cursor = built /\ swapAt' = "out"
      /\ owner' = None
      /\ UNCHANGED <<mode, built, cursor, regs, mem, counter, draws, irqs, flat, tex, seen,
                     todo, stack, ring, wptr, rptr, lastWptr, batch>>
      /\ shown' = <<IF flat = <<>> THEN shown[1] ELSE flat,
                    IF tex = <<>> THEN shown[2] ELSE tex>>
  BY DEF EndFrame, titleVars, pumpVars, effects
<1>2. todo[Swap] = <<>>  BY <1>1, NothingLeft DEF IInv
<1>3. PICK D : RingInv(D) /\ Behindhand(D) /\ Scanned(D)  BY DEF IInv, StreamInv
<1>4. StreamInv'
  <2>1. RingInv(D)'  BY <1>1, <1>3, ChainUnchanged
  <2>2. Behindhand(D)'  BY <1>1, <1>3, PumpKept
  <2>3. Scanned(D)'
    <3>1. Len(stack'[Swap]) = 0 /\ 1 .. 0 = {}  BY <1>1
    <3> QED  BY <1>1, <1>2, <3>1 DEF Scanned
  <2> QED  BY <2>1, <2>2, <2>3 DEF StreamInv
<1>5. Types'  BY <1>1 DEF IInv, Types
<1>6. SeenInv'  BY <1>1 DEF IInv, SeenInv, Glyphs, Stream!Holds
<1>7. TextInv'  BY <1>1 DEF IInv, TextInv, Glyphs
<1>8. LockInv'
  <2>1. owner = Swap /\ Pump # Swap /\ None # Pump /\ None # Swap
    BY <1>1, PacketAssumption DEF IInv, LockInv
  <2> QED  BY <1>1, <2>1 DEF IInv, LockInv
<1>9. FrameInv'  BY <1>1 DEF FrameInv
<1>10. Stream!EndFrame
  BY <1>1, <1>2 DEF Stream!EndFrame, Stream!effects
<1> QED  BY <1>4, <1>5, <1>6, <1>7, <1>8, <1>9, <1>10 DEF IInv

-----------------------------------------------------------------------------
(* The results.                                                             *)

LEMMA InitHolds ==
  ASSUME Init
  PROVE  IInv /\ Stream!Init
<1>1. /\ mode \in Modes /\ wptr = 0 /\ rptr = 0 /\ built = 0 /\ lastWptr = 0 /\ batch = 0
      /\ ring = [a \in 0 .. (RingSize - 1) |-> <<0, 0>>]
      /\ swapAt = "out" /\ cursor = 0 /\ owner = None
      /\ stack = [e \in Executors |-> <<>>] /\ todo = [e \in Executors |-> <<>>]
      /\ regs = [r \in Regs |-> 0] /\ counter = 0 /\ draws = 0 /\ irqs = [n \in 0 .. 5 |-> 0]
      /\ flat = <<>> /\ tex = <<>> /\ seen = {} /\ shown = << <<>>, <<>> >>
  BY DEF Init
<1>2. /\ stack[Pump] = <<>> /\ todo[Pump] = <<>> /\ stack[Swap] = <<>> /\ todo[Swap] = <<>>
  BY <1>1 DEF Executors
<1>3. RingSize \in Nat \ {0} /\ 0 \in 0 .. (RingSize - 1) /\ Cap \in Nat
      /\ None # Pump /\ None # Swap /\ Pump # Swap /\ Len(Directory) \in Nat
  BY PacketAssumption
<1>4. Types
  <2>1. stack \in [Executors -> Seq(Frames)] /\ todo \in [Executors -> Seq(Commands)]
    BY <1>1
  <2>2. irqs \in [0 .. 5 -> Nat] /\ regs = [r \in Regs |-> regs[r]]  BY <1>1
  <2> QED  BY <1>1, <1>3, <2>1, <2>2 DEF Types
<1>5. StreamInv
  <2> DEFINE D == [a \in 0 .. RingSize |-> <<>>]
  <2>1. D \in [0 .. RingSize -> Seq(Commands)]  OBVIOUS
  <2>2. D[0] = <<>> /\ D[RingSize] = <<>>  BY <1>3
  <2> HIDE DEF D
  <2>3. \A a \in 0 .. (RingSize - 1) : ~ Used(a)  BY <1>1 DEF Used
  <2>4. Reads(D)  BY <1>1, <2>1, <2>2, <2>3 DEF Reads
  <2>5. ItemsWhole  BY <2>3 DEF ItemsWhole
  <2>6. RingTyped  BY <1>1, <1>3 DEF RingTyped
  <2>7. Behindhand(D)
    <3> DEFINE T == << <<>> >>
    <3>1. T \in Seq(Seq(Commands)) /\ Len(T) = 1 /\ T[1] = <<>>  OBVIOUS
    <3> HIDE DEF T
    <3>2. IsChain(<<>>, T, D)  BY <3>1 DEF IsChain
    <3> QED  BY <1>1, <1>2, <2>2, <3>1, <3>2 DEF Behindhand, Owes
  <2>8. Scanned(D)
    <3>1. Len(stack[Swap]) = 0 /\ 1 .. 0 = {}  BY <1>2
    <3> QED  BY <1>1, <1>2, <3>1 DEF Scanned
  <2> QED  BY <2>4, <2>5, <2>6, <2>7, <2>8 DEF StreamInv, RingInv
<1>6. Len(tex) = 0 /\ 1 .. 0 = {}  BY <1>1
<1>7. SeenInv
  <2>1. tex \in Seq(Blocks)  BY <1>1
  <2> QED  BY <1>1, <1>3, <1>6, <2>1 DEF SeenInv, Stream!Holds
<1>8. TextInv  BY <1>1, <1>6 DEF TextInv
<1>9. LockInv  BY <1>1, <1>2, <1>3 DEF LockInv
<1>10. FrameInv  BY <1>1 DEF FrameInv
<1>11. Stream!Init  BY <1>1 DEF Stream!Init
<1> QED  BY <1>4, <1>5, <1>7, <1>8, <1>9, <1>10, <1>11 DEF IInv

LEMMA StutterKeeps ==
  ASSUME IInv, UNCHANGED vars
  PROVE  IInv' /\ UNCHANGED Stream!vars
<1>1. UNCHANGED <<mode, built, swapAt, cursor, shown, regs, mem, counter, draws, irqs,
                  flat, tex, seen, todo, owner, stack, ring, wptr, rptr, lastWptr, batch>>
  BY DEF vars, titleVars, pumpVars, swapVars, effects
<1>2. stack' \in [Executors -> Seq(Frames)]  BY <1>1 DEF IInv, Types
<1>3. Types' /\ SeenInv' /\ TextInv' /\ FrameInv' /\ UNCHANGED Stream!vars
  BY <1>1, <1>2, FrameUnchanged
<1>4. PICK D : RingInv(D) /\ Behindhand(D) /\ Scanned(D)  BY DEF IInv, StreamInv
<1>5. RingInv(D)'  BY <1>1, <1>4, ChainUnchanged
<1>6. Behindhand(D)'  BY <1>1, <1>4, PumpKept
<1>7. Scanned(D)'  BY <1>1, <1>4, ScannedKept
<1>8. StreamInv'  BY <1>5, <1>6, <1>7 DEF StreamInv
<1>9. LockInv'  BY <1>1 DEF IInv, LockInv
<1> QED  BY <1>3, <1>8, <1>9 DEF IInv

\* Every step keeps the invariant, and carries out one command of a stream, submits
\* one, begins or ends a frame, or is not seen from outside.
LEMMA StepImplements ==
  ASSUME Locked, IInv, [Next]_vars
  PROVE  IInv' /\ [Stream!Next]_(Stream!vars)
<1>1. ASSUME NEW i \in DOMAIN Menu, Submit(i)
      PROVE  IInv' /\ Stream!Next
  <2>1. IInv' /\ Stream!Submit(Pump)  BY <1>1, SubmitKeeps
  <2>2. Pump \in Executors \ {Swap}  BY PacketAssumption DEF Executors
  <2> QED  BY <2>1, <2>2 DEF Stream!Next
<1>2. CASE Record  BY <1>2, RecordKeeps
<1>3. ASSUME NEW e \in Executors, Interpret(e)
      PROVE  IInv' /\ (UNCHANGED Stream!vars \/ Stream!Next)
  <2>1. IInv' /\ (UNCHANGED Stream!vars \/ Stream!Execute(e))  BY <1>3, InterpretKeeps
  <2> QED  BY <2>1 DEF Stream!Next
<1>4. CASE BeginBatch  BY <1>4, BeginBatchKeeps
<1>5. CASE EndBatch  BY <1>5, EndBatchKeeps
<1>6. CASE BeginFrame
  <2>1. IInv' /\ Stream!StartFrame  BY <1>6, BeginFrameKeeps
  <2> QED  BY <2>1 DEF Stream!Next
<1>7. CASE Scan  BY <1>7, ScanKeeps
<1>8. CASE EndFrame
  <2>1. IInv' /\ Stream!EndFrame  BY <1>8, EndFrameKeeps
  <2> QED  BY <2>1 DEF Stream!Next
<1>9. CASE UNCHANGED vars  BY <1>9, StutterKeeps
<1> QED  BY <1>1, <1>2, <1>3, <1>4, <1>5, <1>6, <1>7, <1>8, <1>9 DEF Next

\* Whatever the title submits and records, with the run token the ring is read as it
\* was written, and what each stream has left is what its calls still stand for
\* (ExecuteRing and ExecutePM4, kernel.cpp 1396-1545; tl_textSeen, 1415-1420).
THEOREM InvariantHolds ==
  ASSUME Locked PROVE Spec => []IInv
<1>1. Init => IInv  BY InitHolds
<1>2. IInv /\ [Next]_vars => IInv'  BY StepImplements
<1> QED  BY <1>1, <1>2, PTL DEF Spec

\* Packets take effect in the order in which the title wrote them, each once, across
\* the end of the ring and through the buffers they call to any depth, and a draw of a
\* segment shows what the segment bound: the interpreter is a PacketStream, for every
\* ring size, memory, menu and directory whose words mean what they command
\* (ExecuteRing, ExecutePM4 and ExecuteType3, kernel.cpp 1396-2163).
THEOREM StreamCorrect ==
  ASSUME Locked PROVE Spec => ImplementsStream
<1>1. Init => Stream!Init  BY InitHolds
<1>2. IInv /\ [Next]_vars => [Stream!Next]_(Stream!vars)  BY StepImplements
<1>3. Spec => []IInv  BY InvariantHolds
<1> QED  BY <1>1, <1>2, <1>3, PTL DEF Spec, ImplementsStream, Stream!Spec

\* The frame that VdSwap hands over shows every text of the segments recorded so far,
\* and none twice, unless the accumulator is full (tl_textSeen, kernel.cpp 1415-1420).
THEOREM FramesCorrect ==
  ASSUME Locked PROVE Spec => []FrameKeepsEveryText
<1>1. IInv => FrameKeepsEveryText
  <2> SUFFICES ASSUME IInv, swapAt = "scan", cursor = built, stack[Swap] = <<>>,
                      mode \in {"glyph", "panels"}
               PROVE  /\ \A i, j \in 1 .. Len(tex) : Text[tex[i]] = Text[tex[j]] => i = j
                      /\ {Text[tex[i]] : i \in 1 .. Len(tex)} = Texts \/ Len(tex) = Cap
    BY DEF FrameKeepsEveryText
  <2>1. todo[Swap] = <<>>  BY NothingLeft DEF IInv
  <2>2. TextsIn(<<>>) = {}
    <3>1. Len(<<>>) = 0 /\ 1 .. 0 = {}  OBVIOUS
    <3> QED  BY <3>1 DEF TextsIn
  <2>3. Carved \union TextsIn(todo[Swap]) = Texts \/ Len(tex) = Cap
    BY DEF IInv, TextInv, Glyphs
  <2>4. Carved = Texts \/ Len(tex) = Cap  BY <2>1, <2>2, <2>3
  <2>5. \A i, j \in 1 .. Len(tex) : Text[tex[i]] = Text[tex[j]] => i = j
    BY DEF IInv, TextInv, Glyphs
  <2> QED  BY <2>4, <2>5 DEF Carved
<1>2. Spec => []IInv  BY InvariantHolds
<1> QED  BY <1>1, <1>2, PTL
==============================================================================
