------------------------- MODULE MC_PacketInterpreter -------------------------
(* Two texts in three buffers, a panel and a backdrop; segments that repeat    *)
(* each other, call buffers, and a buffer that calls itself.                   *)
EXTENDS PacketMeaning, TLC

CONSTANTS pump, swap, hello, bye, hud, scene

T3(op, data) == <<[type |-> "T3", op |-> op, count |-> Len(data)]>> \o data
T0(base, values, one) ==
  <<[type |-> "T0", base |-> base, count |-> Len(values), one |-> one]>> \o values
T1(r, s, v, w) == <<[type |-> "T1", first |-> r, second |-> s], v, w>>
Fetching(slot, buffer, words) ==
  T3("SET_CONSTANT", <<[type |-> 1, index |-> 2 * slot], buffer + 3, words * 4>>)
\* The buffer a draw is meant to show is not a part of its words: nothing reads it.
Drawing(n, prim, from) == T3("DRAW_INDX_2", <<[n |-> n, prim |-> prim, from |-> from]>>)
Shd(event, address, value) ==
  T3("EVENT_WRITE_SHD", <<[event |-> event, counter |-> FALSE], address, value>>)
Counting(event, address) ==
  T3("EVENT_WRITE_SHD", <<[event |-> event, counter |-> TRUE], address, 0>>)
Calling(at, n) == T3("IB", <<at, n>>)

Sets(upd) == [kind |-> "set", upd |-> upd]
Draws(prim, from) == [kind |-> "draw", prim |-> prim, from |-> from]
Fetched(slot, buffer, words) ==
  Sets(18432 + (2 * slot) :> (buffer + 3) @@ 18433 + (2 * slot) :> (words * 4))

\* Vertex buffers: 4 and 8 hold the same text.
MCText == 4 :> hello @@ 8 :> hello @@ 12 :> bye @@ 16 :> hud @@ 20 :> scene
MCKey == hello :> 1 @@ bye :> 2 @@ hud :> 3 @@ scene :> 4

\* Indirect buffers and segments, at 100, 200, ...
Buffers ==
  << Fetching(95, 4, 16) \o <<Zero>> \o T3("WAIT_REG_MEM", <<0>>)
       \o Drawing(4, 13, 4) \o Shd(70, 2, 5),
     Fetching(95, 8, 16) \o T3("DRAW_INDX", <<0, [n |-> 4, prim |-> 13, from |-> 8]>>)
       \o Calling(300, 6),
     Fetching(95, 12, 16) \o Drawing(4, 13, 12),
     T3("SET_CONSTANT2", <<18432, 23, 24>>) \o Drawing(3, 8, 20)
       \o Fetching(95, 16, 8) \o Drawing(4, 5, 16),
     T3("XE_SWAP", <<0>>) \o Calling(500, 5),
     <<[type |-> "T2"], Zero>> >>

MCStatic ==
  [a \in UNION {(100 * i) .. ((100 * i) + Len(Buffers[i]) - 1) : i \in DOMAIN Buffers}
     |-> Buffers[a \div 100][(a % 100) + 1]]

Hello == <<Fetched(95, 4, 16), Draws(13, 4),
           [kind |-> "fence", event |-> 6, addr |-> 0, value |-> 5]>>
Bye == <<Fetched(95, 12, 16), Draws(13, 12)>>
Again == <<Fetched(95, 8, 16), Draws(13, 8)>> \o Bye
Scene == <<Sets(18432 :> 23 @@ 18433 :> 24), Draws(8, 20),
           Fetched(95, 16, 8), Draws(5, 16)>>

Item(words, commands) == [words |-> words, commands |-> commands]

MCMenu ==
  << Item(T0(16384, <<1, 2>>, FALSE) \o Calling(100, Len(Buffers[1])),
         <<Sets(16384 :> 1 @@ 16385 :> 2)>> \o Hello),
     Item(T1(16385, 8192, 7, 8) \o T3("INTERRUPT", <<20>>) \o Shd(1, 4, 9),
         <<Sets(16385 :> 7 @@ 8192 :> 8), [kind |-> "interrupt", cpus |-> {2, 4}],
           [kind |-> "fence", event |-> 1, addr |-> 4, value |-> 9]>>),
     Item(T3("XE_SWAP", <<0>>) \o Counting(2, 0) \o T3("EVENT_WRITE", <<[event |-> 3]>>),
         <<[kind |-> "swap"], [kind |-> "count", event |-> 2, addr |-> 0],
           Sets(8697 :> 3)>>),
     Item(T0(8192, <<3, 4>>, TRUE) \o Calling(500, 5),
         <<Sets(8192 :> 4)>> \o [i \in 1 .. MaxDepth |-> [kind |-> "swap"]]) >>

Segment(i, commands) ==
  [tag |-> TRUE, len |-> Len(Buffers[i]), aligned |-> TRUE, addr |-> 100 * i,
   commands |-> commands]

MCDirectory ==
  << Segment(2, Again), Segment(6, <<>>), Segment(4, Scene), Segment(1, Hello) >>

\* The meanings, packet by packet.
Meant(p, n) ==
  LET h == p[0]
      init == IF h.op = "DRAW_INDX" THEN p[2] ELSE p[1]
  IN IF Updates(h) THEN Sets(Update(p, n))
     ELSE CASE h.op = "INTERRUPT" ->
                 [kind |-> "interrupt", cpus |-> {k \in 0 .. 5 : Bit(p[1], k) = 1}]
            [] h.op = "EVENT_WRITE_SHD" ->
                 LET event == p[1].event % 64
                     addr == p[2] - (p[2] % 4)
                 IN IF p[1].counter
                    THEN [kind |-> "count", event |-> event, addr |-> addr]
                    ELSE [kind |-> "fence", event |-> event, addr |-> addr, value |-> p[3]]
            [] h.op = "XE_SWAP" -> [kind |-> "swap"]
            [] OTHER -> Draws(init.prim, init.from)

RECURSIVE Reading(_, _), Reached(_, _)
Reading(W, f) ==
  IF f.depth > MaxDepth \/ f.at >= f.end THEN <<>>
  ELSE LET p == PacketAt(W, f)
           rest == Reading(W, Behind(W, f))
       IN IF Idle(p[0]) THEN rest
          ELSE IF Calls(p[0])
          THEN Reading(MCStatic, Frame(p[1], p[2], f.depth + 1)) \o rest
          ELSE <<Meant(p, Behind(W, f).at - f.at - 1)>> \o rest

\* The frames of W, and those outside the ring, that executing f comes to.
Reached(W, f) ==
  IF f.depth > MaxDepth THEN <<{}, {}>>
  ELSE IF f.at >= f.end THEN << {f}, {} >>
  ELSE LET p == PacketAt(W, f)
           rest == Reached(W, Behind(W, f))
           called == IF Calls(p[0])
                     THEN Reached(MCStatic, Frame(p[1], p[2], f.depth + 1)) ELSE <<{}, {}>>
       IN << {f} \union rest[1], rest[2] \union called[1] \union called[2] >>

ItemFrames == [i \in DOMAIN MCMenu |-> Reached(MCMenu[i].words, Frame(1, Len(MCMenu[i].words), 0))]
SegmentFrames == [n \in DOMAIN MCDirectory |->
  Reached(MCStatic, Frame(MCDirectory[n].addr, MCDirectory[n].len, 1))]

MCOfItem == [i \in DOMAIN MCMenu |-> [f \in ItemFrames[i][1] |-> Reading(MCMenu[i].words, f)]]
MCOfBuffer ==
  [f \in UNION ({ItemFrames[i][2] : i \in DOMAIN MCMenu}
                  \union {SegmentFrames[n][1] \union SegmentFrames[n][2] : n \in DOMAIN MCDirectory})
     |-> Reading(MCStatic, f)]
MCCommands ==
  UNION ({{MCOfBuffer[f][j] : j \in DOMAIN MCOfBuffer[f]} : f \in DOMAIN MCOfBuffer}
          \union {{MCMenu[i].commands[j] : j \in DOMAIN MCMenu[i].commands} : i \in DOMAIN MCMenu})
MCIndices == [t \in {hello, bye, hud, scene} |-> 4]
==============================================================================
