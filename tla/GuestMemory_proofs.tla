-------------------------- MODULE GuestMemory_proofs --------------------------
(* Theorems about GuestMemory, for every choice of its constants.             *)
EXTENDS GuestMemory, TLAPS

(* What RoundUp returns: the rounding of kernel.cpp 261.                      *)
LEMMA RoundedUp ==
  ASSUME NEW v \in Nat, NEW a \in Nat \ {0}
  PROVE  RoundUp(v, a) \in Nat /\ v <= RoundUp(v, a)
<1>1. (-v) % a \in 0 .. (a - 1)
  OBVIOUS
<1> QED BY <1>1 DEF RoundUp

(* Aligning an address down stays a natural number.                           *)
LEMMA RoundedDown ==
  ASSUME NEW v \in Nat, NEW a \in Nat \ {0}
  PROVE  v - (v % a) \in Nat /\ v - (v % a) <= v
<1>1. v % a \in 0 .. (a - 1)
  OBVIOUS
<1>2. v = a * (v \div a) + (v % a)
  OBVIOUS
<1>3. v \div a \in Nat
  OBVIOUS
<1> QED BY <1>1, <1>2, <1>3

(* The page-rounded range of a call at an address.                            *)
LEMMA RangeTyped ==
  ASSUME NEW addr \in Nat, NEW req \in Nat, NEW page \in Nat \ {0}
  PROVE  /\ RangeAt(addr, req, page)[1] \in Nat
         /\ RangeAt(addr, req, page)[2] \in Nat
         /\ req <= RangeAt(addr, req, page)[2]
<1> DEFINE from == addr - (addr % page)
<1>1. from \in Nat /\ from <= addr
  BY RoundedDown
<1>2. req + (addr - from) \in Nat /\ req <= req + (addr - from)
  BY <1>1
<1>3. /\ RoundUp(req + (addr - from), page) \in Nat
      /\ req + (addr - from) <= RoundUp(req + (addr - from), page)
  BY <1>2, RoundedUp
<1>4. RangeAt(addr, req, page) = <<from, RoundUp(req + (addr - from), page)>>
  BY DEF RangeAt
<1> HIDE DEF from
<1> QED BY <1>1, <1>2, <1>3, <1>4

(* A map of regions stays one when a region is added, grown or recommitted.   *)
LEMMA MapTyped ==
  ASSUME TypeOK, NEW gbase \in Nat, NEW size \in Nat, NEW commit \in BOOLEAN
  PROVE  /\ DOMAIN Map(gbase, size, commit) \subseteq Nat
         /\ Map(gbase, size, commit)
              \in [DOMAIN Map(gbase, size, commit) -> Region]
         /\ DOMAIN Map(gbase, size, commit) \subseteq DOMAIN regions \union {gbase}
<1>1. CASE FindRegion(gbase) = {}
  <2> DEFINE new == [size |-> size, reserved |-> TRUE, committed |-> commit]
  <2>1. new \in Region
    BY DEF Region
  <2>2. Map(gbase, size, commit) = [b \in DOMAIN regions \union {gbase} |->
                                     IF b = gbase THEN new ELSE regions[b]]
    BY <1>1 DEF Map
  <2>3. \A b \in DOMAIN regions : regions[b] \in Region
    BY DEF TypeOK
  <2> HIDE DEF new
  <2> QED BY <2>1, <2>2, <2>3 DEF TypeOK
<1>2. CASE FindRegion(gbase) # {}
  <2> DEFINE grown(b) == [size |-> Grown(b, gbase, size), reserved |-> TRUE,
                          committed |-> regions[b].committed \/ commit]
  <2>1. \A b \in DOMAIN regions : grown(b) \in Region
    <3> TAKE b \in DOMAIN regions
    <3>1. b \in Nat /\ regions[b] \in Region
      BY DEF TypeOK
    <3>2. regions[b].size \in Nat
      BY <3>1 DEF Region
    <3>3. Grown(b, gbase, size) \in Nat
      BY <3>1, <3>2 DEF Grown
    <3>4. (regions[b].committed \/ commit) \in BOOLEAN
      OBVIOUS
    <3> QED BY <3>3, <3>4 DEF Region
  <2>2. Map(gbase, size, commit) =
          [b \in DOMAIN regions |-> IF b \in FindRegion(gbase) THEN grown(b)
                                                               ELSE regions[b]]
    BY <1>2 DEF Map
  <2>3. \A b \in DOMAIN regions : regions[b] \in Region
    BY DEF TypeOK
  <2> HIDE DEF grown
  <2> QED BY <2>1, <2>2, <2>3 DEF TypeOK
<1> QED BY <1>1, <1>2

(* A block that is handed out is one.                                         *)
Blocks == [kind : Arenas \union {"pool"}, base : Nat, size : Nat, nr : Nat]
LEMMA BlockTyped ==
  ASSUME NEW kind \in Arenas \union {"pool"}, NEW from \in Nat, NEW size \in Nat,
         calls \in Nat
  PROVE  Block(kind, from, size) \in Blocks
BY DEF Block, Blocks

LEMMA UnitsTyped ==
  ASSUME NEW from \in Nat, NEW size \in Nat
  PROVE  Units(from, size) \subseteq Nat
BY DEF Units

(* The type of everything but g_regions and the calls under way.              *)
Rest ==
  /\ next \in [Arenas -> Nat]
  /\ \A a \in Arenas : Base[a] <= next[a]
  /\ poolCur \in Nat /\ poolEnd \in Nat /\ calls \in Nat
  /\ blocks \subseteq Blocks
  /\ live \subseteq Nat /\ dirty \subseteq Nat /\ asked \subseteq Nat
  /\ tlsFree \subseteq Slots
  /\ holders \in [Slots -> Nat]
Maps == /\ DOMAIN regions \subseteq Nat
        /\ regions \in [DOMAIN regions -> Region]
Calls ==
  /\ mid \in [Threads -> [op : {"idle", "physical", "alloc", "free"},
                          arg : Nat, seen : SUBSET Nat]]
  /\ \A t \in Threads : mid[t].op \in {"alloc", "free"} =>
       mid[t].seen \subseteq Slots /\ mid[t].arg \in Slots
LEMMA TypeParts == TypeOK <=> Rest /\ Maps /\ Calls
BY DEF TypeOK, Rest, Maps, Calls, Blocks
LEMMA TypePartsNext == Rest' /\ Maps' /\ Calls' => TypeOK'
BY DEF TypeOK, Rest, Maps, Calls, Blocks

(* A pointer moves up.                                                        *)
LEMMA NextUp ==
  ASSUME TypeOK, NEW a \in Arenas, NEW n \in Nat, next[a] <= n,
         next' = [next EXCEPT ![a] = n]
  PROVE  /\ next' \in [Arenas -> Nat]
         /\ \A b \in Arenas : Base[b] <= next'[b]
<1>1. next \in [Arenas -> Nat] /\ \A b \in Arenas : Base[b] <= next[b]
  BY DEF TypeOK
<1>2. \A b \in Arenas : Base[b] \in Nat
  BY ArenasAssumption
<1> QED BY <1>1, <1>2

LEMMA Initially == Init => TypeOK
<1> SUFFICES ASSUME Init PROVE TypeOK
  OBVIOUS
<1>1. Maps
  BY DEF Init, Maps
<1>2. Calls
  BY DEF Init, Calls, Idle
<1>3. Rest
  BY ArenasAssumption, ModelAssumption DEF Init, Rest
<1> QED BY <1>1, <1>2, <1>3, TypeParts

LEMMA AllocateAnywhereTyped ==
  ASSUME TypeOK, NEW t \in Threads, AllocateAnywhere(t)
  PROVE  TypeOK'
<1>1. PICK req \in Requests, commit \in BOOLEAN :
        /\ Hand("virtual", Granule, RoundUp(req, Granule), RoundUp(req, Granule))
        /\ regions' = Map(RoundUp(next["virtual"], Granule),
                          RoundUp(req, Granule), commit)
        /\ live' = IF commit
                   THEN live \union Units(RoundUp(next["virtual"], Granule),
                                          RoundUp(req, Granule))
                   ELSE live
  BY DEF AllocateAnywhere
<1> DEFINE from == RoundUp(next["virtual"], Granule)
           size == RoundUp(req, Granule)
<1>2. "virtual" \in Arenas /\ next["virtual"] \in Nat
  BY DEF Arenas, TypeOK
<1>3. from \in Nat /\ next["virtual"] <= from /\ size \in Nat
  BY <1>2, RoundedUp, SizesAssumption
<1>4. Maps'
  BY <1>1, <1>3, MapTyped DEF Maps
<1>5. Block("virtual", from, size) \in Blocks
  BY <1>2, <1>3, BlockTyped DEF TypeOK
<1>6. Units(from, size) \subseteq Nat
  BY <1>3, UnitsTyped
<1>7. /\ next' = [next EXCEPT !["virtual"] = from + size]
      /\ blocks' = blocks \union {Block("virtual", from, size)}
      /\ calls' = calls + 1
  BY <1>1 DEF Hand
<1> HIDE DEF from, size
<1>8. live' \subseteq Nat
  BY <1>1, <1>6 DEF TypeOK, from, size
<1>9. /\ next' \in [Arenas -> Nat]
      /\ \A a \in Arenas : Base[a] <= next'[a]
  <2>1. from + size \in Nat /\ next["virtual"] <= from + size
    BY <1>2, <1>3
  <2> QED BY <1>2, <1>7, <2>1, NextUp
<1>10. asked' = {} /\ UNCHANGED <<poolCur, poolEnd, dirty, tlsVars, mid>>
  BY DEF AllocateAnywhere
<1>11. Rest'
  BY <1>5, <1>7, <1>8, <1>9, <1>10 DEF TypeOK, Rest, tlsVars, Blocks
<1>12. Calls'
  BY <1>10 DEF TypeOK, Calls
<1> QED BY <1>4, <1>11, <1>12, TypePartsNext

LEMMA AllocateInsideTyped ==
  ASSUME TypeOK, NEW t \in Threads, AllocateInside(t)
  PROVE  TypeOK'
<1>1. PICK b \in blocks, req \in Requests, page \in {Page, Granule} :
      \E addr \in Units(b.base, b.size) :
        /\ regions' = Map(RangeAt(addr, req, page)[1], RangeAt(addr, req, page)[2],
                          TRUE)
        /\ live' = live \union Units(RangeAt(addr, req, page)[1],
                                    RangeAt(addr, req, page)[2])
  BY ZenonT(40) DEF AllocateInside
<1>2. PICK addr \in Units(b.base, b.size) :
        /\ regions' = Map(RangeAt(addr, req, page)[1], RangeAt(addr, req, page)[2],
                          TRUE)
        /\ live' = live \union Units(RangeAt(addr, req, page)[1],
                                    RangeAt(addr, req, page)[2])
  BY <1>1
<1>3. addr \in Nat /\ req \in Nat /\ page \in Nat \ {0}
  <2>1. b.base \in Nat /\ b.size \in Nat
    BY DEF TypeOK
  <2> QED BY <2>1, UnitsTyped, SizesAssumption
<1>4. RangeAt(addr, req, page)[1] \in Nat /\ RangeAt(addr, req, page)[2] \in Nat
  BY <1>3, RangeTyped
<1>5. Maps'
  BY <1>2, <1>4, MapTyped DEF Maps
<1>6. live' \subseteq Nat
  BY <1>2, <1>4, UnitsTyped DEF TypeOK
<1>7. /\ asked' = {}
      /\ UNCHANGED <<next, poolCur, poolEnd, blocks, dirty, calls, tlsVars, mid>>
  BY DEF AllocateInside
<1>8. Rest'
  BY <1>6, <1>7 DEF TypeOK, Rest, tlsVars, Blocks
<1>9. Calls'
  BY <1>7 DEF TypeOK, Calls
<1> QED BY <1>5, <1>8, <1>9, TypePartsNext

LEMMA AllocateAtTyped ==
  ASSUME TypeOK, NEW t \in Threads, AllocateAt(t)
  PROVE  TypeOK'
<1>1. PICK addr \in ChosenBases, req \in Requests, commit \in BOOLEAN :
        /\ regions' = Map(RangeAt(addr, req, Page)[1], RangeAt(addr, req, Page)[2],
                          commit)
        /\ blocks' = blocks \union {Block("virtual", RangeAt(addr, req, Page)[1],
                                         RangeAt(addr, req, Page)[2])}
        /\ live' = IF commit
                   THEN live \union Units(RangeAt(addr, req, Page)[1],
                                          RangeAt(addr, req, Page)[2])
                   ELSE live
  BY DEF AllocateAt
<1>2. RangeAt(addr, req, Page)[1] \in Nat /\ RangeAt(addr, req, Page)[2] \in Nat
  BY RangeTyped, SizesAssumption, ModelAssumption
<1>3. Maps'
  BY <1>1, <1>2, MapTyped DEF Maps
<1>4. live' \subseteq Nat
  BY <1>1, <1>2, UnitsTyped DEF TypeOK
<1>5. Block("virtual", RangeAt(addr, req, Page)[1], RangeAt(addr, req, Page)[2])
        \in Blocks
  BY <1>2, BlockTyped DEF TypeOK, Arenas
<1>6. /\ asked' = {} /\ calls' = calls + 1
      /\ UNCHANGED <<next, poolCur, poolEnd, dirty, tlsVars, mid>>
  BY DEF AllocateAt
<1>7. Rest'
  BY <1>1, <1>4, <1>5, <1>6 DEF TypeOK, Rest, tlsVars, Blocks
<1>8. Calls'
  BY <1>6 DEF TypeOK, Calls
<1> QED BY <1>3, <1>7, <1>8, TypePartsNext

(* A region whose flags change is still one.                                  *)
LEMMA FlagsTyped ==
  ASSUME TypeOK, NEW rb \in DOMAIN regions
  PROVE  LET f == [regions EXCEPT ![rb].committed = FALSE]
             g == [regions EXCEPT ![rb].reserved = FALSE, ![rb].committed = FALSE]
         IN /\ DOMAIN f = DOMAIN regions /\ f \in [DOMAIN regions -> Region]
            /\ DOMAIN g = DOMAIN regions /\ g \in [DOMAIN regions -> Region]
BY DEF TypeOK, Region

LEMMA DecommitTyped ==
  ASSUME TypeOK, NEW t \in Threads, Decommit(t)
  PROVE  TypeOK'
<1>1. PICK b \in blocks : \E addr \in Units(b.base, b.size) :
      \E req \in Requests \union {0}, rb \in FindRegion(addr) :
        DecommitPages(b, req, addr, rb)
  BY DEF Decommit
<1>2. PICK addr \in Units(b.base, b.size) :
        \E req \in Requests \union {0}, rb \in FindRegion(addr) :
          DecommitPages(b, req, addr, rb)
  BY <1>1
<1>2a. PICK req \in Requests \union {0}, rb \in FindRegion(addr) :
        DecommitPages(b, req, addr, rb)
  BY <1>2
<1>3. rb \in DOMAIN regions
  BY DEF FindRegion
<1>4. Maps'
  BY <1>2a, <1>3, FlagsTyped DEF TypeOK, Maps, DecommitPages
<1>5. dirty' \subseteq Nat /\ live' \subseteq Nat
  BY <1>2a DEF Zeroed, TypeOK, DecommitPages
<1>6. asked' \subseteq Nat
  <2>1. b.base \in Nat /\ b.size \in Nat /\ req \in Nat
    BY SizesAssumption DEF TypeOK
  <2>2. addr \in Nat /\ addr <= b.base + b.size
    BY <2>1 DEF Units
  <2> DEFINE from == addr - (addr % Page)
             to == IF req = 0 THEN b.base + b.size ELSE addr + req
  <2>3. from \in Nat /\ from <= addr
    BY <2>2, RoundedDown, SizesAssumption
  <2>4. to - from \in Nat
    BY <2>1, <2>2, <2>3
  <2>5. RoundUp(to - from, Page) \in Nat
    BY <2>4, RoundedUp, SizesAssumption
  <2>6. PagesOf(b, addr, req) = Units(from, RoundUp(to - from, Page))
    BY DEF PagesOf
  <2>7. asked' = PagesOf(b, addr, req)
    BY <1>2a DEF DecommitPages
  <2> HIDE DEF from, to
  <2> QED BY <2>7, <2>3, <2>5, <2>6, UnitsTyped
<1>7. UNCHANGED <<next, poolCur, poolEnd, blocks, calls, tlsVars, mid>>
  BY DEF Decommit
<1>8. Rest'
  BY <1>5, <1>6, <1>7 DEF TypeOK, Rest, tlsVars, Blocks
<1>9. Calls'
  BY <1>7 DEF TypeOK, Calls
<1> QED BY <1>4, <1>8, <1>9, TypePartsNext

LEMMA ReleaseTyped ==
  ASSUME TypeOK, NEW t \in Threads, Release(t)
  PROVE  TypeOK'
<1>1. PICK b \in blocks : \E rb \in FindRegion(b.base) :
        /\ regions' = [regions EXCEPT ![rb].reserved = FALSE,
                                      ![rb].committed = FALSE]
        /\ dirty' = Zeroed(rb, regions[rb].size)
        /\ live' = live \ Units(rb, regions[rb].size)
        /\ blocks' = blocks \ {b}
        /\ asked' = Units(b.base, b.size)
  BY DEF Release
<1>2. b.base \in Nat /\ b.size \in Nat
  BY DEF TypeOK
<1>3. Maps'
  BY <1>1, FlagsTyped DEF TypeOK, Maps, FindRegion
<1>4. /\ dirty' \subseteq Nat /\ live' \subseteq Nat /\ asked' \subseteq Nat
      /\ blocks' \subseteq Blocks
  BY <1>1, <1>2, UnitsTyped DEF Zeroed, TypeOK, Blocks
<1>5. UNCHANGED <<next, poolCur, poolEnd, calls, tlsVars, mid>>
  BY DEF Release
<1>6. Rest'
  BY <1>4, <1>5 DEF TypeOK, Rest, tlsVars
<1>7. Calls'
  BY <1>5 DEF TypeOK, Calls
<1> QED BY <1>3, <1>6, <1>7, TypePartsNext

(* Carving an arena adds a region.                                            *)
LEMMA CarveTyped ==
  ASSUME TypeOK, NEW from \in Nat, NEW arena \in Nat, next["virtual"] <= from,
         Carve(from, arena)
  PROVE  /\ Maps' /\ poolEnd' \in Nat /\ next' \in [Arenas -> Nat]
         /\ \A a \in Arenas : Base[a] <= next'[a]
<1>1. Maps'
  <2> DEFINE new == [size |-> arena, reserved |-> TRUE, committed |-> TRUE]
  <2>1. new \in Region
    BY DEF Region
  <2>2. regions' = [b \in DOMAIN regions \union {from} |->
                     IF b = from THEN new ELSE regions[b]]
    BY DEF Carve
  <2> HIDE DEF new
  <2> QED BY <2>1, <2>2 DEF TypeOK, Maps
<1>2. "virtual" \in Arenas /\ from + arena \in Nat
      /\ next["virtual"] <= from + arena
  BY DEF Arenas, TypeOK
<1>3. next' = [next EXCEPT !["virtual"] = from + arena]
  BY DEF Carve
<1>4. /\ next' \in [Arenas -> Nat]
      /\ \A a \in Arenas : Base[a] <= next'[a]
  BY <1>2, <1>3, NextUp
<1> QED BY <1>1, <1>2, <1>4 DEF Carve

LEMMA PoolAllocTyped ==
  ASSUME TypeOK, NEW t \in Threads, PoolAlloc(t)
  PROVE  TypeOK'
<1> DEFINE from == RoundUp(next["virtual"], Granule)
           arena(size) == RoundUp(IF size > Arena THEN size ELSE Arena, Granule)
<1>1. PICK size \in Requests :
        \/ Carve(from, arena(size)) /\ PoolBlock(from, size)
        \/ PoolBlock(poolCur, size) /\ UNCHANGED <<poolEnd, next, regions>>
  BY DEF PoolAlloc
<1>2. size \in Nat /\ from \in Nat /\ next["virtual"] <= from /\ arena(size) \in Nat
  BY RoundedUp, SizesAssumption DEF TypeOK, Arenas
<1>3. /\ calls' = calls + 1 /\ asked' = {} /\ UNCHANGED <<dirty, tlsVars, mid>>
  BY DEF PoolAlloc
<1> HIDE DEF from, arena
<1>4. /\ Maps' /\ poolEnd' \in Nat /\ next' \in [Arenas -> Nat]
      /\ \A a \in Arenas : Base[a] <= next'[a]
  <2>1. CASE Carve(from, arena(size))
    BY <1>2, <2>1, CarveTyped
  <2>2. CASE UNCHANGED <<poolEnd, next, regions>>
    BY <2>2 DEF TypeOK, Maps
  <2> QED BY <1>1, <2>1, <2>2
<1>5. PICK p \in Nat : PoolBlock(p, size)
  BY <1>1, <1>2 DEF TypeOK
<1>6. poolCur' \in Nat /\ blocks' \subseteq Blocks /\ live' \subseteq Nat
  <2>1. Block("pool", p, size) \in Blocks /\ Units(p, size) \subseteq Nat
    BY <1>2, BlockTyped, UnitsTyped DEF TypeOK
  <2> QED BY <1>2, <1>5, <2>1 DEF PoolBlock, TypeOK, Blocks
<1>7. Rest'
  BY <1>3, <1>4, <1>6 DEF TypeOK, Rest, tlsVars
<1>8. Calls'
  BY <1>3 DEF TypeOK, Calls
<1> QED BY <1>4, <1>7, <1>8, TypePartsNext

LEMMA WriteTyped ==
  ASSUME TypeOK, NEW t \in Threads, Write(t)
  PROVE  TypeOK'
<1>1. /\ dirty' \subseteq Nat /\ asked' = {}
      /\ UNCHANGED <<regions, next, poolCur, poolEnd, blocks, live, calls, tlsVars,
                     mid>>
  BY DEF Write, TypeOK
<1>2. Rest' /\ Maps' /\ Calls'
  BY <1>1 DEF TypeOK, Rest, Maps, Calls, tlsVars, Blocks
<1> QED BY <1>2, TypePartsNext

LEMMA PhysicalTyped ==
  ASSUME TypeOK, NEW t \in Threads, AlignPhysical(t) \/ TakePhysical(t)
  PROVE  TypeOK'
<1>1. CASE AlignPhysical(t)
  <2> DEFINE a(align, page) == IF align < page THEN page ELSE RoundUp(align, page)
             from(align, page) == RoundUp(next["physical"], a(align, page))
  <2>1. PICK req \in Requests, align \in Requests, page \in {Page, Granule} :
          /\ next' = [next EXCEPT !["physical"] = from(align, page)]
          /\ mid' = [mid EXCEPT ![t] = [op |-> "physical", arg |-> RoundUp(req, page),
                                        seen |-> {from(align, page)}]]
    BY <1>1 DEF AlignPhysical
  <2>2. req \in Nat /\ align \in Nat \ {0} /\ page \in Nat \ {0}
    BY SizesAssumption
  <2>3. RoundUp(req, page) \in Nat /\ a(align, page) \in Nat \ {0}
    BY <2>2, RoundedUp
  <2>4. "physical" \in Arenas /\ next["physical"] \in Nat
    BY DEF TypeOK, Arenas
  <2> HIDE DEF a
  <2>5. from(align, page) \in Nat /\ next["physical"] <= from(align, page)
    BY <2>3, <2>4, RoundedUp
  <2> HIDE DEF from
  <2>6. /\ next' \in [Arenas -> Nat]
        /\ \A b \in Arenas : Base[b] <= next'[b]
    BY <2>1, <2>4, <2>5, NextUp
  <2>7. Calls'
    BY <2>1, <2>3, <2>5 DEF TypeOK, Calls
  <2>8. asked' = {} /\ UNCHANGED <<virtVars, blocks, calls, tlsVars>>
    BY <1>1 DEF AlignPhysical
  <2>9. Rest' /\ Maps'
    BY <2>6, <2>8 DEF TypeOK, Rest, Maps, tlsVars, virtVars, Blocks
  <2> QED BY <2>7, <2>9, TypePartsNext
<1>2. CASE TakePhysical(t)
  <2>1. PICK from \in mid[t].seen :
          /\ blocks' = blocks \union {Block("physical", from, mid[t].arg)}
          /\ live' = live \union Units(from, mid[t].arg)
    BY <1>2 DEF TakePhysical
  <2>2. mid[t].arg \in Nat /\ from \in Nat
    BY DEF TypeOK
  <2>3. blocks' \subseteq Blocks /\ live' \subseteq Nat
    <3>1. /\ Block("physical", from, mid[t].arg) \in Blocks
          /\ Units(from, mid[t].arg) \subseteq Nat
      BY <2>2, BlockTyped, UnitsTyped DEF TypeOK, Arenas
    <3> QED BY <2>1, <3>1 DEF TypeOK, Blocks
  <2>4. "physical" \in Arenas /\ next["physical"] \in Nat
    BY DEF TypeOK, Arenas
  <2>5. /\ next' = [next EXCEPT !["physical"] = next["physical"] + mid[t].arg]
        /\ calls' = calls + 1 /\ mid' = [mid EXCEPT ![t] = Idle]
        /\ UNCHANGED <<regions, poolCur, poolEnd, dirty, asked, tlsVars>>
    BY <1>2 DEF TakePhysical
  <2>6. /\ next' \in [Arenas -> Nat]
        /\ \A b \in Arenas : Base[b] <= next'[b]
    <3>1. /\ next["physical"] + mid[t].arg \in Nat
          /\ next["physical"] <= next["physical"] + mid[t].arg
      BY <2>2, <2>4
    <3> QED BY <2>4, <2>5, <3>1, NextUp
  <2>7. Calls'
    BY <2>5 DEF TypeOK, Calls, Idle
  <2>8. Rest' /\ Maps'
    BY <2>3, <2>5, <2>6 DEF TypeOK, Rest, Maps, tlsVars
  <2> QED BY <2>7, <2>8, TypePartsNext
<1> QED BY <1>1, <1>2

LEMMA ContextTyped ==
  ASSUME TypeOK, NEW t \in Threads, CreateGuestThreadContext(t)
  PROVE  TypeOK'
<1> DEFINE T == next["thread"]
           S == next["stack"]
<1>1. PICK req \in Requests :
        /\ next' = [next EXCEPT !["thread"] = T + 3 * Page,
                                !["stack"] = S + RoundUp(req, Granule) + Gap]
        /\ blocks' = blocks \union {Block("thread", T, 3 * Page),
                                    Block("stack", S, RoundUp(req, Granule))}
  BY DEF CreateGuestThreadContext
<1>2. /\ T \in Nat /\ S \in Nat /\ 3 * Page \in Nat /\ Gap \in Nat
      /\ RoundUp(req, Granule) \in Nat
  BY RoundedUp, SizesAssumption DEF TypeOK, Arenas
<1>3. /\ calls' = calls + 1 /\ asked' = {} /\ UNCHANGED <<virtVars, tlsVars, mid>>
  BY DEF CreateGuestThreadContext
<1>4. /\ Block("thread", T, 3 * Page) \in Blocks
      /\ Block("stack", S, RoundUp(req, Granule)) \in Blocks
  BY <1>2, BlockTyped DEF TypeOK, Arenas
<1>5. /\ next' \in [Arenas -> Nat]
      /\ \A b \in Arenas : Base[b] <= next'[b]
  <2>1. next \in [Arenas -> Nat] /\ \A b \in Arenas : Base[b] <= next[b]
    BY DEF TypeOK
  <2>2. \A b \in Arenas : Base[b] \in Nat
    BY ArenasAssumption
  <2>3. T <= T + 3 * Page /\ S <= S + RoundUp(req, Granule) + Gap
    BY <1>2
  <2>4. T + 3 * Page \in Nat /\ S + RoundUp(req, Granule) + Gap \in Nat
    BY <1>2
  <2>5. /\ next'["thread"] = T + 3 * Page
        /\ next'["stack"] = S + RoundUp(req, Granule) + Gap
        /\ \A a \in Arenas \ {"thread", "stack"} : next'[a] = next[a]
        /\ next' = [a \in Arenas |-> next'[a]]
    BY <1>1, <2>1 DEF Arenas
  <2> HIDE DEF T, S
  <2>6. \A a \in Arenas : next'[a] \in Nat /\ Base[a] <= next'[a]
    <3>1. Base["thread"] <= T /\ Base["stack"] <= S
      BY <2>1 DEF T, S, Arenas
    <3>2. "thread" \in Arenas /\ "stack" \in Arenas
      BY DEF Arenas
    <3> TAKE a \in Arenas
    <3> QED BY <1>2, <2>1, <2>2, <2>3, <2>4, <2>5, <3>1, <3>2
  <2>7. next' \in [Arenas -> Nat]
    BY <2>5, <2>6
  <2> QED BY <2>6, <2>7
<1> HIDE DEF T, S
<1>6. Rest' /\ Maps' /\ Calls'
  BY <1>1, <1>3, <1>4, <1>5 DEF TypeOK, Rest, Maps, Calls, Blocks, virtVars, tlsVars
<1> QED BY <1>6, TypePartsNext

LEMMA ObjectTyped ==
  ASSUME TypeOK, NEW t \in Threads, AllocObject(t)
  PROVE  TypeOK'
<1> DEFINE from == RoundUp(next["object"], 1)
<1>1. /\ next' = [next EXCEPT !["object"] = from + 2]
      /\ blocks' = blocks \union {Block("object", from, 2)}
      /\ calls' = calls + 1 /\ asked' = {} /\ UNCHANGED <<virtVars, tlsVars, mid>>
  BY DEF AllocObject, Hand
<1>2. "object" \in Arenas /\ next["object"] \in Nat
  BY DEF TypeOK, Arenas
<1>3. from \in Nat /\ next["object"] <= from
  BY <1>2, RoundedUp
<1> HIDE DEF from
<1>4. from + 2 \in Nat /\ next["object"] <= from + 2
  BY <1>2, <1>3
<1>5. /\ next' \in [Arenas -> Nat]
      /\ \A b \in Arenas : Base[b] <= next'[b]
  BY <1>1, <1>2, <1>4, NextUp
<1>6. Block("object", from, 2) \in Blocks
  BY <1>2, <1>3, BlockTyped DEF TypeOK
<1>7. Rest' /\ Maps' /\ Calls'
  BY <1>1, <1>5, <1>6 DEF TypeOK, Rest, Maps, Calls, Blocks, virtVars, tlsVars
<1> QED BY <1>7, TypePartsNext

LEMMA BitmapTyped ==
  ASSUME TypeOK, NEW t \in Threads, ReadBitmap(t) \/ StoreBitmap(t)
  PROVE  TypeOK'
<1>1. CASE ReadBitmap(t)
  <2>1. /\ asked' = {} /\ UNCHANGED <<virtVars, next, blocks, calls, tlsFree>>
    BY <1>1 DEF ReadBitmap
  <2>2. Calls' /\ holders' \in [Slots -> Nat]
    <3>1. Slots \subseteq Nat /\ tlsFree \subseteq Slots
      BY ModelAssumption DEF TypeOK
    <3>2. CASE /\ UNCHANGED holders
               /\ \E s \in tlsFree :
                    mid' = [mid EXCEPT ![t] = [op |-> "alloc", arg |-> s,
                                               seen |-> tlsFree]]
      BY <3>1, <3>2 DEF TypeOK, Calls
    <3>3. CASE \E s \in Slots :
                 /\ holders[s] > 0
                 /\ mid' = [mid EXCEPT ![t] = [op |-> "free", arg |-> s,
                                               seen |-> tlsFree]]
                 /\ holders' = [holders EXCEPT ![s] = @ - 1]
      <4>1. PICK s \in Slots :
              /\ holders[s] > 0
              /\ mid' = [mid EXCEPT ![t] = [op |-> "free", arg |-> s,
                                            seen |-> tlsFree]]
              /\ holders' = [holders EXCEPT ![s] = @ - 1]
        BY <3>3
      <4>2. holders[s] \in Nat /\ holders[s] - 1 \in Nat
        BY <4>1 DEF TypeOK
      <4>3. holders' \in [Slots -> Nat]
        BY <4>1, <4>2 DEF TypeOK
      <4>4. Calls'
        BY <3>1, <4>1 DEF TypeOK, Calls
      <4> QED BY <4>3, <4>4
    <3> QED BY <1>1, <3>2, <3>3 DEF ReadBitmap
  <2>3. Rest' /\ Maps'
    BY <2>1, <2>2 DEF TypeOK, Rest, Maps, Blocks, virtVars
  <2> QED BY <2>2, <2>3, TypePartsNext
<1>2. CASE StoreBitmap(t)
  <2>1. /\ mid' = [mid EXCEPT ![t] = Idle]
        /\ UNCHANGED <<virtVars, next, blocks, asked, calls>>
    BY <1>2 DEF StoreBitmap
  <2>2. mid[t].op \in {"alloc", "free"} /\ mid[t].arg \in Slots
    BY <1>2 DEF StoreBitmap, TypeOK
  <2>3. holders' \in [Slots -> Nat]
    BY <1>2, <2>2 DEF StoreBitmap, TypeOK
  <2>4. tlsFree' \subseteq Slots
    BY <1>2 DEF StoreBitmap, TypeOK
  <2>5. Rest' /\ Maps' /\ Calls'
    BY <2>1, <2>3, <2>4 DEF TypeOK, Rest, Maps, Calls, Blocks, virtVars, Idle
  <2> QED BY <2>5, TypePartsNext
<1> QED BY <1>1, <1>2

(* Every call keeps the types.                                                *)
LEMMA TypeStep == TypeOK /\ [Next]_vars => TypeOK'
<1> SUFFICES ASSUME TypeOK, [Next]_vars PROVE TypeOK'
  OBVIOUS
<1>1. CASE Next
  <2>1. PICK t \in Threads :
          \/ AllocateAnywhere(t) \/ AllocateInside(t) \/ AllocateAt(t)
          \/ Decommit(t) \/ Release(t) \/ PoolAlloc(t) \/ Write(t)
          \/ AlignPhysical(t) \/ TakePhysical(t)
          \/ CreateGuestThreadContext(t) \/ AllocObject(t)
          \/ ReadBitmap(t) \/ StoreBitmap(t)
    BY <1>1 DEF Next
  <2> QED
    BY <2>1, AllocateAnywhereTyped, AllocateInsideTyped, AllocateAtTyped,
       DecommitTyped, ReleaseTyped, PoolAllocTyped, WriteTyped, PhysicalTyped,
       ContextTyped, ObjectTyped, BitmapTyped
<1>2. CASE UNCHANGED vars
  BY <1>2 DEF vars, virtVars, tlsVars, TypeOK, Region
<1> QED BY <1>1, <1>2

(* Type correctness: the allocators' state keeps its types, and no arena's    *)
(* pointer ever goes back below where the arena begins.                       *)
THEOREM TypeCorrect == Spec => []TypeOK
<1> QED BY Initially, TypeStep, PTL DEF Spec

-----------------------------------------------------------------------------
(* Memory is handed out once.  A block lies in its arena, below the pointer   *)
(* that made it, or at an address the title chose, outside every arena and    *)
(* inside a region of its own; the rest of the pool's arena is free.          *)
Inside(b, a) == Base[a] <= b.base /\ b.base + b.size <= next[a]
Chosen(b) ==
  /\ Top["virtual"] <= b.base
  /\ \A a \in Arenas \ {"virtual"} : b.base + b.size <= Base[a]
  /\ 0 < b.size
  /\ b.base \in DOMAIN regions /\ b.size <= regions[b.base].size
Placed(b) ==
  \/ b.kind \in Arenas \ {"virtual"} /\ Inside(b, b.kind)
  \/ /\ b.kind = "pool" /\ Inside(b, "virtual")
     /\ b.base + b.size <= poolCur
  \/ /\ b.kind = "virtual" /\ Inside(b, "virtual")
     /\ b.base + b.size <= poolCur \/ poolEnd <= b.base
  \/ b.kind = "virtual" /\ Chosen(b)
PoolInv == \/ poolCur = 0 /\ poolEnd = 0
           \/ /\ Base["virtual"] <= poolCur /\ poolCur <= poolEnd
              /\ poolEnd <= next["virtual"]
PhysicalInv ==
  \A t \in Threads : mid[t].op = "physical" =>
    /\ mid[t].seen = {next["physical"]}
    /\ next["physical"] + mid[t].arg <= Top["physical"]
    /\ \A u \in Threads \ {t} : mid[u] = Idle
BlocksInv ==
  /\ BlocksDisjoint
  /\ \A b \in blocks : Placed(b)
  /\ \A a \in Arenas : next[a] <= Top[a]
  /\ PoolInv
  /\ PhysicalInv

LEMMA AddDisjoint ==
  ASSUME BlocksDisjoint, NEW n, blocks' \subseteq blocks \union {n},
         \A b \in blocks : Disjoint(b, n)
  PROVE  BlocksDisjoint'
BY DEF BlocksDisjoint, Disjoint

(* What lies between an arena's pointer and its end overlaps no block.        *)
LEMMA Fresh ==
  ASSUME TypeOK, BlocksInv, NEW a \in Arenas, NEW n,
         n.base \in Nat, n.size \in Nat,
         next[a] <= n.base, n.base + n.size <= Top[a]
  PROVE  \A b \in blocks : Disjoint(b, n)
<1> SUFFICES ASSUME NEW b \in blocks PROVE Disjoint(b, n)
  OBVIOUS
<1>1. /\ b.base \in Nat /\ b.size \in Nat
      /\ \A c \in Arenas : /\ next[c] \in Nat /\ Base[c] \in Nat /\ Top[c] \in Nat
                           /\ Base[c] <= next[c] /\ next[c] <= Top[c]
  BY ArenasAssumption DEF TypeOK, BlocksInv
<1>2. Placed(b)
  BY DEF BlocksInv
<1>3. ASSUME NEW c \in Arenas, Inside(b, c) PROVE Disjoint(b, n)
  <2>1. CASE c = a
    BY <1>1, <1>3, <2>1 DEF Inside, Disjoint
  <2>2. CASE c # a
    <3>1. Top[a] <= Base[c] \/ Top[c] <= Base[a]
      BY <2>2, ArenasAssumption
    <3> QED BY <1>1, <1>3, <3>1 DEF Inside, Disjoint
  <2> QED BY <2>1, <2>2
<1>4. CASE Chosen(b)
  <2>1. CASE a = "virtual"
    BY <1>1, <1>4, <2>1 DEF Chosen, Disjoint
  <2>2. CASE a # "virtual"
    BY <1>1, <1>4, <2>2 DEF Chosen, Disjoint
  <2> QED BY <2>1, <2>2
<1>5. "virtual" \in Arenas
  BY DEF Arenas
<1> QED BY <1>2, <1>3, <1>4, <1>5 DEF Placed

(* A region keeps its place and never shrinks.                                *)
LEMMA MapKeeps ==
  ASSUME TypeOK, NEW gbase \in Nat, NEW size \in Nat, NEW commit \in BOOLEAN,
         NEW b \in DOMAIN regions, 0 < regions[b].size
  PROVE  /\ b \in DOMAIN Map(gbase, size, commit)
         /\ regions[b].size <= Map(gbase, size, commit)[b].size
<1>1. b \in Nat /\ regions[b].size \in Nat
  BY DEF TypeOK, Region
<1>2. CASE FindRegion(gbase) = {}
  <2>1. b # gbase
    <3> SUFFICES ASSUME b = gbase PROVE gbase \in FindRegion(gbase)
      BY <1>2
    <3>1. \A c \in DOMAIN regions : c <= gbase \/ c > gbase
      BY DEF TypeOK
    <3> QED BY <1>1, <3>1 DEF FindRegion
  <2>2. /\ b \in DOMAIN Map(gbase, size, commit)
        /\ Map(gbase, size, commit)[b] = regions[b]
    BY <1>2, <2>1 DEF Map
  <2> QED BY <1>1, <2>2
<1>3. CASE FindRegion(gbase) # {}
  <2>1. b \in DOMAIN Map(gbase, size, commit)
    BY <1>3 DEF Map
  <2>2. Map(gbase, size, commit)[b].size \in {regions[b].size, Grown(b, gbase, size)}
    BY <1>3 DEF Map
  <2>3. regions[b].size <= Grown(b, gbase, size)
    BY <1>1 DEF Grown
  <2> QED BY <1>1, <2>1, <2>2, <2>3
<1> QED BY <1>2, <1>3

(* What a step must do for the blocks to stay where they are.                 *)
Grows ==
  /\ \A a \in Arenas : next[a] <= next'[a]
  /\ poolCur <= poolCur'
  /\ poolEnd' = poolEnd \/ next["virtual"] <= poolCur'
  /\ \A r \in DOMAIN regions : Top["virtual"] <= r /\ 0 < regions[r].size =>
       r \in DOMAIN regions' /\ regions[r].size <= regions'[r].size
LEMMA StayPlaced ==
  ASSUME TypeOK, TypeOK', BlocksInv, Grows, NEW b \in blocks
  PROVE  Placed(b)'
<1>1. /\ b.base \in Nat /\ b.size \in Nat
      /\ \A a \in Arenas : /\ next[a] \in Nat /\ next'[a] \in Nat
                           /\ next[a] <= next'[a]
      /\ poolCur \in Nat /\ poolCur' \in Nat /\ poolCur <= poolCur'
  BY DEF TypeOK, Grows
<1>2. ASSUME NEW a \in Arenas, Inside(b, a) PROVE Inside(b, a)'
  BY <1>1, <1>2 DEF Inside
<1>3. ASSUME Chosen(b) PROVE Chosen(b)'
  <2>1. b.base \in DOMAIN regions /\ b.size <= regions[b.base].size
    BY <1>3 DEF Chosen
  <2>2. regions[b.base].size \in Nat /\ 0 < regions[b.base].size
    BY <1>1, <1>3, <2>1 DEF Chosen, TypeOK, Region
  <2>3. /\ b.base \in DOMAIN regions'
        /\ regions[b.base].size <= regions'[b.base].size
    BY <1>3, <2>1, <2>2 DEF Grows, Chosen
  <2>4. regions'[b.base].size \in Nat
    BY <2>3 DEF TypeOK, Region
  <2> QED BY <1>1, <1>3, <2>1, <2>2, <2>3, <2>4 DEF Chosen
<1>4. "virtual" \in Arenas
  BY DEF Arenas
<1>5. CASE b.kind \in Arenas \ {"virtual"} /\ Inside(b, b.kind)
  BY <1>2, <1>5 DEF Placed
<1>6. CASE b.kind = "pool" /\ Inside(b, "virtual") /\ b.base + b.size <= poolCur
  BY <1>1, <1>2, <1>4, <1>6 DEF Placed
<1>7. CASE /\ b.kind = "virtual" /\ Inside(b, "virtual")
           /\ b.base + b.size <= poolCur \/ poolEnd <= b.base
  <2>1. b.base + b.size <= poolCur' \/ poolEnd' <= b.base
    <3>1. b.base + b.size <= next["virtual"] /\ next["virtual"] \in Nat
      BY <1>1, <1>4, <1>7 DEF Inside
    <3>2. poolEnd \in Nat /\ (poolEnd' = poolEnd \/ next["virtual"] <= poolCur')
      BY DEF Grows, TypeOK
    <3> QED BY <1>1, <1>7, <3>1, <3>2
  <2> QED BY <1>2, <1>4, <1>7, <2>1 DEF Placed
<1>8. CASE b.kind = "virtual" /\ Chosen(b)
  BY <1>3, <1>8 DEF Placed
<1> QED BY <1>5, <1>6, <1>7, <1>8 DEF Placed, BlocksInv

(* Calls that neither hand out nor take back a block.                         *)
LEMMA KeepBlocks ==
  ASSUME TypeOK, TypeOK', BlocksInv, Grows, blocks' \subseteq blocks
  PROVE  BlocksDisjoint' /\ \A b \in blocks' : Placed(b)'
<1>1. BlocksDisjoint'
  BY DEF BlocksInv, BlocksDisjoint, Disjoint
<1>2. \A b \in blocks' : Placed(b)'
  BY StayPlaced
<1> QED BY <1>1, <1>2

(* Calls that hand out one block.                                             *)
LEMMA AddBlock ==
  ASSUME TypeOK, TypeOK', BlocksInv, Grows, NEW n,
         blocks' = blocks \union {n}, \A b \in blocks : Disjoint(b, n), Placed(n)'
  PROVE  BlocksDisjoint' /\ \A b \in blocks' : Placed(b)'
<1>1. BlocksDisjoint'
  BY AddDisjoint DEF BlocksInv
<1>2. \A b \in blocks' : Placed(b)'
  BY StayPlaced
<1> QED BY <1>1, <1>2

(* Regions only grow when a range is mapped.                                  *)
LEMMA MapGrows ==
  ASSUME TypeOK, NEW gbase \in Nat, NEW size \in Nat, NEW commit \in BOOLEAN,
         regions' = Map(gbase, size, commit),
         \A a \in Arenas : next[a] <= next'[a], UNCHANGED <<poolCur, poolEnd>>
  PROVE  Grows
<1>1. poolCur <= poolCur'
  BY DEF TypeOK
<1> QED BY <1>1, MapKeeps DEF Grows

(* The calls that only touch the arenas.                                      *)
LEMMA SameRegionsGrow ==
  ASSUME TypeOK, UNCHANGED regions,
         \A a \in Arenas : next[a] <= next'[a], UNCHANGED <<poolCur, poolEnd>>
  PROVE  Grows
<1>1. poolCur <= poolCur'
  BY DEF TypeOK
<1>2. \A r \in DOMAIN regions : regions[r].size <= regions'[r].size
  BY DEF TypeOK, Region
<1> QED BY <1>1, <1>2 DEF Grows

LEMMA SameNext ==
  ASSUME TypeOK, UNCHANGED next
  PROVE  \A a \in Arenas : next[a] <= next'[a]
BY DEF TypeOK

LEMMA NoCallUnderWay ==
  ASSUME ~Preemptive, NEW t \in Threads, Enters(t), UNCHANGED mid
  PROVE  PhysicalInv'
BY DEF Enters, PhysicalInv, Idle

LEMMA AllocateAnywhereBlocks ==
  ASSUME ~Preemptive, TypeOK, TypeOK', BlocksInv,
         NEW t \in Threads, AllocateAnywhere(t)
  PROVE  BlocksInv'
<1> DEFINE from == RoundUp(next["virtual"], Granule)
<1>1. PICK req \in Requests, commit \in BOOLEAN :
        /\ Hand("virtual", Granule, RoundUp(req, Granule), RoundUp(req, Granule))
        /\ regions' = Map(from, RoundUp(req, Granule), commit)
  BY DEF AllocateAnywhere
<1>2. PICK size \in Nat : size = RoundUp(req, Granule)
  BY RoundedUp, SizesAssumption
<1>2b. PICK base : base = from
  OBVIOUS
<1>2c. PICK n : n = Block("virtual", base, size)
  OBVIOUS
<1>3. "virtual" \in Arenas /\ next["virtual"] \in Nat
  BY DEF Arenas, TypeOK
<1>4. base \in Nat /\ next["virtual"] <= base
  BY <1>2b, <1>3, RoundedUp, SizesAssumption
<1>5. /\ base + size <= Top["virtual"]
      /\ next' = [next EXCEPT !["virtual"] = base + size]
      /\ blocks' = blocks \union {n}
      /\ regions' = Map(base, size, commit)
  BY <1>1, <1>2, <1>2b, <1>2c DEF Hand
<1> HIDE DEF from
<1>6. UNCHANGED <<poolCur, poolEnd, mid>> /\ Enters(t)
  BY DEF AllocateAnywhere
<1>7. n.base = base /\ n.size = size /\ n.kind = "virtual"
  BY <1>2c DEF Block
<1>8. /\ \A a \in Arenas : next[a] <= next'[a]
      /\ next'["virtual"] = base + size
      /\ \A a \in Arenas \ {"virtual"} : next'[a] = next[a]
  BY <1>3, <1>4, <1>5 DEF TypeOK
<1>9. Grows
  BY <1>4, <1>5, <1>6, <1>8, MapGrows
<1>10. \A b \in blocks : Disjoint(b, n)
  BY <1>3, <1>4, <1>5, <1>7, Fresh
<1>11. poolEnd <= base
  BY <1>3, <1>4 DEF BlocksInv, PoolInv, TypeOK
<1>12. Placed(n)'
  <2>1. Inside(n, "virtual")'
    BY <1>3, <1>4, <1>7, <1>8, ArenasAssumption DEF Inside, TypeOK
  <2> QED BY <1>6, <1>7, <1>11, <2>1 DEF Placed
<1>13. BlocksDisjoint' /\ \A b \in blocks' : Placed(b)'
  BY <1>5, <1>9, <1>10, <1>12, AddBlock
<1>14. \A a \in Arenas : next'[a] <= Top[a]
  BY <1>5, <1>8 DEF BlocksInv
<1>15. PoolInv'
  BY <1>3, <1>4, <1>6, <1>8 DEF BlocksInv, PoolInv, TypeOK
<1> QED BY <1>6, <1>13, <1>14, <1>15, NoCallUnderWay DEF BlocksInv

(* The calls that change only regions: a commit, a decommit, a release.       *)
LEMMA RegionCallsBlocks ==
  ASSUME ~Preemptive, TypeOK, TypeOK', BlocksInv, NEW t \in Threads, Enters(t),
         Grows, blocks' \subseteq blocks, UNCHANGED <<next, poolCur, poolEnd, mid>>
  PROVE  BlocksInv'
<1>1. BlocksDisjoint' /\ \A b \in blocks' : Placed(b)'
  BY KeepBlocks
<1> QED BY <1>1, NoCallUnderWay DEF BlocksInv, PoolInv

LEMMA AllocateInsideBlocks ==
  ASSUME ~Preemptive, TypeOK, TypeOK', BlocksInv,
         NEW t \in Threads, AllocateInside(t)
  PROVE  BlocksInv'
<1>1. PICK b \in blocks, req \in Requests, page \in {Page, Granule} :
      \E addr \in Units(b.base, b.size) :
        regions' = Map(RangeAt(addr, req, page)[1], RangeAt(addr, req, page)[2],
                       TRUE)
  BY ZenonT(40) DEF AllocateInside
<1>2. PICK addr \in Units(b.base, b.size) :
        regions' = Map(RangeAt(addr, req, page)[1], RangeAt(addr, req, page)[2],
                       TRUE)
  BY <1>1
<1>3. addr \in Nat /\ req \in Nat /\ page \in Nat \ {0}
  <2>1. b.base \in Nat /\ b.size \in Nat
    BY DEF TypeOK
  <2> QED BY <2>1, UnitsTyped, SizesAssumption
<1>4. RangeAt(addr, req, page)[1] \in Nat /\ RangeAt(addr, req, page)[2] \in Nat
  BY <1>3, RangeTyped
<1>5. Enters(t) /\ UNCHANGED <<next, poolCur, poolEnd, blocks, mid>>
  BY DEF AllocateInside
<1>6. Grows
  BY <1>2, <1>4, <1>5, MapGrows, SameNext
<1> QED BY <1>5, <1>6, RegionCallsBlocks

LEMMA FreeBlocks ==
  ASSUME ~Preemptive, TypeOK, TypeOK', BlocksInv,
         NEW t \in Threads, Decommit(t) \/ Release(t)
  PROVE  BlocksInv'
<1>1. /\ Enters(t) /\ blocks' \subseteq blocks
      /\ UNCHANGED <<next, poolCur, poolEnd, mid>>
  BY DEF Decommit, Release
<1>2. PICK rb \in DOMAIN regions :
        regions' \in {regions, [regions EXCEPT ![rb].committed = FALSE],
                      [regions EXCEPT ![rb].reserved = FALSE,
                                      ![rb].committed = FALSE]}
  <2>1. CASE Decommit(t)
    <3>1. PICK b \in blocks : \E addr \in Units(b.base, b.size) :
          \E req \in Requests \union {0}, rb \in FindRegion(addr) :
            DecommitPages(b, req, addr, rb)
      BY <2>1 DEF Decommit
    <3>2. PICK addr \in Units(b.base, b.size) :
            \E req \in Requests \union {0}, rb \in FindRegion(addr) :
              DecommitPages(b, req, addr, rb)
      BY <3>1
    <3>3. PICK req \in Requests \union {0}, rb \in FindRegion(addr) :
            DecommitPages(b, req, addr, rb)
      BY <3>2
    <3>4. rb \in DOMAIN regions
      BY DEF FindRegion
    <3> QED BY <3>3, <3>4 DEF DecommitPages
  <2>2. CASE Release(t)
    BY <2>2 DEF Release, FindRegion
  <2> QED BY <2>1, <2>2
<1>3. \A r \in DOMAIN regions : /\ r \in DOMAIN regions'
                               /\ regions'[r].size = regions[r].size
  BY <1>2 DEF TypeOK, Region
<1>4. \A r \in DOMAIN regions : regions[r].size \in Nat
  BY DEF TypeOK, Region
<1>5. Grows
  <2>1. \A a \in Arenas : next[a] <= next'[a]
    BY <1>1, SameNext
  <2>2. poolCur <= poolCur'
    BY <1>1 DEF TypeOK
  <2> QED BY <1>1, <1>3, <1>4, <2>1, <2>2 DEF Grows
<1> QED BY <1>1, <1>5, RegionCallsBlocks

LEMMA AllocateAtBlocks ==
  ASSUME ~Preemptive, TypeOK, TypeOK', BlocksInv,
         NEW t \in Threads, AllocateAt(t)
  PROVE  BlocksInv'
<1>1. PICK addr \in ChosenBases, req \in Requests, commit \in BOOLEAN :
        LET r == RangeAt(addr, req, Page) IN
        /\ r[1] >= Top["virtual"]
        /\ \A a \in Arenas \ {"virtual"} : r[1] + r[2] <= Base[a]
        /\ \A b \in DOMAIN regions :
             r[1] + r[2] <= b \/ b + regions[b].size <= r[1]
        /\ regions' = Map(r[1], r[2], commit)
        /\ blocks' = blocks \union {Block("virtual", r[1], r[2])}
  BY DEF AllocateAt
<1>2. PICK from \in Nat, size \in Nat : /\ from = RangeAt(addr, req, Page)[1]
                                     /\ size = RangeAt(addr, req, Page)[2]
                                     /\ 0 < size
  <2>1. addr \in Nat /\ req \in Nat /\ 0 < req /\ Page \in Nat \ {0}
    BY SizesAssumption, ModelAssumption
  <2>2. /\ RangeAt(addr, req, Page)[1] \in Nat /\ RangeAt(addr, req, Page)[2] \in Nat
        /\ req <= RangeAt(addr, req, Page)[2]
    BY <2>1, RangeTyped
  <2> QED BY <2>1, <2>2
<1>3. PICK n : n = Block("virtual", from, size)
  OBVIOUS
<1>4. n.base = from /\ n.size = size /\ n.kind = "virtual"
  BY <1>3 DEF Block
<1>5. /\ Top["virtual"] <= from
      /\ \A a \in Arenas \ {"virtual"} : from + size <= Base[a]
      /\ \A b \in DOMAIN regions : from + size <= b \/ b + regions[b].size <= from
      /\ regions' = Map(from, size, commit)
      /\ blocks' = blocks \union {n}
  BY <1>1, <1>2, <1>3, ArenasAssumption DEF Arenas
<1>6. Enters(t) /\ UNCHANGED <<next, poolCur, poolEnd, mid>>
  BY DEF AllocateAt
<1>7. Grows
  BY <1>5, <1>6, MapGrows, SameNext
<1>8. \A b \in blocks : Disjoint(b, n)
  <2> TAKE b \in blocks
  <2>1. /\ b.base \in Nat /\ b.size \in Nat /\ Placed(b)
        /\ \A a \in Arenas : /\ next[a] \in Nat /\ Base[a] \in Nat /\ Top[a] \in Nat
                             /\ next[a] <= Top[a]
    BY ArenasAssumption DEF TypeOK, BlocksInv
  <2>2. ASSUME NEW a \in Arenas, Inside(b, a) PROVE Disjoint(b, n)
    <3>1. CASE a = "virtual"
      BY <1>4, <1>5, <2>1, <2>2, <3>1 DEF Inside, Disjoint
    <3>2. CASE a # "virtual"
      BY <1>4, <1>5, <2>1, <2>2, <3>2 DEF Inside, Disjoint
    <3> QED BY <3>1, <3>2
  <2>3. CASE Chosen(b)
    <3>1. /\ b.base \in DOMAIN regions /\ b.size <= regions[b.base].size
          /\ regions[b.base].size \in Nat
      BY <2>3 DEF Chosen, TypeOK, Region
    <3>2. from + size <= b.base \/ b.base + regions[b.base].size <= from
      BY <1>5, <3>1
    <3> QED BY <1>4, <2>1, <3>1, <3>2 DEF Disjoint
  <2> QED BY <2>1, <2>2, <2>3 DEF Placed, Arenas
<1>9. Placed(n)'
  <2>1. from \in DOMAIN regions' /\ size <= regions'[from].size
    <3>1. FindRegion(from) = {}
      BY <1>2, <1>5 DEF FindRegion, TypeOK, Region
    <3> QED BY <1>2, <1>5, <3>1 DEF Map
  <2>2. Chosen(n)'
    BY <1>2, <1>4, <1>5, <2>1 DEF Chosen
  <2> QED BY <1>4, <2>2 DEF Placed
<1>10. BlocksDisjoint' /\ \A b \in blocks' : Placed(b)'
  BY <1>5, <1>7, <1>8, <1>9, AddBlock
<1> QED BY <1>6, <1>10, NoCallUnderWay DEF BlocksInv, PoolInv

LEMMA PoolAllocBlocks ==
  ASSUME ~Preemptive, TypeOK, TypeOK', BlocksInv,
         NEW t \in Threads, PoolAlloc(t)
  PROVE  BlocksInv'
<1> DEFINE up == RoundUp(next["virtual"], Granule)
           least(size) == RoundUp(IF size > Arena THEN size ELSE Arena, Granule)
<1>1. PICK size \in Requests :
        \/ Carve(up, least(size)) /\ PoolBlock(up, size)
        \/ /\ ~NeedsArena(size)
           /\ PoolBlock(poolCur, size) /\ UNCHANGED <<poolEnd, next, regions>>
  BY DEF PoolAlloc
<1>2. "virtual" \in Arenas /\ next["virtual"] \in Nat /\ size \in Nat
  BY SizesAssumption DEF Arenas, TypeOK
<1>3. PICK from \in Nat, arena \in Nat :
        /\ from = up /\ arena = least(size)
        /\ next["virtual"] <= from /\ size <= arena
  <2>1. up \in Nat /\ next["virtual"] <= up
    BY <1>2, RoundedUp, SizesAssumption
  <2>2. least(size) \in Nat /\ size <= least(size)
    BY <1>2, RoundedUp, SizesAssumption
  <2> QED BY <2>1, <2>2
<1>4. Enters(t) /\ UNCHANGED mid
  BY DEF PoolAlloc
<1> HIDE DEF up, least
<1>5. /\ \A a \in Arenas : next[a] \in Nat /\ Base[a] \in Nat /\ Base[a] <= next[a]
      /\ poolCur \in Nat /\ poolEnd \in Nat /\ PoolInv
  BY ArenasAssumption DEF TypeOK, BlocksInv
<1>6. CASE Carve(from, arena) /\ PoolBlock(from, size)
  <2>1. PICK n : n = Block("pool", from, size)
    OBVIOUS
  <2>2. n.base = from /\ n.size = size /\ n.kind = "pool"
    BY <2>1 DEF Block
  <2>3. /\ from + arena <= Top["virtual"] /\ poolEnd' = from + arena
        /\ next' = [next EXCEPT !["virtual"] = from + arena]
        /\ poolCur' = from + size /\ blocks' = blocks \union {n}
    BY <1>6, <2>1 DEF Carve, PoolBlock
  <2>4. /\ next'["virtual"] = from + arena
        /\ \A a \in Arenas \ {"virtual"} : next'[a] = next[a]
    BY <1>2, <2>3 DEF TypeOK
  <2>5. Grows
    <3>1. \A a \in Arenas : next[a] <= next'[a]
      BY <1>2, <1>3, <1>5, <2>4
    <3>2. next["virtual"] <= poolCur' /\ poolCur <= poolCur'
      BY <1>2, <1>3, <1>5, <2>3 DEF PoolInv
    <3>3. from < Top["virtual"] \/ arena = 0
      BY <1>3, <2>3, ArenasAssumption, <1>2
    <3>4. arena # 0
      BY <1>3, RoundedUp, SizesAssumption, <1>2 DEF least
    <3>5. \A r \in DOMAIN regions : Top["virtual"] <= r =>
            r \in DOMAIN regions' /\ regions'[r] = regions[r]
      BY <1>2, <1>3, <1>6, <3>3, <3>4, ArenasAssumption DEF Carve
    <3>6. \A r \in DOMAIN regions : regions[r].size \in Nat
      BY DEF TypeOK, Region
    <3> QED BY <3>1, <3>2, <3>5, <3>6 DEF Grows
  <2>6. \A b \in blocks : Disjoint(b, n)
    <3>1. n.base + n.size <= Top["virtual"]
      BY <1>2, <1>3, <2>2, <2>3, ArenasAssumption
    <3> QED BY <1>2, <1>3, <2>2, <3>1, Fresh
  <2>7. Placed(n)'
    BY <1>2, <1>3, <1>5, <2>2, <2>3, <2>4 DEF Placed, Inside
  <2>8. BlocksDisjoint' /\ \A b \in blocks' : Placed(b)'
    BY <2>3, <2>5, <2>6, <2>7, AddBlock
  <2>9. PoolInv'
    BY <1>2, <1>3, <1>5, <2>3, <2>4 DEF PoolInv
  <2>10. \A a \in Arenas : next'[a] <= Top[a]
    BY <2>3, <2>4 DEF BlocksInv
  <2> QED BY <1>4, <2>8, <2>9, <2>10, NoCallUnderWay DEF BlocksInv
<1>7. CASE /\ ~NeedsArena(size)
           /\ PoolBlock(poolCur, size) /\ UNCHANGED <<poolEnd, next, regions>>
  <2>1. PICK n : n = Block("pool", poolCur, size)
    OBVIOUS
  <2>2. PICK p \in Nat : p = poolCur
    BY <1>5
  <2>3. n.base = p /\ n.size = size /\ n.kind = "pool"
    BY <2>1, <2>2 DEF Block
  <2>4. /\ poolCur' = p + size /\ blocks' = blocks \union {n}
        /\ p # 0 /\ p + size <= poolEnd /\ UNCHANGED <<poolEnd, next, regions>>
    BY <1>2, <1>5, <1>7, <2>1, <2>2 DEF PoolBlock, NeedsArena
  <2>5. Grows
    <3>1. \A r \in DOMAIN regions : regions[r].size \in Nat
      BY DEF TypeOK, Region
    <3> QED BY <1>2, <1>5, <2>2, <2>4, <3>1 DEF Grows
  <2>6. \A b \in blocks : Disjoint(b, n)
    <3> TAKE b \in blocks
    <3>1. /\ b.base \in Nat /\ b.size \in Nat /\ Placed(b)
          /\ \A a \in Arenas : Top[a] \in Nat /\ next[a] <= Top[a]
      BY ArenasAssumption DEF TypeOK, BlocksInv
    <3>2. /\ Base["virtual"] <= p /\ p + size <= next["virtual"]
      BY <1>2, <1>5, <2>2, <2>4 DEF PoolInv
    <3>3. CASE b.kind \in Arenas \ {"virtual"} /\ Inside(b, b.kind)
      <4>1. Top["virtual"] <= Base[b.kind] \/ Top[b.kind] <= Base["virtual"]
        BY <1>2, <3>3, ArenasAssumption
      <4>2. /\ Base[b.kind] <= b.base /\ b.base + b.size <= next[b.kind]
        BY <3>3 DEF Inside
      <4>3. b.kind \in Arenas
        BY <3>3
      <4> QED BY <1>2, <1>5, <2>3, <3>1, <3>2, <4>1, <4>2, <4>3 DEF Disjoint
    <3>4. CASE b.base + b.size <= p \/ poolEnd <= b.base
      BY <1>2, <1>5, <2>3, <2>4, <3>1, <3>4 DEF Disjoint
    <3>5. CASE Chosen(b)
      BY <1>2, <1>5, <2>3, <3>1, <3>2, <3>5 DEF Chosen, Disjoint
    <3> QED BY <2>2, <3>1, <3>3, <3>4, <3>5 DEF Placed
  <2>7. Placed(n)'
    BY <1>2, <1>5, <2>2, <2>3, <2>4 DEF Placed, Inside, PoolInv
  <2>8. BlocksDisjoint' /\ \A b \in blocks' : Placed(b)'
    BY <2>4, <2>5, <2>6, <2>7, AddBlock
  <2>9. PoolInv'
    BY <1>2, <1>5, <2>2, <2>4 DEF PoolInv
  <2> QED BY <1>4, <2>4, <2>8, <2>9, NoCallUnderWay DEF BlocksInv
<1> QED BY <1>1, <1>3, <1>6, <1>7

LEMMA PhysicalBlocks ==
  ASSUME ~Preemptive, TypeOK, TypeOK', BlocksInv,
         NEW t \in Threads, AlignPhysical(t) \/ TakePhysical(t)
  PROVE  BlocksInv'
<1>1. "physical" \in Arenas /\ "virtual" \in Arenas /\ next["physical"] \in Nat
  BY DEF Arenas, TypeOK
<1>2. CASE AlignPhysical(t)
  <2> DEFINE a(align, page) == IF align < page THEN page ELSE RoundUp(align, page)
             up(align, page) == RoundUp(next["physical"], a(align, page))
  <2>1. PICK req \in Requests, align \in Requests, page \in {Page, Granule} :
          /\ up(align, page) + RoundUp(req, page) <= Top["physical"]
          /\ next' = [next EXCEPT !["physical"] = up(align, page)]
          /\ mid' = [mid EXCEPT ![t] = [op |-> "physical", arg |-> RoundUp(req, page),
                                        seen |-> {up(align, page)}]]
    BY <1>2 DEF AlignPhysical
  <2>2. req \in Nat /\ align \in Nat \ {0} /\ page \in Nat \ {0}
    BY SizesAssumption
  <2>3. RoundUp(req, page) \in Nat /\ a(align, page) \in Nat \ {0}
    BY <2>2, RoundedUp
  <2> HIDE DEF a
  <2>4. PICK from \in Nat, size \in Nat : /\ from = up(align, page)
                                       /\ size = RoundUp(req, page)
                                       /\ next["physical"] <= from
    BY <1>1, <2>3, RoundedUp
  <2> HIDE DEF up
  <2>5. /\ from + size <= Top["physical"]
        /\ next' = [next EXCEPT !["physical"] = from]
        /\ mid' = [mid EXCEPT ![t] = [op |-> "physical", arg |-> size, seen |-> {from}]]
    BY <2>1, <2>4
  <2>6. Enters(t) /\ UNCHANGED <<regions, poolCur, poolEnd, blocks>>
    BY <1>2 DEF AlignPhysical, virtVars
  <2>7. /\ next'["physical"] = from
        /\ \A b \in Arenas \ {"physical"} : next'[b] = next[b]
    BY <1>1, <2>5 DEF TypeOK
  <2>8. \A b \in Arenas : next[b] <= next'[b] /\ next'[b] <= Top[b]
    <3>1. from <= Top["physical"]
      BY <1>1, <2>4, <2>5, ArenasAssumption
    <3> QED BY <1>1, <2>4, <2>7, <3>1 DEF TypeOK, BlocksInv
  <2>9. BlocksDisjoint' /\ \A b \in blocks' : Placed(b)'
    BY <2>6, <2>8, SameRegionsGrow, KeepBlocks
  <2>10. PhysicalInv'
    <3>1. \A u \in Threads \ {t} : mid'[u] = Idle
      BY <2>5, <2>6 DEF Enters, TypeOK
    <3>2. mid'[t] = [op |-> "physical", arg |-> size, seen |-> {from}]
      BY <2>5 DEF TypeOK
    <3> QED BY <2>5, <2>7, <3>1, <3>2 DEF PhysicalInv, Idle
  <2>11. PoolInv'
    BY <1>1, <2>6, <2>7 DEF BlocksInv, PoolInv
  <2> QED BY <2>8, <2>9, <2>10, <2>11 DEF BlocksInv
<1>3. CASE TakePhysical(t)
  <2>1. /\ mid[t].op = "physical" /\ mid[t].arg \in Nat
        /\ mid[t].seen = {next["physical"]}
        /\ next["physical"] + mid[t].arg <= Top["physical"]
        /\ \A u \in Threads \ {t} : mid[u] = Idle
    BY <1>3 DEF TakePhysical, BlocksInv, PhysicalInv, TypeOK
  <2>2. PICK from \in Nat, size \in Nat : from = next["physical"] /\ size = mid[t].arg
    BY <1>1, <2>1
  <2>3. PICK n : n = Block("physical", from, size)
    OBVIOUS
  <2>4. n.base = from /\ n.size = size /\ n.kind = "physical"
    BY <2>3 DEF Block
  <2>5. /\ next' = [next EXCEPT !["physical"] = from + size]
        /\ blocks' = blocks \union {n}
        /\ mid' = [mid EXCEPT ![t] = Idle]
        /\ UNCHANGED <<regions, poolCur, poolEnd>>
    BY <1>3, <2>1, <2>2, <2>3 DEF TakePhysical
  <2>6. /\ next'["physical"] = from + size
        /\ \A b \in Arenas \ {"physical"} : next'[b] = next[b]
    BY <1>1, <2>5 DEF TypeOK
  <2>7. \A b \in Arenas : next[b] <= next'[b] /\ next'[b] <= Top[b]
    BY <1>1, <2>1, <2>2, <2>6 DEF TypeOK, BlocksInv
  <2>8. \A b \in blocks : Disjoint(b, n)
    BY <1>1, <2>1, <2>2, <2>4, Fresh
  <2>9. Placed(n)'
    <3>1. Base["physical"] <= from
      BY <1>1, <2>2 DEF TypeOK
    <3> QED BY <1>1, <2>4, <2>6, <3>1 DEF Placed, Inside
  <2>10. BlocksDisjoint' /\ \A b \in blocks' : Placed(b)'
    BY <2>5, <2>7, <2>8, <2>9, SameRegionsGrow, AddBlock
  <2>11. PhysicalInv'
    BY <2>1, <2>5 DEF PhysicalInv, TypeOK, Idle
  <2>12. PoolInv'
    BY <1>1, <2>5, <2>6 DEF BlocksInv, PoolInv
  <2> QED BY <2>7, <2>10, <2>11, <2>12 DEF BlocksInv
<1> QED BY <1>2, <1>3

LEMMA ObjectBlocks ==
  ASSUME ~Preemptive, TypeOK, TypeOK', BlocksInv, NEW t \in Threads, AllocObject(t)
  PROVE  BlocksInv'
<1>1. "object" \in Arenas /\ "virtual" \in Arenas /\ next["object"] \in Nat
  BY DEF Arenas, TypeOK
<1>2. PICK from \in Nat : from = RoundUp(next["object"], 1) /\ next["object"] <= from
  BY <1>1, RoundedUp
<1>3. PICK n : n = Block("object", from, 2)
  OBVIOUS
<1>4. n.base = from /\ n.size = 2 /\ n.kind = "object"
  BY <1>3 DEF Block
<1>5. /\ next' = [next EXCEPT !["object"] = from + 2] /\ from + 2 <= Top["object"]
      /\ blocks' = blocks \union {n}
      /\ Enters(t) /\ UNCHANGED <<regions, poolCur, poolEnd, mid>>
  BY <1>2, <1>3 DEF AllocObject, Hand, virtVars
<1>6. /\ next'["object"] = from + 2
      /\ \A b \in Arenas \ {"object"} : next'[b] = next[b]
  BY <1>1, <1>5 DEF TypeOK
<1>7. \A b \in Arenas : next[b] <= next'[b] /\ next'[b] <= Top[b]
  BY <1>1, <1>2, <1>5, <1>6 DEF TypeOK, BlocksInv
<1>8. \A b \in blocks : Disjoint(b, n)
  BY <1>1, <1>2, <1>4, <1>5, Fresh
<1>9. Placed(n)'
  <2>1. Base["object"] <= from
    BY <1>1, <1>2, ArenasAssumption DEF TypeOK
  <2> QED BY <1>1, <1>4, <1>6, <2>1 DEF Placed, Inside
<1>10. BlocksDisjoint' /\ \A b \in blocks' : Placed(b)'
  BY <1>5, <1>7, <1>8, <1>9, SameRegionsGrow, AddBlock
<1>11. PoolInv'
  BY <1>1, <1>5, <1>6 DEF BlocksInv, PoolInv
<1> QED BY <1>5, <1>7, <1>10, <1>11, NoCallUnderWay DEF BlocksInv

LEMMA ContextBlocks ==
  ASSUME ~Preemptive, TypeOK, TypeOK', BlocksInv,
         NEW t \in Threads, CreateGuestThreadContext(t)
  PROVE  BlocksInv'
<1>1. /\ "thread" \in Arenas /\ "stack" \in Arenas /\ "virtual" \in Arenas
      /\ next["thread"] \in Nat /\ next["stack"] \in Nat
      /\ 3 * Page \in Nat /\ Gap \in Nat
  BY SizesAssumption DEF Arenas, TypeOK
<1>2. PICK T \in Nat, S \in Nat : T = next["thread"] /\ S = next["stack"]
  BY <1>1
<1>3. PICK req \in Requests :
        /\ T + 3 * Page <= Top["thread"]
        /\ S + RoundUp(req, Granule) + Gap <= Top["stack"]
        /\ next' = [next EXCEPT !["thread"] = T + 3 * Page,
                                !["stack"] = S + RoundUp(req, Granule) + Gap]
        /\ blocks' = blocks \union {Block("thread", T, 3 * Page),
                                    Block("stack", S, RoundUp(req, Granule))}
  BY <1>2 DEF CreateGuestThreadContext
<1>4. PICK size \in Nat : size = RoundUp(req, Granule)
  BY RoundedUp, SizesAssumption
<1>5. PICK k, m : k = Block("thread", T, 3 * Page) /\ m = Block("stack", S, size)
  OBVIOUS
<1>6. /\ k.base = T /\ k.size = 3 * Page /\ k.kind = "thread"
      /\ m.base = S /\ m.size = size /\ m.kind = "stack"
  BY <1>5 DEF Block
<1>7. /\ next'["thread"] = T + 3 * Page
      /\ next'["stack"] = S + size + Gap
      /\ \A b \in Arenas \ {"thread", "stack"} : next'[b] = next[b]
  BY <1>1, <1>3, <1>4 DEF TypeOK
<1>8. Enters(t) /\ UNCHANGED <<regions, poolCur, poolEnd, mid>>
  BY DEF CreateGuestThreadContext, virtVars
<1>9. \A b \in Arenas : next[b] <= next'[b] /\ next'[b] <= Top[b]
  BY <1>1, <1>2, <1>3, <1>4, <1>7 DEF TypeOK, BlocksInv
<1>10. Grows
  BY <1>8, <1>9, SameRegionsGrow
<1>11. \A b \in blocks : Disjoint(b, k)
  BY <1>1, <1>2, <1>3, <1>6, Fresh
<1>12. \A b \in blocks : Disjoint(b, m)
  <2>1. m.base + m.size <= Top["stack"]
    BY <1>1, <1>3, <1>4, <1>6, ArenasAssumption
  <2> QED BY <1>1, <1>2, <1>6, <2>1, Fresh
<1>13. Disjoint(k, m) /\ Disjoint(m, k)
  <2>1. Top["thread"] <= Base["stack"] \/ Top["stack"] <= Base["thread"]
    BY <1>1, ArenasAssumption
  <2>2. Base["thread"] <= T /\ Base["stack"] <= S
    BY <1>1, <1>2 DEF TypeOK
  <2>3. /\ Base["thread"] \in Nat /\ Base["stack"] \in Nat
        /\ Top["thread"] \in Nat /\ Top["stack"] \in Nat
    BY <1>1, ArenasAssumption
  <2> QED BY <1>1, <1>3, <1>4, <1>6, <2>1, <2>2, <2>3 DEF Disjoint
<1>14. BlocksDisjoint'
  <2>1. blocks' = blocks \union {k, m}
    BY <1>3, <1>4, <1>5
  <2>2. \A b \in blocks : Disjoint(k, b) /\ Disjoint(m, b)
    BY <1>11, <1>12 DEF Disjoint
  <2>3. \A b, c \in blocks : b # c => Disjoint(b, c)
    BY DEF BlocksInv, BlocksDisjoint
  <2>4. \A b, c \in blocks' : b # c => Disjoint(b, c)
    BY <1>11, <1>12, <1>13, <2>1, <2>2, <2>3
  <2> QED BY <2>4 DEF BlocksDisjoint, Disjoint
<1>15. Placed(k)' /\ Placed(m)'
  <2>1. Base["thread"] <= T /\ Base["stack"] <= S
    BY <1>1, <1>2 DEF TypeOK
  <2> QED BY <1>1, <1>6, <1>7, <2>1 DEF Placed, Inside
<1>16. \A b \in blocks' : Placed(b)'
  BY <1>3, <1>4, <1>5, <1>10, <1>15, StayPlaced
<1>17. PoolInv'
  BY <1>1, <1>7, <1>8 DEF BlocksInv, PoolInv
<1> QED BY <1>8, <1>9, <1>14, <1>16, <1>17, NoCallUnderWay DEF BlocksInv

LEMMA OtherBlocks ==
  ASSUME ~Preemptive, TypeOK, TypeOK', BlocksInv,
         NEW t \in Threads, Write(t) \/ ReadBitmap(t) \/ StoreBitmap(t)
  PROVE  BlocksInv'
<1>1. UNCHANGED <<regions, next, poolCur, poolEnd, blocks>>
  BY DEF Write, ReadBitmap, StoreBitmap, virtVars
<1>2. Grows
  BY <1>1, SameNext, SameRegionsGrow
<1>3. BlocksDisjoint' /\ \A b \in blocks' : Placed(b)'
  BY <1>1, <1>2, KeepBlocks
<1>4. PhysicalInv'
  <2>1. CASE Write(t)
    BY <2>1, NoCallUnderWay DEF Write
  <2>2. CASE ReadBitmap(t)
    <3>1. \A u \in Threads : mid[u] = Idle
      BY <2>2 DEF ReadBitmap, Enters
    <3>2. \A u \in Threads \ {t} : mid'[u] = mid[u]
      BY <2>2 DEF ReadBitmap, TypeOK
    <3>3. mid'[t].op # "physical"
      BY <2>2 DEF ReadBitmap, TypeOK
    <3> QED BY <3>1, <3>2, <3>3 DEF PhysicalInv, Idle
  <2>3. CASE StoreBitmap(t)
    <3>1. \A u \in Threads : mid'[u] \in {mid[u], Idle}
      BY <2>3 DEF StoreBitmap, TypeOK
    <3> SUFFICES ASSUME NEW u \in Threads, mid'[u].op = "physical"
                 PROVE  /\ mid'[u].seen = {next'["physical"]}
                        /\ next'["physical"] + mid'[u].arg <= Top["physical"]
                        /\ \A w \in Threads \ {u} : mid'[w] = Idle
      BY DEF PhysicalInv
    <3>2. mid'[u] = mid[u]
      BY <3>1 DEF Idle
    <3>3. /\ mid[u].seen = {next["physical"]}
          /\ next["physical"] + mid[u].arg <= Top["physical"]
          /\ \A w \in Threads \ {u} : mid[w] = Idle
      BY <3>2 DEF BlocksInv, PhysicalInv
    <3>4. \A w \in Threads \ {u} : mid'[w] = Idle
      BY <3>1, <3>3
    <3> QED BY <1>1, <3>2, <3>3, <3>4
  <2> QED BY <2>1, <2>2, <2>3
<1> QED BY <1>1, <1>3, <1>4 DEF BlocksInv, PoolInv

LEMMA BlocksStep ==
  ASSUME ~Preemptive
  PROVE  TypeOK /\ TypeOK' /\ BlocksInv /\ [Next]_vars => BlocksInv'
<1> SUFFICES ASSUME TypeOK, TypeOK', BlocksInv, [Next]_vars PROVE BlocksInv'
  OBVIOUS
<1>1. CASE Next
  <2>1. PICK t \in Threads :
          \/ AllocateAnywhere(t) \/ AllocateInside(t) \/ AllocateAt(t)
          \/ Decommit(t) \/ Release(t) \/ PoolAlloc(t) \/ Write(t)
          \/ AlignPhysical(t) \/ TakePhysical(t)
          \/ CreateGuestThreadContext(t) \/ AllocObject(t)
          \/ ReadBitmap(t) \/ StoreBitmap(t)
    BY <1>1 DEF Next
  <2> QED
    BY <2>1, AllocateAnywhereBlocks, AllocateInsideBlocks, AllocateAtBlocks,
       FreeBlocks, PoolAllocBlocks, PhysicalBlocks, ContextBlocks, ObjectBlocks,
       OtherBlocks
<1>2. CASE UNCHANGED vars
  <2>1. UNCHANGED <<regions, next, poolCur, poolEnd, blocks, mid>>
    BY <1>2 DEF vars, virtVars
  <2>2. Grows
    BY <2>1, SameNext, SameRegionsGrow
  <2>3. BlocksDisjoint' /\ \A b \in blocks' : Placed(b)'
    BY <2>1, <2>2, KeepBlocks
  <2> QED BY <2>1, <2>3 DEF BlocksInv, PoolInv, PhysicalInv
<1> QED BY <1>1, <1>2

(* With the run token, whatever the title asks for, no two blocks handed out  *)
(* overlap: reservations, pool, physical memory, contexts, stacks, objects.   *)
THEOREM BlocksCorrect ==
  ASSUME ~Preemptive
  PROVE  Spec => []BlocksDisjoint
<1>1. Init => BlocksInv
  <2> SUFFICES ASSUME Init PROVE BlocksInv
    OBVIOUS
  <2> QED BY ArenasAssumption
          DEF Init, BlocksInv, BlocksDisjoint, PoolInv, PhysicalInv, Idle
<1>2. TypeOK /\ TypeOK' /\ BlocksInv /\ [Next]_vars => BlocksInv'
  BY BlocksStep
<1>3. BlocksInv => BlocksDisjoint
  BY DEF BlocksInv
<1> QED BY <1>1, <1>2, <1>3, TypeCorrect, PTL DEF Spec

-----------------------------------------------------------------------------
(* Freed memory reads as zero: what the title may write it takes for          *)
(* committed, and what leaves the committed memory is zeroed in the same      *)
(* call.                                                                      *)
LEMMA ZeroStep == FreedReadsAsZero /\ [Next]_vars => FreedReadsAsZero'
<1> SUFFICES ASSUME FreedReadsAsZero, [Next]_vars PROVE FreedReadsAsZero'
  OBVIOUS
<1>1. ASSUME NEW t \in Threads, Decommit(t) PROVE FreedReadsAsZero'
  <2>1. PICK b \in blocks : \E addr \in Units(b.base, b.size) :
        \E req \in Requests \union {0}, rb \in FindRegion(addr) :
          DecommitPages(b, req, addr, rb)
    BY <1>1 DEF Decommit
  <2>2. PICK addr \in Units(b.base, b.size) :
          \E req \in Requests \union {0}, rb \in FindRegion(addr) :
            DecommitPages(b, req, addr, rb)
    BY <2>1
  <2>3. PICK req \in Requests \union {0}, rb \in FindRegion(addr) :
          DecommitPages(b, req, addr, rb)
    BY <2>2
  <2>4. \E gone : dirty' = dirty \ gone /\ live' = live \ gone
    BY <2>3 DEF DecommitPages, Zeroed
  <2> QED BY <2>4 DEF FreedReadsAsZero
<1>2. ASSUME NEW t \in Threads, Release(t) PROVE FreedReadsAsZero'
  BY <1>2 DEF Release, Zeroed, FreedReadsAsZero
<1>3. ASSUME NEW t \in Threads, Write(t) PROVE FreedReadsAsZero'
  BY <1>3 DEF Write, FreedReadsAsZero
<1>4. ASSUME NEW t \in Threads,
             \/ AllocateAnywhere(t) \/ AllocateInside(t) \/ AllocateAt(t)
             \/ PoolAlloc(t) \/ AlignPhysical(t) \/ TakePhysical(t)
             \/ CreateGuestThreadContext(t) \/ AllocObject(t)
             \/ ReadBitmap(t) \/ StoreBitmap(t)
      PROVE  FreedReadsAsZero'
  <2>1. dirty' = dirty
    BY <1>4 DEF AllocateAnywhere, AllocateInside, AllocateAt, PoolAlloc,
                AlignPhysical, TakePhysical, CreateGuestThreadContext,
                AllocObject, ReadBitmap, StoreBitmap, virtVars
  <2>2. live \subseteq live'
    BY <1>4 DEF AllocateAnywhere, AllocateInside, AllocateAt, PoolAlloc, PoolBlock,
                AlignPhysical, TakePhysical, CreateGuestThreadContext,
                AllocObject, ReadBitmap, StoreBitmap, virtVars
  <2> QED BY <2>1, <2>2 DEF FreedReadsAsZero
<1>5. CASE UNCHANGED vars
  BY <1>5 DEF vars, virtVars, FreedReadsAsZero
<1> QED BY <1>1, <1>2, <1>3, <1>4, <1>5 DEF Next

(* Whatever the scheduling: a later commit of freed memory, and every fresh   *)
(* block, is zero.                                                            *)
THEOREM ZeroCorrect == Spec => []FreedReadsAsZero
<1>1. Init => FreedReadsAsZero
  BY DEF Init, FreedReadsAsZero
<1> QED BY <1>1, ZeroStep, PTL DEF Spec

-----------------------------------------------------------------------------
(* The bitmap is the set of slots nobody holds, but for one being freed.      *)
SlotsInv ==
  /\ \A s \in Slots : holders[s] <= 1
  /\ \A s \in tlsFree : holders[s] = 0
  /\ \A t \in Threads : mid[t].op \in {"alloc", "free"} =>
       /\ mid[t].seen = tlsFree
       /\ mid[t].op = "alloc" => mid[t].arg \in tlsFree
       /\ mid[t].op = "free" => holders[mid[t].arg] = 0
       /\ \A u \in Threads \ {t} : mid[u] = Idle

LEMMA SlotsStep ==
  ASSUME ~Preemptive
  PROVE  TypeOK /\ SlotsInv /\ [Next]_vars => SlotsInv'
<1> SUFFICES ASSUME TypeOK, SlotsInv, [Next]_vars PROVE SlotsInv'
  OBVIOUS
<1>0. Slots \subseteq Nat
  BY ModelAssumption
<1>1. ASSUME NEW t \in Threads, ReadBitmap(t) PROVE SlotsInv'
  <2>1. tlsFree' = tlsFree /\ \A u \in Threads : mid[u] = Idle
    BY <1>1 DEF ReadBitmap, Enters
  <2>2. CASE /\ UNCHANGED holders
             /\ \E s \in tlsFree :
                  mid' = [mid EXCEPT ![t] = [op |-> "alloc", arg |-> s,
                                             seen |-> tlsFree]]
    <3>1. PICK s \in tlsFree :
            mid' = [mid EXCEPT ![t] = [op |-> "alloc", arg |-> s, seen |-> tlsFree]]
      BY <2>2
    <3>2. /\ mid'[t] = [op |-> "alloc", arg |-> s, seen |-> tlsFree]
          /\ \A u \in Threads \ {t} : mid'[u] = Idle
      BY <2>1, <3>1 DEF TypeOK
    <3> QED BY <2>1, <2>2, <3>2 DEF SlotsInv, Idle
  <2>3. CASE \E s \in Slots :
               /\ holders[s] > 0
               /\ mid' = [mid EXCEPT ![t] = [op |-> "free", arg |-> s,
                                             seen |-> tlsFree]]
               /\ holders' = [holders EXCEPT ![s] = @ - 1]
    <3>1. PICK s \in Slots :
            /\ holders[s] > 0
            /\ mid' = [mid EXCEPT ![t] = [op |-> "free", arg |-> s,
                                          seen |-> tlsFree]]
            /\ holders' = [holders EXCEPT ![s] = @ - 1]
      BY <2>3
    <3>2. holders[s] = 1 /\ s \notin tlsFree
      BY <3>1 DEF SlotsInv, TypeOK
    <3>3. holders' = [holders EXCEPT ![s] = 0]
      BY <3>1, <3>2
    <3>4. /\ \A r \in Slots : holders'[r] <= 1
          /\ \A r \in tlsFree' : holders'[r] = 0
          /\ holders'[s] = 0
      BY <2>1, <3>2, <3>3 DEF SlotsInv, TypeOK
    <3>5. /\ mid'[t] = [op |-> "free", arg |-> s, seen |-> tlsFree]
          /\ \A u \in Threads \ {t} : mid'[u] = Idle
      BY <2>1, <3>1 DEF TypeOK
    <3> QED BY <2>1, <3>4, <3>5 DEF SlotsInv, Idle
  <2> QED BY <1>1, <2>2, <2>3 DEF ReadBitmap
<1>2. ASSUME NEW t \in Threads, StoreBitmap(t) PROVE SlotsInv'
  <2>1. /\ mid[t].op \in {"alloc", "free"} /\ mid[t].arg \in Slots
        /\ mid[t].seen = tlsFree
        /\ \A u \in Threads \ {t} : mid[u] = Idle
    BY <1>2 DEF StoreBitmap, SlotsInv, TypeOK
  <2>2. \A u \in Threads : mid'[u] = Idle
    BY <1>2, <2>1 DEF StoreBitmap, TypeOK
  <2>3. /\ \A s \in Slots : holders'[s] <= 1
        /\ \A s \in tlsFree' : holders'[s] = 0
    <3>1. CASE mid[t].op = "alloc"
      <4>1. /\ tlsFree' = tlsFree \ {mid[t].arg}
            /\ holders' = [holders EXCEPT ![mid[t].arg] = @ + 1]
            /\ holders[mid[t].arg] = 0
        BY <1>2, <2>1, <3>1 DEF StoreBitmap, SlotsInv
      <4>2. holders' = [holders EXCEPT ![mid[t].arg] = 1]
        BY <2>1, <4>1
      <4> QED BY <2>1, <4>1, <4>2 DEF SlotsInv, TypeOK
    <3>2. CASE mid[t].op = "free"
      <4>1. /\ tlsFree' = tlsFree \union {mid[t].arg} /\ UNCHANGED holders
            /\ holders[mid[t].arg] = 0
        BY <1>2, <2>1, <3>2 DEF StoreBitmap, SlotsInv
      <4> QED BY <4>1 DEF SlotsInv
    <3> QED BY <2>1, <3>1, <3>2
  <2> QED BY <2>2, <2>3 DEF SlotsInv, Idle
<1>3. ASSUME NEW t \in Threads, AlignPhysical(t) \/ TakePhysical(t) PROVE SlotsInv'
  <2>1. UNCHANGED tlsVars
    BY <1>3 DEF AlignPhysical, TakePhysical
  <2>2. \A u \in Threads : mid'[u] = mid[u] \/ mid'[u].op \in {"idle", "physical"}
    BY <1>3 DEF AlignPhysical, TakePhysical, TypeOK, Idle
  <2>3. \A u \in Threads : mid'[u].op \in {"alloc", "free"} => FALSE
    <3>1. CASE AlignPhysical(t)
      BY <2>2, <3>1 DEF AlignPhysical, Enters, Idle
    <3>2. CASE TakePhysical(t)
      BY <2>2, <3>2 DEF TakePhysical, SlotsInv, Idle
    <3> QED BY <1>3, <3>1, <3>2
  <2> QED BY <2>1, <2>3 DEF SlotsInv, tlsVars
<1>4. CASE UNCHANGED <<tlsVars, mid>>
  BY <1>4 DEF SlotsInv, tlsVars
<1>5. ASSUME NEW t \in Threads,
             \/ AllocateAnywhere(t) \/ AllocateInside(t) \/ AllocateAt(t)
             \/ Decommit(t) \/ Release(t) \/ PoolAlloc(t) \/ Write(t)
             \/ CreateGuestThreadContext(t) \/ AllocObject(t)
      PROVE  UNCHANGED <<tlsVars, mid>>
  BY <1>5 DEF AllocateAnywhere, AllocateInside, AllocateAt, Decommit, Release,
              PoolAlloc, Write, CreateGuestThreadContext, AllocObject
<1>6. CASE UNCHANGED vars
  BY <1>4, <1>6 DEF vars
<1> QED BY <1>1, <1>2, <1>3, <1>4, <1>5, <1>6 DEF Next

(* With the run token a TLS slot has one holder, although the bitmap is read  *)
(* and stored in two steps.                                                   *)
THEOREM SlotsCorrect ==
  ASSUME ~Preemptive
  PROVE  Spec => []SlotsHeldOnce
<1>1. Init => SlotsInv
  BY DEF Init, SlotsInv, Idle
<1>2. TypeOK /\ SlotsInv /\ [Next]_vars => SlotsInv'
  BY SlotsStep
<1>3. SlotsInv => SlotsHeldOnce
  BY DEF SlotsInv, SlotsHeldOnce
<1> QED BY <1>1, <1>2, <1>3, TypeCorrect, PTL DEF Spec
-----------------------------------------------------------------------------
(* A free takes away what was asked for and nothing else.  For that a region  *)
(* of virtual memory must be what was handed out: regions do not overlap, a   *)
(* reservation has one of its own size, and each starts on a page.            *)
Apart(r, s) == r + regions[r].size <= s \/ s + regions[s].size <= r
PageStart(r) == \E k \in Nat : r = Page * k
RegionsInv ==
  /\ next["virtual"] <= Top["virtual"]
  /\ \A r \in DOMAIN regions :
       /\ 0 < regions[r].size /\ PageStart(r)
       /\ r + regions[r].size <= next["virtual"] \/ Top["virtual"] <= r
       /\ \A s \in DOMAIN regions \ {r} : Apart(r, s)
  /\ \A b \in blocks : b.kind = "virtual" =>
       b.base \in DOMAIN regions /\ regions[b.base].size = b.size

LEMMA Times ==
  ASSUME NEW p \in Nat, NEW k \in Nat, NEW m \in Nat, k <= m
  PROVE  p * k <= p * m
<1>1. PICK d \in Nat : m = k + d  OBVIOUS
<1>2. p * m = p * k + p * d /\ p * d \in Nat /\ p * k \in Nat  BY <1>1
<1> QED BY <1>2

(* Rounding down to a page does not leave a region that starts on one.        *)
LEMMA RoundsWithin ==
  ASSUME NEW r \in Nat, PageStart(r), NEW addr \in Nat, r <= addr
  PROVE  r <= addr - (addr % Page)
<1>1. PICK k \in Nat : r = Page * k  BY DEF PageStart
<1>2. Page \in Nat \ {0}  BY SizesAssumption
<1>3. PICK m \in Nat : m = addr \div Page  BY <1>2
<1>4. addr = Page * m + (addr % Page) /\ addr % Page \in 0 .. Page - 1  BY <1>2, <1>3
<1>5. Page * (m + 1) = Page * m + Page  BY <1>2
<1>6. CASE k <= m  BY <1>1, <1>2, <1>4, <1>6, Times
<1>7. CASE m + 1 <= k
  <2>1. Page * (m + 1) <= Page * k  BY <1>2, <1>7, Times
  <2>2. Page * m \in Nat /\ Page * k \in Nat  BY <1>2
  <2> QED BY <1>1, <1>2, <1>4, <1>5, <2>1, <2>2
<1> QED BY <1>6, <1>7

(* Where the arena of virtual memory hands out next is the start of a page,   *)
(* and so is the base of a reservation the title chose.                       *)
LEMMA RoundsUpToPage ==
  ASSUME NEW v \in Nat
  PROVE  PageStart(RoundUp(v, Granule))
<1>1. Granule \in Nat \ {0} /\ Page \in Nat \ {0} /\ Granule % Page = 0
  BY SizesAssumption
<1>2. PICK n \in Nat : n = RoundUp(v, Granule)  BY <1>1, RoundedUp
<1>3. PICK c \in Nat : Granule = Page * c
  <2>1. Granule = Page * (Granule \div Page) + (Granule % Page) /\ Granule \div Page \in Nat
    BY <1>1
  <2> QED BY <1>1, <2>1
<1>4. PICK q \in Int : -v = Granule * q + ((-v) % Granule)
  <2>1. -v = Granule * ((-v) \div Granule) + ((-v) % Granule) /\ (-v) \div Granule \in Int
    BY <1>1
  <2> QED BY <2>1
<1>5. PICK k \in Int : k = -q  OBVIOUS
<1>6. n = Granule * k
  <2>1. (-v) % Granule \in Int /\ Granule * q \in Int  BY <1>1
  <2>2. Granule * k = -(Granule * q)  BY <1>1, <1>5
  <2>3. n = v + ((-v) % Granule)  BY <1>2 DEF RoundUp
  <2> QED BY <1>4, <2>1, <2>2, <2>3
<1>7. k \in Nat
  <2> SUFFICES ASSUME k <= -1 PROVE FALSE  OBVIOUS
  <2>1. PICK d \in Nat : k = -1 - d  OBVIOUS
  <2>2. Granule * k = -Granule - Granule * d /\ Granule * d \in Nat  BY <1>1, <2>1
  <2> QED BY <1>1, <1>2, <1>6, <2>2
<1>8. n = Page * (c * k) /\ c * k \in Nat  BY <1>1, <1>3, <1>6, <1>7
<1> QED BY <1>2, <1>8 DEF PageStart

LEMMA RoundsDownToPage ==
  ASSUME NEW v \in Nat
  PROVE  PageStart(v - (v % Page))
<1>1. Page \in Nat \ {0}  BY SizesAssumption
<1>2. v = Page * (v \div Page) + (v % Page) /\ v \div Page \in Nat  BY <1>1
<1>3. v % Page \in Nat /\ Page * (v \div Page) \in Nat  BY <1>1, <1>2
<1> QED BY <1>2, <1>3 DEF PageStart

(* The region that contains an address inside a region is that region.        *)
LEMMA FoundIs ==
  ASSUME TypeOK, RegionsInv, NEW r \in DOMAIN regions, NEW addr \in Nat,
         r <= addr, addr < r + regions[r].size
  PROVE  FindRegion(addr) = {r}
<1>1. \A s \in DOMAIN regions : s \in Nat /\ regions[s].size \in Nat /\ 0 < regions[s].size
  BY DEF TypeOK, Region, RegionsInv
<1>2. \A s \in DOMAIN regions \ {r} : s + regions[s].size <= r \/ r + regions[r].size <= s
  BY DEF RegionsInv, Apart
<1> QED BY <1>1, <1>2 DEF FindRegion

LEMMA Outside ==
  ASSUME TypeOK, RegionsInv, NEW addr \in Nat,
         \A r \in DOMAIN regions : r + regions[r].size <= addr \/ addr < r
  PROVE  FindRegion(addr) = {} /\ addr \notin DOMAIN regions
<1>1. \A s \in DOMAIN regions : s \in Nat /\ regions[s].size \in Nat /\ 0 < regions[s].size
  BY DEF TypeOK, Region, RegionsInv
<1> QED BY <1>1 DEF FindRegion

(* A new region, where nothing was.                                           *)
LEMMA RegionAdded ==
  ASSUME TypeOK, TypeOK', RegionsInv, NEW from \in Nat, NEW size \in Nat, 0 < size, PageStart(from),
         DOMAIN regions' = DOMAIN regions \union {from}, regions'[from].size = size,
         \A r \in DOMAIN regions : r # from => regions'[r] = regions[r],
         \A r \in DOMAIN regions : r + regions[r].size <= from \/ from + size <= r,
         next["virtual"] <= next'["virtual"], next'["virtual"] <= Top["virtual"],
         from + size <= next'["virtual"] \/ Top["virtual"] <= from,
         \A b \in blocks' \ blocks : b.kind = "virtual" => b.base = from /\ b.size = size
  PROVE  RegionsInv'
<1>1. /\ \A s \in DOMAIN regions :
            s \in Nat /\ regions[s].size \in Nat /\ 0 < regions[s].size
      /\ next["virtual"] \in Nat /\ next'["virtual"] \in Nat
  BY DEF TypeOK, Region, RegionsInv, Arenas
<1>2. from \notin DOMAIN regions  BY <1>1
<1>3. \A s \in DOMAIN regions : regions'[s] = regions[s]  BY <1>2
<1>4. ASSUME NEW r \in DOMAIN regions', NEW s \in DOMAIN regions' \ {r}
      PROVE  Apart(r, s)'
  <2>1. CASE r \in DOMAIN regions /\ s \in DOMAIN regions
    BY <1>3, <2>1 DEF RegionsInv, Apart
  <2>2. CASE r = from /\ s \in DOMAIN regions
    BY <1>3, <2>2 DEF Apart
  <2>3. CASE r \in DOMAIN regions /\ s = from
    BY <1>3, <2>3 DEF Apart
  <2> QED BY <2>1, <2>2, <2>3
<1>5. ASSUME NEW r \in DOMAIN regions'
      PROVE  /\ 0 < regions'[r].size /\ PageStart(r)
             /\ r + regions'[r].size <= next'["virtual"] \/ Top["virtual"] <= r
  <2>1. CASE r = from  BY <2>1
  <2>2. CASE r \in DOMAIN regions  BY <1>1, <1>3, <2>2 DEF RegionsInv
  <2> QED BY <2>1, <2>2
<1>6. ASSUME NEW b \in blocks', b.kind = "virtual"
      PROVE  b.base \in DOMAIN regions' /\ regions'[b.base].size = b.size
  <2>1. CASE b \in blocks  BY <1>3, <1>6, <2>1 DEF RegionsInv
  <2>2. CASE b \notin blocks  BY <1>6, <2>2
  <2> QED BY <2>1, <2>2
<1> QED BY <1>4, <1>5, <1>6 DEF RegionsInv, PageStart

(* What keeps the regions and their sizes.                                    *)
LEMMA RegionsStay ==
  ASSUME TypeOK, RegionsInv, DOMAIN regions' = DOMAIN regions,
         \A r \in DOMAIN regions : regions'[r].size = regions[r].size,
         next'["virtual"] = next["virtual"],
         \A b \in blocks' \ blocks : b.kind # "virtual"
  PROVE  RegionsInv'
BY DEF RegionsInv, Apart, PageStart

LEMMA AnywhereRegions ==
  ASSUME TypeOK, TypeOK', RegionsInv, NEW t \in Threads, AllocateAnywhere(t)
  PROVE  RegionsInv'
<1>1. PICK req \in Requests, commit \in BOOLEAN :
        /\ Hand("virtual", Granule, RoundUp(req, Granule), RoundUp(req, Granule))
        /\ regions' = Map(RoundUp(next["virtual"], Granule), RoundUp(req, Granule), commit)
  BY DEF AllocateAnywhere
<1>2. PICK size \in Nat : size = RoundUp(req, Granule) /\ 0 < size
  <2>1. req \in Nat /\ 0 < req  BY SizesAssumption
  <2> QED BY <2>1, RoundedUp, SizesAssumption
<1>3. next["virtual"] \in Nat /\ Top["virtual"] \in Nat /\ "virtual" \in Arenas
  BY ArenasAssumption DEF Arenas, TypeOK
<1>4. PICK from \in Nat : /\ from = RoundUp(next["virtual"], Granule)
                          /\ next["virtual"] <= from /\ PageStart(from)
  BY <1>3, RoundedUp, RoundsUpToPage, SizesAssumption
<1>5. PICK n : n = Block("virtual", from, size)  OBVIOUS
<1>6. n.base = from /\ n.size = size  BY <1>5 DEF Block
<1>7. /\ from + size <= Top["virtual"]
      /\ next' = [next EXCEPT !["virtual"] = from + size]
      /\ blocks' = blocks \union {n}
      /\ regions' = Map(from, size, commit)
  BY <1>1, <1>2, <1>4, <1>5 DEF Hand
<1>8. next'["virtual"] = from + size  BY <1>3, <1>7 DEF TypeOK
<1>9. \A r \in DOMAIN regions : r + regions[r].size <= from \/ from + size <= r
  <2>1. \A r \in DOMAIN regions : r \in Nat /\ regions[r].size \in Nat
    BY DEF TypeOK, Region
  <2> QED BY <1>3, <1>4, <1>7, <2>1 DEF RegionsInv
<1>10. FindRegion(from) = {} /\ from \notin DOMAIN regions
  <2>1. \A r \in DOMAIN regions : r \in Nat /\ regions[r].size \in Nat
    BY DEF TypeOK, Region
  <2> QED BY <1>2, <1>9, <2>1, Outside
<1>11. /\ DOMAIN regions' = DOMAIN regions \union {from} /\ regions'[from].size = size
       /\ \A r \in DOMAIN regions : r # from => regions'[r] = regions[r]
  BY <1>7, <1>10 DEF Map
<1>12. \A b \in blocks' \ blocks : b.base = from /\ b.size = size  BY <1>6, <1>7
<1> QED BY <1>2, <1>3, <1>4, <1>7, <1>8, <1>9, <1>11, <1>12, RegionAdded

LEMMA AtRegions ==
  ASSUME TypeOK, TypeOK', RegionsInv, NEW t \in Threads, AllocateAt(t)
  PROVE  RegionsInv'
<1>1. PICK addr \in ChosenBases, req \in Requests, commit \in BOOLEAN :
        LET r == RangeAt(addr, req, Page) IN
        /\ r[1] >= Top["virtual"]
        /\ \A b \in DOMAIN regions :
             r[1] + r[2] <= b \/ b + regions[b].size <= r[1]
        /\ regions' = Map(r[1], r[2], commit)
        /\ blocks' = blocks \union {Block("virtual", r[1], r[2])}
  BY DEF AllocateAt
<1>2. PICK from \in Nat, size \in Nat : /\ from = RangeAt(addr, req, Page)[1]
                                        /\ size = RangeAt(addr, req, Page)[2]
                                        /\ 0 < size
  <2>1. addr \in Nat /\ req \in Nat /\ 0 < req /\ Page \in Nat \ {0}
    BY SizesAssumption, ModelAssumption
  <2>2. /\ RangeAt(addr, req, Page)[1] \in Nat /\ RangeAt(addr, req, Page)[2] \in Nat
        /\ req <= RangeAt(addr, req, Page)[2]
    BY <2>1, RangeTyped
  <2> QED BY <2>1, <2>2
<1>3. PageStart(from)
  <2>1. from = addr - (addr % Page)  BY <1>2 DEF RangeAt
  <2>2. addr \in Nat  BY ModelAssumption
  <2> QED BY <2>1, <2>2, RoundsDownToPage
<1>4. PICK n : n = Block("virtual", from, size)  OBVIOUS
<1>5. n.base = from /\ n.size = size  BY <1>4 DEF Block
<1>6. /\ Top["virtual"] <= from
      /\ \A r \in DOMAIN regions : r + regions[r].size <= from \/ from + size <= r
      /\ regions' = Map(from, size, commit)
      /\ blocks' = blocks \union {n}
  BY <1>1, <1>2, <1>4, ArenasAssumption DEF Arenas
<1>7. UNCHANGED next /\ next["virtual"] \in Nat
  BY DEF AllocateAt, TypeOK, Arenas
<1>8. FindRegion(from) = {} /\ from \notin DOMAIN regions
  <2>1. \A r \in DOMAIN regions : r \in Nat /\ regions[r].size \in Nat
    BY DEF TypeOK, Region
  <2> QED BY <1>2, <1>6, <2>1, Outside
<1>9. /\ DOMAIN regions' = DOMAIN regions \union {from} /\ regions'[from].size = size
      /\ \A r \in DOMAIN regions : r # from => regions'[r] = regions[r]
  BY <1>6, <1>8 DEF Map
<1>10. \A b \in blocks' \ blocks : b.base = from /\ b.size = size  BY <1>5, <1>6
<1>11. next["virtual"] <= next'["virtual"] /\ next'["virtual"] <= Top["virtual"]
  BY <1>7 DEF RegionsInv
<1> QED BY <1>2, <1>3, <1>6, <1>9, <1>10, <1>11, RegionAdded

LEMMA InsideRegions ==
  ASSUME TypeOK, RegionsInv, NEW t \in Threads, AllocateInside(t)
  PROVE  RegionsInv'
<1>1. PICK b \in blocks, req \in Requests, page \in {Page, Granule} :
      \E addr \in Units(b.base, b.size) :
        LET r == RangeAt(addr, req, page) IN
        /\ b.kind = "virtual"
        /\ b.base <= r[1] /\ r[1] + r[2] <= b.base + b.size
        /\ regions' = Map(r[1], r[2], TRUE)
  BY ZenonT(40) DEF AllocateInside
<1>2. PICK addr \in Units(b.base, b.size) :
        LET r == RangeAt(addr, req, page) IN
        /\ b.kind = "virtual"
        /\ b.base <= r[1] /\ r[1] + r[2] <= b.base + b.size
        /\ regions' = Map(r[1], r[2], TRUE)
  BY <1>1
<1>3. PICK from \in Nat, size \in Nat : /\ from = RangeAt(addr, req, page)[1]
                                        /\ size = RangeAt(addr, req, page)[2]
                                        /\ 0 < size
  <2>1. b.base \in Nat /\ b.size \in Nat  BY DEF TypeOK
  <2>2. addr \in Nat /\ req \in Nat /\ 0 < req /\ page \in Nat \ {0}
    BY <2>1, UnitsTyped, SizesAssumption
  <2>3. /\ RangeAt(addr, req, page)[1] \in Nat /\ RangeAt(addr, req, page)[2] \in Nat
        /\ req <= RangeAt(addr, req, page)[2]
    BY <2>2, RangeTyped
  <2> QED BY <2>2, <2>3
<1>4. /\ b.kind = "virtual" /\ b.base <= from /\ from + size <= b.base + b.size
      /\ regions' = Map(from, size, TRUE)
  BY <1>2, <1>3
<1>5. /\ b.base \in DOMAIN regions /\ regions[b.base].size = b.size
      /\ b.base \in Nat /\ b.size \in Nat
  BY <1>4 DEF RegionsInv, TypeOK
<1>6. FindRegion(from) = {b.base}  BY <1>3, <1>4, <1>5, FoundIs
<1>7. Grown(b.base, from, size) = b.size  BY <1>3, <1>4, <1>5 DEF Grown
<1>8. /\ DOMAIN regions' = DOMAIN regions
      /\ \A r \in DOMAIN regions : regions'[r].size = regions[r].size
  BY <1>4, <1>5, <1>6, <1>7 DEF Map
<1>9. UNCHANGED <<next, blocks>>  BY DEF AllocateInside
<1> QED BY <1>8, <1>9, RegionsStay

LEMMA PoolRegions ==
  ASSUME TypeOK, TypeOK', RegionsInv, NEW t \in Threads, PoolAlloc(t)
  PROVE  RegionsInv'
<1> DEFINE up == RoundUp(next["virtual"], Granule)
           least(size) == RoundUp(IF size > Arena THEN size ELSE Arena, Granule)
<1>1. PICK size \in Requests :
        \/ Carve(up, least(size)) /\ PoolBlock(up, size)
        \/ PoolBlock(poolCur, size) /\ UNCHANGED <<next, regions>>
  BY DEF PoolAlloc
<1>2. /\ "virtual" \in Arenas /\ next["virtual"] \in Nat /\ Top["virtual"] \in Nat
      /\ size \in Nat /\ 0 < size
  BY SizesAssumption, ArenasAssumption DEF Arenas, TypeOK
<1>3. PICK from \in Nat, arena \in Nat :
        /\ from = up /\ arena = least(size)
        /\ next["virtual"] <= from /\ size <= arena /\ PageStart(from)
  <2>1. up \in Nat /\ next["virtual"] <= up /\ PageStart(up)
    BY <1>2, RoundedUp, RoundsUpToPage, SizesAssumption
  <2>2. least(size) \in Nat /\ size <= least(size)
    BY <1>2, RoundedUp, SizesAssumption
  <2> QED BY <2>1, <2>2
<1> HIDE DEF up, least
<1>4. \A b \in blocks' \ blocks : b.kind # "virtual"
  BY <1>1 DEF PoolBlock, Block
<1>5. CASE Carve(from, arena)
  <2>1. /\ from + arena <= Top["virtual"]
        /\ next' = [next EXCEPT !["virtual"] = from + arena]
        /\ DOMAIN regions' = DOMAIN regions \union {from} /\ regions'[from].size = arena
        /\ \A r \in DOMAIN regions : r # from => regions'[r] = regions[r]
    BY <1>5 DEF Carve
  <2>2. next'["virtual"] = from + arena  BY <1>2, <2>1 DEF TypeOK
  <2>3. \A r \in DOMAIN regions : r + regions[r].size <= from \/ from + arena <= r
    <3>1. \A r \in DOMAIN regions : r \in Nat /\ regions[r].size \in Nat
      BY DEF TypeOK, Region
    <3> QED BY <1>2, <1>3, <2>1, <3>1 DEF RegionsInv
  <2>4. next["virtual"] <= next'["virtual"] /\ next'["virtual"] <= Top["virtual"]
        /\ from + arena <= next'["virtual"] /\ 0 < arena
    BY <1>2, <1>3, <2>1, <2>2
  <2> QED BY <1>3, <1>4, <2>1, <2>3, <2>4, RegionAdded
<1>6. CASE UNCHANGED <<next, regions>>  BY <1>4, <1>6, RegionsStay
<1> QED BY <1>1, <1>3, <1>5, <1>6

(* The free of one reservation, or of a part of it.                           *)
LEMMA FreeKeepsRegions ==
  ASSUME TypeOK, NEW t \in Threads, Decommit(t) \/ Release(t)
  PROVE  /\ DOMAIN regions' = DOMAIN regions
         /\ \A r \in DOMAIN regions : regions'[r].size = regions[r].size
<1>1. CASE Decommit(t)
  <2>1. PICK b \in blocks : \E addr \in Units(b.base, b.size) :
        \E req \in Requests \union {0}, rb \in FindRegion(addr) :
          DecommitPages(b, req, addr, rb)
    BY <1>1 DEF Decommit
  <2>2. PICK addr \in Units(b.base, b.size) :
          \E req \in Requests \union {0}, rb \in FindRegion(addr) :
            DecommitPages(b, req, addr, rb)
    BY <2>1
  <2>3. PICK req \in Requests \union {0}, rb \in FindRegion(addr) :
          DecommitPages(b, req, addr, rb)
    BY <2>2
  <2>4. regions' \in {regions, [regions EXCEPT ![rb].committed = FALSE]}
    BY <2>3 DEF DecommitPages
  <2> QED BY <2>4 DEF TypeOK, Region
<1>2. CASE Release(t)
  <2>1. PICK rb : regions' = [regions EXCEPT ![rb].reserved = FALSE,
                                             ![rb].committed = FALSE]
    BY <1>2 DEF Release
  <2> QED BY <2>1 DEF TypeOK, Region
<1> QED BY <1>1, <1>2

LEMMA OtherRegions ==
  ASSUME TypeOK, RegionsInv, NEW t \in Threads,
         \/ Decommit(t) \/ Release(t) \/ Write(t) \/ AlignPhysical(t) \/ TakePhysical(t)
         \/ CreateGuestThreadContext(t) \/ AllocObject(t) \/ ReadBitmap(t) \/ StoreBitmap(t)
  PROVE  RegionsInv'
<1>1. next'["virtual"] = next["virtual"] /\ \A b \in blocks' \ blocks : b.kind # "virtual"
  <2>0. next \in [Arenas -> Nat]  BY DEF TypeOK
  <2>1. CASE UNCHANGED next /\ blocks' \subseteq blocks  BY <2>1
  <2>2. CASE AlignPhysical(t)  BY <2>0, <2>2 DEF AlignPhysical
  <2>3. CASE TakePhysical(t)  BY <2>0, <2>3 DEF TakePhysical, Block
  <2>4. CASE CreateGuestThreadContext(t)
    <3>1. next'["virtual"] = next["virtual"]
      <4>1. PICK n : next' = [next EXCEPT !["thread"] = @ + 3 * Page,
                                          !["stack"] = @ + n + Gap]
        BY <2>4 DEF CreateGuestThreadContext
      <4> QED BY <2>0, <4>1 DEF Arenas
    <3>2. \A b \in blocks' \ blocks : b.kind \in {"thread", "stack"}
      BY <2>4 DEF CreateGuestThreadContext, Block
    <3> QED BY <3>1, <3>2
  <2>5. CASE AllocObject(t)  BY <2>0, <2>5 DEF AllocObject, Hand, Block
  <2>6. CASE Decommit(t) \/ Release(t) \/ Write(t) \/ ReadBitmap(t) \/ StoreBitmap(t)
    BY <2>1, <2>6 DEF Decommit, Release, Write, ReadBitmap, StoreBitmap
  <2> QED BY <2>2, <2>3, <2>4, <2>5, <2>6
<1>3. CASE Decommit(t) \/ Release(t)
  BY <1>1, <1>3, FreeKeepsRegions, RegionsStay
<1>4. CASE UNCHANGED regions
  BY <1>1, <1>4, RegionsStay
<1> QED
  BY <1>3, <1>4 DEF Write, AlignPhysical, TakePhysical, CreateGuestThreadContext, AllocObject,
     ReadBitmap, StoreBitmap, virtVars

LEMMA RegionsStep == TypeOK /\ TypeOK' /\ RegionsInv /\ [Next]_vars => RegionsInv'
<1> SUFFICES ASSUME TypeOK, TypeOK', RegionsInv, [Next]_vars PROVE RegionsInv'
  OBVIOUS
<1>1. CASE UNCHANGED vars
  BY <1>1, RegionsStay DEF vars, virtVars
<1> QED
  BY <1>1, AnywhereRegions, AtRegions, InsideRegions, PoolRegions, OtherRegions DEF Next

(* What a free takes away.                                                    *)
Exactly == (live \ live') \union (dirty \ dirty') \subseteq asked'

LEMMA DecommitTakes ==
  ASSUME TypeOK, RegionsInv, NEW t \in Threads, Decommit(t)
  PROVE  Exactly
<1>1. PICK b \in blocks : \E addr \in Units(b.base, b.size) :
      \E req \in Requests \union {0}, rb \in FindRegion(addr) :
        DecommitPages(b, req, addr, rb)
  BY DEF Decommit
<1>2. PICK addr \in Units(b.base, b.size) :
        \E req \in Requests \union {0}, rb \in FindRegion(addr) :
          DecommitPages(b, req, addr, rb)
  BY <1>1
<1>3. PICK req \in Requests \union {0}, rb \in FindRegion(addr) :
        DecommitPages(b, req, addr, rb)
  BY <1>2
<1>4. /\ b.base \in DOMAIN regions /\ regions[b.base].size = b.size
      /\ b.base \in Nat /\ b.size \in Nat /\ PageStart(b.base)
      /\ addr + req <= b.base + b.size
  BY <1>3 DEF RegionsInv, TypeOK, DecommitPages
<1>5. /\ addr \in Nat /\ b.base <= addr /\ addr < b.base + b.size
      /\ req \in Nat /\ Page \in Nat \ {0}
  BY <1>4, SizesAssumption DEF Units
<1>6. rb = b.base  BY <1>3, <1>4, <1>5, FoundIs
<1>7. PICK aligned \in Nat : /\ aligned = addr - (addr % Page)
                             /\ b.base <= aligned /\ aligned <= addr
  BY <1>4, <1>5, RoundsWithin, RoundedDown
<1>8. PICK to \in Nat : to = IF req = 0 THEN b.base + b.size ELSE addr + req
  BY <1>4, <1>5
<1>9. PICK pages \in Nat : pages = RoundUp(to - aligned, Page) /\ to - aligned <= pages
  <2>1. to - aligned \in Nat  BY <1>4, <1>5, <1>7, <1>8
  <2> QED BY <1>5, <2>1, RoundedUp
<1>10. PagesOf(b, addr, req) = Units(aligned, pages)
  BY <1>7, <1>8, <1>9 DEF PagesOf
<1>11. PICK from, size : from = Decommitted(rb, addr, req)[1] /\ size = Decommitted(rb, addr, req)[2]
  OBVIOUS
<1>12. from = aligned /\ size \in Int /\ size <= pages
  <2>1. PICK wanted \in Nat :
          wanted = IF req = 0 THEN b.base + b.size - aligned
                   ELSE RoundUp((addr - aligned) + req, Page)
    <3>1. b.base + b.size - aligned \in Nat /\ (addr - aligned) + req \in Nat
      BY <1>4, <1>5, <1>7
    <3> QED BY <1>5, <3>1, RoundedUp
  <2>2. wanted <= pages
    <3>1. CASE req = 0
      <4>1. wanted = b.base + b.size - aligned /\ to = b.base + b.size
        BY <1>8, <2>1, <3>1
      <4> QED BY <1>4, <1>9, <4>1
    <3>2. CASE req # 0
      <4>1. (addr - aligned) + req = to - aligned  BY <1>5, <1>7, <1>8, <3>2
      <4> QED BY <1>9, <2>1, <3>2, <4>1
    <3> QED BY <3>1, <3>2
  <2>3. Decommitted(rb, addr, req) =
          <<aligned, IF aligned + wanted > b.base + b.size
                     THEN b.base + b.size - aligned ELSE wanted>>
    BY <1>4, <1>6, <1>7, <2>1 DEF Decommitted
  <2>4. from = aligned /\ size = IF aligned + wanted > b.base + b.size
                                 THEN b.base + b.size - aligned ELSE wanted
    BY <1>11, <2>3
  <2> QED BY <1>4, <1>5, <1>7, <2>1, <2>2, <2>4
<1>13. Units(from, size) \subseteq Units(aligned, pages)
  BY <1>12 DEF Units
<1>14. /\ dirty' = dirty \ Units(from, size) /\ live' = live \ Units(from, size)
       /\ asked' = PagesOf(b, addr, req)
  BY <1>3, <1>11 DEF DecommitPages, Zeroed
<1> QED BY <1>10, <1>13, <1>14 DEF Exactly

LEMMA ReleaseTakes ==
  ASSUME TypeOK, RegionsInv, NEW t \in Threads, Release(t)
  PROVE  Exactly
<1>0. PICK b \in blocks : \E rb \in FindRegion(b.base) :
        /\ b.kind = "virtual"
        /\ dirty' = Zeroed(rb, regions[rb].size)
        /\ live' = live \ Units(rb, regions[rb].size)
        /\ asked' = Units(b.base, b.size)
  BY DEF Release
<1>1. PICK rb \in FindRegion(b.base) :
        /\ b.kind = "virtual"
        /\ dirty' = Zeroed(rb, regions[rb].size)
        /\ live' = live \ Units(rb, regions[rb].size)
        /\ asked' = Units(b.base, b.size)
  BY <1>0
<1>2. /\ b.base \in DOMAIN regions /\ regions[b.base].size = b.size
      /\ b.base \in Nat /\ b.size \in Nat /\ 0 < b.size
  BY <1>1 DEF RegionsInv, TypeOK
<1>3. rb = b.base  BY <1>2, FoundIs
<1> QED BY <1>1, <1>2, <1>3 DEF Zeroed, Exactly

(* A free takes away the pages it was asked for and no others, whatever was   *)
(* reserved, committed and freed before, and under every scheduling.          *)
THEOREM DecommitCorrect == Spec => DecommitIsExact
<1>1. Init => RegionsInv
  BY ArenasAssumption DEF Init, RegionsInv, Arenas
<1>2. TypeOK /\ RegionsInv /\ [Next]_vars
      => [(live \ live') \union (dirty \ dirty') \subseteq asked']_vars
  <2> SUFFICES ASSUME TypeOK, RegionsInv, Next PROVE Exactly
    BY DEF Exactly
  <2>1. ASSUME NEW t \in Threads,
               \/ AllocateAnywhere(t) \/ AllocateInside(t) \/ AllocateAt(t)
               \/ PoolAlloc(t) \/ AlignPhysical(t) \/ TakePhysical(t)
               \/ CreateGuestThreadContext(t) \/ AllocObject(t)
               \/ ReadBitmap(t) \/ StoreBitmap(t) \/ Write(t)
        PROVE  Exactly
    <3>1. dirty \subseteq dirty' /\ live \subseteq live'
      BY <2>1 DEF AllocateAnywhere, AllocateInside, AllocateAt, PoolAlloc, PoolBlock,
                  AlignPhysical, TakePhysical, CreateGuestThreadContext,
                  AllocObject, ReadBitmap, StoreBitmap, Write, virtVars
    <3> QED BY <3>1 DEF Exactly
  <2> QED BY <2>1, DecommitTakes, ReleaseTakes DEF Next
<1> QED BY <1>1, <1>2, RegionsStep, TypeCorrect, PTL DEF Spec, DecommitIsExact
=============================================================================
