----------------------------- MODULE GuestMemory -----------------------------
(***************************************************************************)
(* Guest memory of the from-scratch runtime (kernel.cpp): virtual memory   *)
(* (NtAllocate/NtFreeVirtualMemory over g_regions), the kernel pool carved *)
(* from it, physical blocks, the arenas of thread contexts, stacks and     *)
(* dispatch objects, and the bitmap of TLS slots, with the title's heap,   *)
(* which believes what the calls write back.                               *)
(*                                                                         *)
(* Addresses and sizes count the unit of the pool (16 bytes).  No arena    *)
(* gives addresses back, so each is a pointer that only moves up; Top      *)
(* bounds it where the next arena begins.                                  *)
(***************************************************************************)
EXTENDS Integers

CONSTANTS Threads,
          Preemptive,     \* REX_NOTOKEN: no run token keeps the calls apart
          Page, Granule,  \* 4 KiB, and 64 KiB, also the large page
          Arena,          \* 8 MiB, the least the pool carves
          Gap,            \* 64 KiB between two stacks
          Base, Top,      \* where an arena begins, and may not go beyond
          Requests,       \* sizes and alignments asked for
          ChosenBases,    \* addresses the title reserves by itself
          Slots,          \* TLS slots
          MaxCalls        \* model bound on the calls that hand out memory

Arenas == {"virtual", "physical", "thread", "stack", "object"}

ASSUME SizesAssumption ==
  /\ Page \in Nat \ {0} /\ Granule \in Nat \ {0} /\ Arena \in Nat \ {0}
  /\ Gap \in Nat /\ Requests \subseteq Nat \ {0}
  /\ Granule % Page = 0
ASSUME ArenasAssumption ==
  /\ Base \in [Arenas -> Nat \ {0}] /\ Top \in [Arenas -> Nat]
  /\ \A a \in Arenas : Base[a] <= Top[a]
  /\ \A a, b \in Arenas : a # b => Top[a] <= Base[b] \/ Top[b] <= Base[a]
ASSUME ModelAssumption ==
  /\ Slots \subseteq Nat /\ MaxCalls \in Nat /\ Preemptive \in BOOLEAN
  /\ ChosenBases \subseteq Nat

VARIABLES
  regions,          \* g_regions: base -> size, reserved, committed
  next,             \* g_virtNext, g_physNext, g_threadArenaNext, ...
  poolCur, poolEnd, \* g_poolCur, g_poolEnd
  blocks,           \* the blocks handed out and not released
  live,             \* the units the title's heap takes for committed
  dirty,            \* the units that do not read as zero
  asked,            \* the pages the last free asked for
  calls,            \* calls that handed out memory so far
  tlsFree,          \* the bitmap of the process: the free slots
  holders,          \* slot -> how many callers hold it
  mid               \* what a thread inside an unlocked call has read

virtVars == <<regions, poolCur, poolEnd, live, dirty>>
tlsVars  == <<tlsFree, holders>>
vars == <<virtVars, next, blocks, asked, calls, tlsVars, mid>>

RoundUp(v, a) == v + ((-v) % a)
Units(from, size) == from .. (from + size - 1)
Block(kind, from, size) ==
  [kind |-> kind, base |-> from, size |-> size, nr |-> calls + 1]

Idle == [op |-> "idle", arg |-> 0, seen |-> {}]

Init ==
  /\ regions = [b \in {} |-> 0]
  /\ next = Base
  /\ poolCur = 0 /\ poolEnd = 0
  /\ blocks = {} /\ live = {} /\ dirty = {} /\ asked = {}
  /\ calls = 0
  /\ tlsFree = Slots
  /\ holders = [s \in Slots |-> 0]
  /\ mid = [t \in Threads |-> Idle]

\* Mutation: another guest thread may run in the middle of a call.
Enters_Preempted(t) == mid[t] = Idle

\* With the run token a call is not interrupted by another guest thread.
Enters(t) == /\ mid[t] = Idle
             /\ Preemptive \/ \A u \in Threads : mid[u] = Idle

-----------------------------------------------------------------------------
(* The region that contains an address: {its base}, or {}.                  *)
FindRegion(addr) ==
  {b \in DOMAIN regions : /\ b <= addr /\ addr < b + regions[b].size
                          /\ \A c \in DOMAIN regions : c <= b \/ c > addr}

(* A new region, or the grow/recommit of the one found.                     *)
Grown(b, gbase, size) ==
  IF gbase + size > b + regions[b].size THEN (gbase - b) + size
                                        ELSE regions[b].size
Map(gbase, size, commit) ==
  IF FindRegion(gbase) = {}
  THEN [b \in DOMAIN regions \union {gbase} |->
         IF b = gbase
         THEN [size |-> size, reserved |-> TRUE, committed |-> commit]
         ELSE regions[b]]
  ELSE [b \in DOMAIN regions |->
         IF b \in FindRegion(gbase)
         THEN [size |-> Grown(b, gbase, size), reserved |-> TRUE,
               committed |-> regions[b].committed \/ commit]
         ELSE regions[b]]

\* A block from an arena, at its pointer rounded to align; MODEL BOUNDs: the
\* arena's Top, MaxCalls.
Hand(arena, align, size, used) ==
  LET from == RoundUp(next[arena], align) IN
  /\ calls < MaxCalls /\ from + used <= Top[arena]
  /\ next' = [next EXCEPT ![arena] = from + used]
  /\ blocks' = blocks \union {Block(arena, from, size)}
  /\ calls' = calls + 1

\* NtAllocateVirtualMemory, *BaseAddress = 0: the kernel chooses.
AllocateAnywhere(t) ==
  /\ Enters(t)
  /\ \E req \in Requests, commit \in BOOLEAN :
       LET gbase == RoundUp(next["virtual"], Granule)
           size  == RoundUp(req, Granule)
       IN /\ Hand("virtual", Granule, size, size)
          /\ regions' = Map(gbase, size, commit)
          /\ live' = IF commit THEN live \union Units(gbase, size) ELSE live
  /\ asked' = {}
  /\ UNCHANGED <<poolCur, poolEnd, dirty, tlsVars, mid>>

\* NtAllocateVirtualMemory at an address: a commit inside a block of the
\* caller, or a reservation at a chosen base that touches no region.
RangeAt(addr, req, page) ==
  LET gbase == addr - (addr % page)
  IN <<gbase, RoundUp(req + (addr - gbase), page)>>
AllocateInside(t) ==
  /\ Enters(t)
  /\ \E b \in blocks, req \in Requests, page \in {Page, Granule} :
     \E addr \in Units(b.base, b.size) :
       LET r == RangeAt(addr, req, page) IN
       /\ b.kind = "virtual"
       /\ b.base <= r[1] /\ r[1] + r[2] <= b.base + b.size
       /\ regions' = Map(r[1], r[2], TRUE)
       /\ live' = live \union Units(r[1], r[2])
  /\ asked' = {}
  /\ UNCHANGED <<next, poolCur, poolEnd, blocks, dirty, calls, tlsVars, mid>>
AllocateAt(t) ==
  /\ Enters(t)
  /\ calls < MaxCalls
  /\ \E addr \in ChosenBases, req \in Requests, commit \in BOOLEAN :
       LET r == RangeAt(addr, req, Page) IN
       /\ r[1] >= Top["virtual"]
       /\ \A a \in Arenas \ {"virtual"} : r[1] + r[2] <= Base[a]
       /\ \A b \in DOMAIN regions :
            r[1] + r[2] <= b \/ b + regions[b].size <= r[1]
       /\ regions' = Map(r[1], r[2], commit)
       /\ blocks' = blocks \union {Block("virtual", r[1], r[2])}
       /\ live' = IF commit THEN live \union Units(r[1], r[2]) ELSE live
  /\ calls' = calls + 1
  /\ asked' = {}
  /\ UNCHANGED <<next, poolCur, poolEnd, dirty, tlsVars, mid>>

\* Mutation: the write-back of the whole reservation, as it was once.
Decommitted_Whole(rb, gbase, req) == <<rb, regions[rb].size>>

\* NtFreeVirtualMemory(MEM_DECOMMIT): the page-aligned part asked for, size 0
\* to the end of the region, clamped to the region; what is written back is
\* what the title's heap takes for gone.
Decommitted(rb, gbase, req) ==
  LET size    == regions[rb].size
      aligned == gbase - (gbase % Page)
      wanted  == IF req = 0 THEN rb + size - aligned
                 ELSE RoundUp((gbase - aligned) + req, Page)
      from    == IF aligned < rb THEN rb ELSE aligned
  IN <<from, IF from + wanted > rb + size THEN rb + size - from ELSE wanted>>

\* Mutation: the freed pages keep their contents.
Zeroed_Not(from, size) == dirty

\* The memset of what is freed: a later commit must read zeros.
Zeroed(from, size) == dirty \ Units(from, size)

PagesOf(b, addr, req) ==
  LET to == IF req = 0 THEN b.base + b.size ELSE addr + req
  IN Units(addr - (addr % Page), RoundUp(to - (addr - (addr % Page)), Page))

DecommitPages(b, req, addr, rb) ==
  LET out == Decommitted(rb, addr, req) IN
  /\ b.kind = "virtual" /\ addr + req <= b.base + b.size
  /\ regions' = IF out[1] = rb /\ out[2] >= regions[rb].size
                THEN [regions EXCEPT ![rb].committed = FALSE]
                ELSE regions
  /\ dirty' = Zeroed(out[1], out[2])
  /\ live' = live \ Units(out[1], out[2])
  /\ asked' = PagesOf(b, addr, req)
Decommit(t) ==
  /\ Enters(t)
  /\ \E b \in blocks : \E addr \in Units(b.base, b.size) :
     \E req \in Requests \union {0}, rb \in FindRegion(addr) :
       DecommitPages(b, req, addr, rb)
  /\ UNCHANGED <<next, poolCur, poolEnd, blocks, calls, tlsVars, mid>>

\* NtFreeVirtualMemory(MEM_RELEASE): the whole reservation; the region stays
\* in the map, neither reserved nor committed.
Release(t) ==
  /\ Enters(t)
  /\ \E b \in blocks : \E rb \in FindRegion(b.base) :
       /\ b.kind = "virtual"
       /\ regions' = [regions EXCEPT ![rb].reserved = FALSE,
                                     ![rb].committed = FALSE]
       /\ dirty' = Zeroed(rb, regions[rb].size)
       /\ live' = live \ Units(rb, regions[rb].size)
       /\ blocks' = blocks \ {b}
       /\ asked' = Units(b.base, b.size)
  /\ UNCHANGED <<next, poolCur, poolEnd, calls, tlsVars, mid>>

\* Mutation: the pool never carves a second arena.
NeedsArena_Once(size) == poolCur = 0

\* The next block does not fit in the pool's arena.
NeedsArena(size) == poolCur = 0 \/ poolCur + size > poolEnd

\* PoolAlloc: from the current arena, or from a new one; what is left of the
\* old arena is never used.  ExFreePool does nothing.
Carve(from, arena) ==
  /\ from + arena <= Top["virtual"]
  /\ poolEnd' = from + arena
  /\ next' = [next EXCEPT !["virtual"] = from + arena]
  /\ regions' = [b \in DOMAIN regions \union {from} |->
       IF b = from THEN [size |-> arena, reserved |-> TRUE, committed |-> TRUE]
                   ELSE regions[b]]
PoolBlock(p, size) ==
  /\ poolCur' = p + size
  /\ blocks' = blocks \union {Block("pool", p, size)}
  /\ live' = live \union Units(p, size)
PoolAlloc(t) ==
  /\ Enters(t)
  /\ calls < MaxCalls
  /\ \E size \in Requests :
       LET from  == RoundUp(next["virtual"], Granule)
           arena == RoundUp(IF size > Arena THEN size ELSE Arena, Granule)
       IN \/ /\ NeedsArena(size)
             /\ Carve(from, arena) /\ PoolBlock(from, size)
          \/ /\ ~NeedsArena(size)
             /\ PoolBlock(poolCur, size) /\ UNCHANGED <<poolEnd, next, regions>>
  /\ calls' = calls + 1
  /\ asked' = {}
  /\ UNCHANGED <<dirty, tlsVars, mid>>

\* The title fills what it takes for committed in one of its blocks.
Write(t) ==
  /\ Enters(t)
  /\ \E b \in blocks : dirty' = dirty \union (Units(b.base, b.size) \intersect live)
  /\ asked' = {}
  /\ UNCHANGED <<regions, next, poolCur, poolEnd, blocks, live, calls, tlsVars, mid>>

-----------------------------------------------------------------------------
(* MmAllocatePhysicalMemoryEx bumps g_physNext under no lock.               *)
AlignPhysical(t) ==
  /\ Enters(t)
  /\ calls < MaxCalls
  /\ \E req \in Requests, align \in Requests, page \in {Page, Granule} :
       LET a    == IF align < page THEN page ELSE RoundUp(align, page)
           from == RoundUp(next["physical"], a)
           size == RoundUp(req, page)
       IN /\ from + size <= Top["physical"]
          /\ next' = [next EXCEPT !["physical"] = from]
          /\ mid' = [mid EXCEPT ![t] = [op |-> "physical", arg |-> size,
                                        seen |-> {from}]]
  /\ asked' = {}
  /\ UNCHANGED <<virtVars, blocks, calls, tlsVars>>
TakePhysical(t) ==
  /\ mid[t].op = "physical"
  /\ next' = [next EXCEPT !["physical"] = @ + mid[t].arg]
  /\ \E from \in mid[t].seen :
       /\ blocks' = blocks \union {Block("physical", from, mid[t].arg)}
       /\ live' = live \union Units(from, mid[t].arg)
  /\ calls' = calls + 1
  /\ mid' = [mid EXCEPT ![t] = Idle]
  /\ UNCHANGED <<regions, poolCur, poolEnd, dirty, asked, tlsVars>>

\* CreateGuestThreadContext under g_threadMutex: KTHREAD, KPCR and TLS in one
\* arena, a stack and its guard gap in another; none is ever given back.
CreateGuestThreadContext(t) ==
  /\ Enters(t)
  /\ calls < MaxCalls
  /\ \E req \in Requests :
       LET size == RoundUp(req, Granule) IN
       /\ next["thread"] + 3 * Page <= Top["thread"]
       /\ next["stack"] + size + Gap <= Top["stack"]
       /\ next' = [next EXCEPT !["thread"] = @ + 3 * Page,
                               !["stack"] = @ + size + Gap]
       /\ blocks' = blocks \union {Block("thread", next["thread"], 3 * Page),
                                   Block("stack", next["stack"], size)}
  /\ calls' = calls + 1
  /\ asked' = {}
  /\ UNCHANGED <<virtVars, tlsVars, mid>>

\* AllocObject, under g_handleMutex at each of its callers.
AllocObject(t) ==
  /\ Enters(t)
  /\ Hand("object", 1, 2, 2)
  /\ asked' = {}
  /\ UNCHANGED <<virtVars, tlsVars, mid>>

-----------------------------------------------------------------------------
(* KeTlsAlloc and KeTlsFree read the bitmap and store it, under no lock.    *)
ReadBitmap(t) ==
  /\ Enters(t)
  /\ \/ \E s \in tlsFree :
          /\ \A u \in tlsFree : s <= u
          /\ mid' = [mid EXCEPT ![t] = [op |-> "alloc", arg |-> s, seen |-> tlsFree]]
          /\ UNCHANGED holders
     \/ \E s \in Slots :
          /\ holders[s] > 0
          /\ mid' = [mid EXCEPT ![t] = [op |-> "free", arg |-> s, seen |-> tlsFree]]
          /\ holders' = [holders EXCEPT ![s] = @ - 1]
  /\ asked' = {}
  /\ UNCHANGED <<virtVars, next, blocks, calls, tlsFree>>
StoreBitmap(t) ==
  /\ \/ /\ mid[t].op = "alloc"
        /\ tlsFree' = mid[t].seen \ {mid[t].arg}
        /\ holders' = [holders EXCEPT ![mid[t].arg] = @ + 1]
     \/ /\ mid[t].op = "free"
        /\ tlsFree' = mid[t].seen \union {mid[t].arg}
        /\ UNCHANGED holders
  /\ mid' = [mid EXCEPT ![t] = Idle]
  /\ UNCHANGED <<virtVars, next, blocks, asked, calls>>

Next == \E t \in Threads :
  \/ AllocateAnywhere(t) \/ AllocateInside(t) \/ AllocateAt(t)
  \/ Decommit(t) \/ Release(t) \/ PoolAlloc(t) \/ Write(t)
  \/ AlignPhysical(t) \/ TakePhysical(t)
  \/ CreateGuestThreadContext(t) \/ AllocObject(t)
  \/ ReadBitmap(t) \/ StoreBitmap(t)

Spec == Init /\ [][Next]_vars

-----------------------------------------------------------------------------
Region == [size : Nat, reserved : BOOLEAN, committed : BOOLEAN]

(* Type correctness: g_regions, the arenas' pointers and the TLS bitmap     *)
(* keep their types, and no arena's pointer goes back.                      *)
TypeOK ==
  /\ DOMAIN regions \subseteq Nat /\ regions \in [DOMAIN regions -> Region]
  /\ next \in [Arenas -> Nat]
  /\ \A a \in Arenas : Base[a] <= next[a]
  /\ poolCur \in Nat /\ poolEnd \in Nat /\ calls \in Nat
  /\ blocks \subseteq [kind : Arenas \union {"pool"}, base : Nat, size : Nat,
                       nr : Nat]
  /\ live \subseteq Nat /\ dirty \subseteq Nat /\ asked \subseteq Nat
  /\ tlsFree \subseteq Slots
  /\ holders \in [Slots -> Nat]
  /\ mid \in [Threads -> [op : {"idle", "physical", "alloc", "free"},
                          arg : Nat, seen : SUBSET Nat]]
  /\ \A t \in Threads : mid[t].op \in {"alloc", "free"} =>
       mid[t].seen \subseteq Slots /\ mid[t].arg \in Slots

Disjoint(b, c) == b.base + b.size <= c.base \/ c.base + c.size <= b.base

(* Memory is handed out once: a reservation, a pool block, a physical       *)
(* block, a thread's context, a stack and an object never overlap, whatever *)
(* mix of calls made them (the comment at g_regions: "kept                  *)
(* non-overlapping"; every allocator here is a pointer of its own).         *)
BlocksDisjoint == \A b, c \in blocks : b # c => Disjoint(b, c)

(* What NtFreeVirtualMemory zeroes and reports is within the pages asked    *)
(* for: writing back the whole region made the title's heap start over and  *)
(* overwrite the live device.                                               *)
DecommitIsExact ==
  [][(live \ live') \union (dirty \ dirty') \subseteq asked']_vars

(* "A later MEM_COMMIT of the same VA returns ZEROED pages", and a fresh    *)
(* block of any allocator is zero: nothing outside the committed memory     *)
(* holds data.                                                              *)
FreedReadsAsZero == dirty \subseteq live

(* A TLS slot has one holder, although KeTlsAlloc and KeTlsFree read and    *)
(* store the bitmap in two steps: the run token keeps them apart.           *)
SlotsHeldOnce == \A s \in Slots : holders[s] <= 1
=============================================================================
