-------------------------- MODULE FrameCompositor ---------------------------
(***************************************************************************)
(* What the title shows, from its calls to the screen: the text it draws   *)
(* (SetTexture, then a vertex buffer fill, both hooked in kernel.cpp), the *)
(* quads carved from its command buffers at VdSwap, and the movie its      *)
(* decoder writes, together with the render thread that shows them.        *)
(*                                                                         *)
(* The title draws the first n glyphs of a label, and again when it has    *)
(* grown.  An atlas holds the glyphs of one label at a time, tiled in one  *)
(* of the shapes in Surfaces.                                              *)
(***************************************************************************)
EXTENDS RenderThread, TextureDecode

CONSTANTS Threads,   \* guest threads that draw text
          Bases,     \* glyph atlases, by address
          Labels,
          FirstUV,   \* where the first glyph of a label is in the atlas
          Glyphs,    \* how many glyphs of a label are drawn
          Menu,      \* glyph counts of a label of the menu, 3 .. 20
          Carved,    \* the sizes in which quads are carved
          MaxFrames, \* model bound: the frames of the movie
          None,
          Pace,      \* samples between two frames of the movie, at least
          Stall      \* samples while one is written over another, at most

ASSUME CompositorAssumption ==
  /\ FirstUV \in [Labels -> Nat]
  /\ Glyphs \subseteq Nat /\ Menu \subseteq Nat /\ Carved \subseteq Nat
  /\ {MaxFrames, Pace, Stall} \subseteq Nat /\ Stall <= Pace
  /\ None \notin Threads \union Bases \union Labels

VARIABLES
  atlas,   \* the label whose glyphs an atlas holds
  cache,   \* g_decCache: the glyphs an atlas was last decoded to
  drawing, \* per thread: the step of the text routine, its atlas and label
  bound,   \* g_lastTexBase, thread-local
  seen,    \* seenLbl
  kept,    \* rl: what is composed into the menu frame
  swap,    \* the step of VdSwap, s_carvedLatch with the size of s_cacheTex
  decoder  \* the frame it writes, where, and the samples since it began or ended

guestVars == <<atlas, cache, drawing, bound, seen, kept, swap, decoder>>
vars == <<renderVars, guestVars>>

Idle == [at |-> "idle", base |-> None, label |-> None, n |-> 0, glyphs |-> None]

Init ==
  /\ InitRender
  /\ atlas = [b \in Bases |-> None] /\ cache = [b \in Bases |-> None]
  /\ drawing = [t \in Threads |-> Idle]
  /\ bound = [t \in Threads |-> None]
  /\ seen = {} /\ kept = {}
  /\ swap = [at |-> "idle", n |-> 0, cached |-> 0]
  /\ decoder = [frame |-> 0, slot |-> 1, half |-> FALSE, slots |-> 0,
                since |-> Pace]

-----------------------------------------------------------------------------
(* Text.                                                                    *)

\* The title puts the glyphs of a label into an atlas nobody draws from.
FillAtlas(t, b, l) ==
  /\ mode = "recon" /\ drawing[t].at = "idle"
  /\ \A u \in Threads : drawing[u].at \in {"filled", "bound"} =>
                          drawing[u].base # b
  /\ atlas' = [atlas EXCEPT ![b] = l]
  /\ drawing' = [drawing EXCEPT ![t].at = "filled", ![t].base = b, ![t].label = l]
  /\ UNCHANGED <<renderVars, cache, bound, seen, kept, swap, decoder>>

\* sub_821BEC00.
SetTexture(t) ==
  /\ drawing[t].at = "filled"
  /\ drawing' = [drawing EXCEPT ![t].at = "bound"]
  /\ bound' = [bound EXCEPT ![t] = drawing[t].base]
  /\ UNCHANGED <<renderVars, atlas, cache, seen, kept, swap, decoder>>

\* Mutation: an atlas that was decoded before is not decoded again.
DecodeByBase_Cached(b) == IF cache[b] = None THEN atlas[b] ELSE cache[b]

DecodeByBase(b) == atlas[b]

\* The fill of the vertex buffer, in sub_8242BF10.  A draw is new once per
\* count and first uv; a small, dim or many-lined one is not kept.
DrawText(t, n) ==
  LET d     == drawing[t]
      key   == <<n, FirstUV[d.label]>>
  IN
  /\ d.at = "bound"
  /\ cache' = [cache EXCEPT ![bound[t]] = DecodeByBase(bound[t])]
  /\ seen' = seen \union {key}
  /\ \/ /\ key \notin seen /\ n \in Menu
        /\ drawing' = [drawing EXCEPT ![t].at = "compose", ![t].n = n,
                                      ![t].glyphs = cache'[bound[t]]]
     \/ drawing' = [drawing EXCEPT ![t] = Idle]
  /\ UNCHANGED <<renderVars, atlas, bound, kept, swap, decoder>>

Fuller(new, old) == new.n > old.n

\* One label is one atlas and the same first glyphs.
Compose(t) ==
  LET d    == drawing[t]
      new  == [base |-> bound[t], label |-> d.label, n |-> d.n,
               glyphs |-> d.glyphs]
      same == {k \in kept : k.base = new.base /\ k.label = new.label}
      changed == \A k \in same : Fuller(new, k)
  IN
  /\ d.at = "compose" /\ \A u \in Threads : drawing[u].at # "publish"
  /\ kept' = IF changed THEN (kept \ same) \union {new} ELSE kept
  /\ drawing' = [drawing EXCEPT ![t] = IF changed THEN [@ EXCEPT !.at = "publish"]
                                      ELSE Idle]
  /\ UNCHANGED <<renderVars, atlas, cache, bound, seen, swap, decoder>>

\* SetReconMenuFrame, inside krm: it waits while the last frame is uploaded.
LockMenuFrame(t) ==
  /\ drawing[t].at = "publish" /\ LockFrame /\ UNCHANGED guestVars

PublishMenuFrame(t) ==
  /\ drawing[t].at = "publish" /\ AssignFrame(kept)
  /\ drawing' = [drawing EXCEPT ![t] = Idle]
  /\ UNCHANGED <<atlas, cache, bound, seen, kept, swap, decoder>>

-----------------------------------------------------------------------------
(* The font atlas of the title, the movie decoder, and VdSwap.              *)

\* The title renders glyphs in bursts.
AtlasGrows(n) ==
  /\ mode = "glyph" /\ n > glyph.bytes /\ n <= MaxGlyphs
  /\ glyph' = [glyph EXCEPT !.bytes = n]
  /\ UNCHANGED <<mode, pc, display, fence, gpu, recon, quads, tex, movie, shot,
                 guestVars>>

\* NtAllocateVirtualMemory notes a luma buffer of the decoder.
AllocateSlot ==
  /\ mode = "movie" /\ decoder.slots + 1 \in Slots
  /\ decoder' = [decoder EXCEPT !.slots = @ + 1]
  /\ UNCHANGED <<renderVars, atlas, cache, drawing, bound, seen, kept, swap>>

\* The decoder goes round the buffers, once the title has swapped, and may
\* stall in the middle of one.
BeginFrame ==
  /\ movie.count = decoder.slots /\ Slots = 1 .. decoder.slots
  /\ ~decoder.half /\ decoder.frame < MaxFrames /\ decoder.since = Pace
  /\ decoder' = [decoder EXCEPT !.half = TRUE, !.frame = @ + 1,
                                !.since = 0]
  /\ movie' = [movie EXCEPT !.pool[decoder.slot].top = decoder.frame + 1]
  /\ UNCHANGED <<mode, pc, display, fence, gpu, recon, glyph, quads, tex, shot,
                 atlas, cache, drawing, bound, seen, kept, swap>>

EndFrame ==
  /\ decoder.half
  /\ decoder' = [decoder EXCEPT !.half = FALSE, !.since = 0,
                                !.slot = (@ % decoder.slots) + 1]
  /\ movie' = [movie EXCEPT !.pool[decoder.slot].bottom = decoder.frame]
  /\ UNCHANGED <<mode, pc, display, fence, gpu, recon, glyph, quads, tex, shot,
                 atlas, cache, drawing, bound, seen, kept, swap>>

\* Mutation: the directory is carved at every swap.
Carve_Always == Carved

\* What VdSwap submits: a new carve, or after the first the cached one.
Carve == IF swap.cached = 0 THEN Carved ELSE {swap.cached}

CarveQuads(n) ==
  /\ swap.at = "idle" /\ mode = "glyph" /\ n \in Carve
  /\ swap' = [at |-> IF n > 0 THEN "submit" ELSE "present", n |-> n,
              cached |-> IF swap.cached = 0 THEN n ELSE swap.cached]
  /\ UNCHANGED <<renderVars, atlas, cache, drawing, bound, seen, kept, decoder>>

SubmitQuads ==
  /\ swap.at = "submit" /\ AssignGeometry(swap.n)
  /\ swap' = [swap EXCEPT !.at = "store"]
  /\ UNCHANGED <<atlas, cache, drawing, bound, seen, kept, decoder>>

EndSubmit ==
  /\ swap.at = "store" /\ StoreCount
  /\ swap' = [swap EXCEPT !.at = "present"]
  /\ UNCHANGED <<atlas, cache, drawing, bound, seen, kept, decoder>>

EndSwap ==
  /\ swap.at = IF mode = "glyph" THEN "present" ELSE "idle"
  /\ PublishAndPresent(decoder.slots)
  /\ swap' = [swap EXCEPT !.at = "idle"]
  /\ UNCHANGED <<atlas, cache, drawing, bound, seen, kept, decoder>>

-----------------------------------------------------------------------------
Render == RenderStep /\ UNCHANGED guestVars

\* TIMING: the decoder writes over an earlier frame within Stall samples.
WritesOver == decoder.half /\ movie.pool[decoder.slot].bottom # 0

Sample ==
  /\ PickVideo /\ (WritesOver => decoder.since < Stall)
  /\ decoder' = [decoder EXCEPT !.since = Lesser(@ + 1, Pace)]
  /\ UNCHANGED <<atlas, cache, drawing, bound, seen, kept, swap>>

Outside == (Resize \/ Restore \/ Executed) /\ UNCHANGED guestVars

Calls ==
  \/ \E t \in Threads : Compose(t) \/ LockMenuFrame(t) \/ PublishMenuFrame(t)
  \/ SubmitQuads \/ EndSubmit \/ EndSwap

Title ==
  \/ \E t \in Threads :
       \/ \E b \in Bases, l \in Labels : FillAtlas(t, b, l)
       \/ SetTexture(t) \/ \E n \in Glyphs : DrawText(t, n)
  \/ \E n \in 1 .. MaxGlyphs : AtlasGrows(n)
  \/ AllocateSlot \/ BeginFrame \/ EndFrame
  \/ \E n \in Carved : CarveQuads(n)

Next == Render \/ Sample \/ Outside \/ Calls \/ Title

\* The threads run, the GPU finishes what it is given, and whoever waits for
\* g_texGeomMtx gets it between two submissions.
Fairness ==
  /\ SF_vars(CopyGeometry /\ UNCHANGED guestVars)
  /\ WF_vars(Render \/ Sample) /\ WF_vars(Executed /\ UNCHANGED guestVars)
  /\ WF_vars(Calls) /\ WF_vars(WritesOver /\ EndFrame)

Spec == Init /\ [][Next]_vars /\ Fairness

-----------------------------------------------------------------------------
Draws == [base: Bases, label: Labels, n: Glyphs, glyphs: Labels \union {None}]
Steps == {"off", "init", "dead", "loop", "acquire", "idle", "recreate",
          "record", "lock", "upload", "count", "copy", "fill", "draw", "shot",
          "present"}
Sizes == Carved \union {0}
Halves == [top: 0 .. MaxFrames, bottom: 0 .. MaxFrames]
Pictures == IF mode = "recon" THEN Draws ELSE 0 .. MaxGlyphs

DisplayTypes ==
  /\ mode \in Modes /\ pc \in Steps /\ window \in {"shown", "minimised"}
  /\ stale \in BOOLEAN /\ fence \in BOOLEAN /\ gpu \in BOOLEAN
  /\ events \in 0 .. MaxEvents
ReconTypes ==
  recon \in [frame: SUBSET Draws, seq: Nat, uploaded: Nat, uploads: Nat,
             grew: BOOLEAN, mutex: {"free", "guest", "render"}, read: Nat]
GlyphTypes ==
  glyph \in [bytes: 0 .. MaxGlyphs, last: 0 .. MaxGlyphs,
             stable: 0 .. Settled, waited: 0 .. Patience,
             uploaded: 0 .. MaxGlyphs, uploads: Nat, grew: BOOLEAN]
QuadTypes ==
  /\ quads \in [geom: Sizes, count: Sizes, mutex: {"free", "guest"},
               drawn: Sizes, buffer: Sizes]
  /\ swap \in [at: {"idle", "submit", "store", "present"}, n: Sizes,
              cached: Sizes]
PictureTypes ==
  /\ tex \subseteq Pictures
  /\ shot \in [max: Sizes, shows: SUBSET Pictures, failed: BOOLEAN]
TextTypes ==
  /\ atlas \in [Bases -> Labels \union {None}]
  /\ cache \in [Bases -> Labels \union {None}]
  /\ bound \in [Threads -> Bases \union {None}]
  /\ seen \subseteq Glyphs \X Nat /\ kept \subseteq Draws
  /\ drawing \in [Threads ->
       [at: {"idle", "filled", "bound", "compose", "publish"},
        base: Bases \union {None}, label: Labels \union {None},
        n: Glyphs \union {0}, glyphs: Labels \union {None}]]
MovieTypes ==
  /\ movie \in [pool: [Slots -> Halves], count: Slots \union {0},
               sig: [Slots -> Halves], stable: [Slots -> 0 .. 2],
               age: [Slots -> Nat], sel: Slots \union {0}, shown: Halves,
               whole: 0 .. MaxFrames]
  /\ decoder \in [frame: 0 .. MaxFrames, slot: Slots, half: BOOLEAN,
                 slots: Slots \union {0}, since: 0 .. Pace]

(* Type invariant.                                                          *)
TypeOK ==
  /\ DisplayTypes /\ ReconTypes /\ GlyphTypes /\ QuadTypes /\ PictureTypes
  /\ TextTypes /\ MovieTypes

(* Nothing the GPU reads is written while it draws: no vertex buffer, no    *)
(* staging buffer and no command buffer is touched, no texture replaced and *)
(* no swapchain destroyed under it, on any path through PresentOnce.        *)
NothingTouchedInFlight ==
  gpu => pc \notin {"record", "lock", "upload", "count", "copy", "fill",
                    "draw", "recreate"}

(* When a frame is over, the saved picture shows the newest texture: each   *)
(* upload of fuller text makes the picture be taken again (cont.140, 141),  *)
(* unless there was no buffer to take it into.                              *)
CaptureIsCurrent ==
  pc = "loop" /\ tex # {} /\ ~shot.failed => shot.shows = tex

(* The draw stays inside the vertices that were copied, though the number   *)
(* of vertices is read before the mutex is taken (PresentOnce), since what  *)
(* is submitted never changes once it was carved (REX_CARVEONCE).           *)
DrawStaysInBuffer ==
  pc = "draw" /\ quads.drawn >= 3 => quads.drawn <= quads.buffer

(* An atlas in the cache was decoded block by block as the title tiled it,  *)
(* whatever its shape (DecodeByBase, Untile).                               *)
TexturesKeepTheirBlocks ==
  \A b \in Bases : cache[b] # None => SurfacesKeepTheirBlocks

(* A whole frame of the movie on the screen is never older than one shown   *)
(* before it, and no part of a buffer that was not written is shown, though *)
(* buffers are sampled and converted while the decoder writes, and the      *)
(* scheduler stalls it in the middle of a frame (PickAndFillVideo).         *)
MovieIsClean ==
  [][LET now == movie'.shown IN
     movie.shown # now =>
       /\ now.top = now.bottom => now.top >= movie.whole
       /\ now.bottom # 0]_vars

(* The menu text on the screen consists of the glyphs of its labels, also   *)
(* when atlases are filled again (cont.74), and a label once shown is       *)
(* never replaced by a shorter version of itself (cont.142).                *)
TextOnlyImproves ==
  [][mode = "recon" /\ tex' # tex =>
       /\ \A k \in tex' : k.glyphs = k.label
       /\ \A k \in tex : \E j \in tex' :
            j.base = k.base /\ j.label = k.label /\ j.n >= k.n]_vars

\* Nobody sees anything: not started, given up, or an icon.
Hidden == pc \in {"off", "init", "dead"} \/ window = "minimised"

(* The render thread presents frame after frame: no failure to acquire an   *)
(* image, no new swapchain and no blocked call of the guest stops it.       *)
KeepsPresenting == []<>(pc = "present" \/ Hidden)

(* What the title drew reaches the screen: the composed text that was kept, *)
(* and an atlas that has grown by a relevant amount, short of the caps on   *)
(* uploads.                                                                 *)
TextReachesTheScreen ==
  <>[](\/ Hidden
       \/ mode = "recon" /\ (tex = kept \/ recon.uploads >= ReconCap)
       \/ mode = "glyph" /\ \/ quads.count < 3 \/ glyph.bytes = 0
                            \/ tex # {} /\ ~Grew(glyph.bytes, glyph.uploaded)
                            \/ glyph.uploads >= AtlasCap
       \/ mode = "movie")
==============================================================================
