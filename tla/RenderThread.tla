---------------------------- MODULE RenderThread ----------------------------
(***************************************************************************)
(* The render thread of vulkan_render.cpp: one frame after another it      *)
(* waits for the GPU, acquires an image, brings what the guest published   *)
(* into vertex buffers and the texture, records, submits, captures and     *)
(* presents.  The window, the GPU and the title run beside it.             *)
(*                                                                         *)
(* The environment variables choose what a frame shows:                    *)
(*   movie  the decoded intro (the default);                               *)
(*   glyph  text quads textured with the font atlas (REX_TEXTGLYPH);       *)
(*   recon  the composed menu text (REX_MENURECON).                        *)
(* A texture or a frame is what it was made from, pixels are left out.     *)
(***************************************************************************)
EXTENDS Integers, FiniteSets

CONSTANTS Modes,
          ReconCap,   \* 16 uploads of the composed menu text
          AtlasCap,   \* 8 uploads of the font atlas
          Patience,   \* 240 frames before an atlas in motion is uploaded
          Settled,    \* 3 frames for which the atlas must not change
          Slack,      \* 256 glyph bytes that are not worth an upload
          MaxGlyphs,  \* model bound on the non-zero bytes of the atlas
          Slots,      \* luma buffers of the movie, 1 .. n
          MaxEvents   \* model bound on what happens to window and device

ASSUME RenderAssumption ==
  /\ Modes \subseteq {"movie", "glyph", "recon"}
  /\ {ReconCap, AtlasCap, Patience, Settled, Slack, MaxGlyphs, MaxEvents}
       \subseteq Nat
  /\ IsFiniteSet(Slots) /\ Slots = 1 .. Cardinality(Slots) /\ Slots # {}

VARIABLES
  mode,   \* what the environment variables chose
  pc,     \* where the render thread is; "off" before Present started it
  window, \* "shown" or "minimised"
  stale,  \* the swapchain is out of date
  events, \* failures and window changes so far
  fence,  \* g_fence is signalled
  gpu,    \* the GPU executes g_cmd
  recon,  \* g_reconFrame, g_reconSeq, g_reconUploaded, ..., g_reconMtx
  glyph,  \* the atlas and the statics of LoadFontAtlasOnce
  quads,  \* g_texGeom, g_texGeomVerts, g_texGeomMtx, texVerts, g_texGeoVB
  tex,    \* what g_texSet samples; {} until g_bgLoaded
  shot,   \* s_maxCap, and what the captured image shows
  movie   \* the frame pool, g_vidSig, g_vidStable, g_vidSettledAt, ...

display == <<window, stale, events>>
contents == <<recon, glyph, quads, tex, movie>>
renderVars == <<mode, pc, display, fence, gpu, contents, shot>>

Blank == [top |-> 0, bottom |-> 0]

InitRender ==
  /\ mode \in Modes
  /\ pc = "off" /\ window = "shown" /\ stale = FALSE /\ events = 0
  /\ fence = TRUE /\ gpu = FALSE
  /\ recon = [frame |-> {}, seq |-> 0, uploaded |-> 0, uploads |-> 0,
              grew |-> FALSE, mutex |-> "free", read |-> 0]
  /\ glyph = [bytes |-> 0, last |-> 0, stable |-> 0, waited |-> 0,
              uploaded |-> 0, uploads |-> 0, grew |-> FALSE]
  /\ quads = [geom |-> 0, count |-> 0, mutex |-> "free", drawn |-> 0,
              buffer |-> 0]
  /\ tex = {}
  /\ shot = [max |-> 0, shows |-> {}, failed |-> FALSE]
  /\ movie = [pool |-> [s \in Slots |-> Blank], count |-> 0,
              sig |-> [s \in Slots |-> Blank],
              stable |-> [s \in Slots |-> 0], age |-> [s \in Slots |-> 0],
              sel |-> 0, shown |-> Blank, whole |-> 0]

Lesser(a, b) == IF a < b THEN a ELSE b

\* A failure or a change of the window, MODEL BOUND: MaxEvents.
Event == events < MaxEvents /\ events' = events + 1

-----------------------------------------------------------------------------
(* The window, the GPU, and Init.                                           *)

Resize ==
  /\ pc # "off" /\ Event /\ stale' = TRUE
  /\ window' \in {"shown", "minimised"}
  /\ UNCHANGED <<mode, pc, fence, gpu, contents, shot>>
Restore ==
  /\ window = "minimised" /\ window' = "shown" /\ stale' = TRUE
  /\ UNCHANGED <<mode, pc, events, fence, gpu, contents, shot>>

Executed ==
  /\ gpu /\ gpu' = FALSE /\ fence' = TRUE
  /\ UNCHANGED <<mode, pc, display, contents, shot>>

\* Init: one failure, or a minimised window, and there is no renderer.
Initialise ==
  /\ pc = "init"
  /\ \/ /\ window = "shown" /\ pc' = "loop" /\ stale' = FALSE
        /\ UNCHANGED <<window, events>>
     \/ window = "minimised" /\ pc' = "dead" /\ UNCHANGED display
     \/ pc' = "dead" /\ Event /\ UNCHANGED <<window, stale>>
  /\ UNCHANGED <<mode, fence, gpu, contents, shot>>

-----------------------------------------------------------------------------
(* PresentOnce up to the recording, and CreateSwapchain.                    *)

WaitForFence ==
  /\ pc = "loop" /\ fence /\ pc' = "acquire"
  /\ UNCHANGED <<mode, display, fence, gpu, contents, shot>>

\* Mutation: the fence is reset before the image is there.
Acquire_ResetFirst ==
  /\ pc = "acquire" /\ fence' = FALSE
  /\ \/ pc' = (IF stale THEN "idle" ELSE "record") /\ UNCHANGED display
     \/ pc' = "loop" /\ Event /\ UNCHANGED <<window, stale>>
  /\ UNCHANGED <<mode, gpu, contents, shot>>

\* vkAcquireNextImageKHR: out of date, an error, or an image.
Acquire ==
  /\ pc = "acquire"
  /\ \/ stale /\ pc' = "idle" /\ UNCHANGED <<display, fence>>
     \/ pc' = "loop" /\ Event /\ UNCHANGED <<window, stale, fence>>
     \/ ~stale /\ fence' = FALSE /\ pc' = "record" /\ UNCHANGED display
  /\ UNCHANGED <<mode, gpu, contents, shot>>

\* Mutation: the swapchain is replaced while the GPU draws.
WaitIdle_Not ==
  /\ pc = "idle" /\ pc' = "recreate"
  /\ UNCHANGED <<mode, display, fence, gpu, contents, shot>>

WaitIdle ==
  /\ pc = "idle" /\ ~gpu /\ pc' = "recreate"
  /\ UNCHANGED <<mode, display, fence, gpu, contents, shot>>

\* A minimised window has no swapchain; the result is not looked at.
CreateSwapchain ==
  /\ pc = "recreate" /\ pc' = "loop"
  /\ \/ stale' = (window = "minimised") /\ UNCHANGED <<window, events>>
     \/ stale' = TRUE /\ Event /\ UNCHANGED window
  /\ UNCHANGED <<mode, fence, gpu, contents, shot>>

-----------------------------------------------------------------------------
(* The composed menu text: LoadReconMenuOnce.                               *)

\* Mutation: the first upload is the last.
UpToDate_Once == recon.seq = 0 \/ recon.uploads > 0

UpToDate == recon.seq \in {0, recon.uploaded} \/ recon.uploads >= ReconCap

ReadSeq ==
  /\ pc = "record" /\ mode = "recon"
  /\ recon' = [recon EXCEPT !.read = recon.seq]
  /\ pc' = IF UpToDate THEN "draw" ELSE "lock"
  /\ UNCHANGED <<mode, display, fence, gpu, glyph, quads, tex, movie, shot>>

LockRecon ==
  /\ pc = "lock" /\ recon.mutex = "free" /\ pc' = "upload"
  /\ recon' = [recon EXCEPT !.mutex = "render"]
  /\ UNCHANGED <<mode, display, fence, gpu, glyph, quads, tex, movie, shot>>

\* UploadTexture blocks until the copy is done; a failure leaves g_texSet.
UploadRecon ==
  /\ pc = "upload" /\ mode = "recon" /\ pc' = "draw"
  /\ \/ /\ tex' = recon.frame
        /\ recon' = [recon EXCEPT !.uploaded = recon.read, !.grew = TRUE,
                                  !.uploads = @ + 1, !.mutex = "free"]
        /\ UNCHANGED display
     \/ /\ recon' = [recon EXCEPT !.mutex = "free"]
        /\ Event /\ UNCHANGED <<window, stale, tex>>
  /\ UNCHANGED <<mode, fence, gpu, glyph, quads, movie, shot>>

-----------------------------------------------------------------------------
(* The font atlas: LoadFontAtlasOnce, which counts, decides and uploads.    *)

Grew(bytes, uploaded) == bytes > uploaded + (uploaded \div 8) + Slack

Due(bytes, stable, waited) ==
  /\ bytes # 0
  /\ IF tex = {} THEN stable >= Settled \/ waited >= Patience
     ELSE /\ Grew(bytes, glyph.uploaded) /\ stable >= Settled
          /\ glyph.uploads < AtlasCap

CountAtlas ==
  LET same   == glyph.bytes = glyph.last
      stable == IF same THEN Lesser(glyph.stable + 1, Settled) ELSE 0
      waited == Lesser(glyph.waited + 1, Patience)
  IN
  /\ pc = "record" /\ mode = "glyph"
  /\ \/ quads.count < 3 /\ pc' = "count" /\ UNCHANGED glyph
     \/ /\ quads.count >= 3
        /\ glyph' = [glyph EXCEPT !.last = glyph.bytes, !.stable = stable,
                                  !.waited = waited]
        /\ pc' = IF Due(glyph.bytes, stable, waited) THEN "upload" ELSE "count"
  /\ UNCHANGED <<mode, display, fence, gpu, recon, quads, tex, movie, shot>>

\* The bytes are read once more; what is remembered is the count.
UploadAtlas ==
  /\ pc = "upload" /\ mode = "glyph" /\ pc' = "count"
  /\ \/ /\ tex' = {glyph.bytes}
        /\ glyph' = [glyph EXCEPT !.uploaded = glyph.last, !.stable = 0,
                                  !.uploads = @ + 1, !.grew = TRUE]
        /\ UNCHANGED display
     \/ Event /\ UNCHANGED <<window, stale, tex, glyph>>
  /\ UNCHANGED <<mode, fence, gpu, recon, quads, movie, shot>>

-----------------------------------------------------------------------------
(* The textured quads: the count is loaded before the mutex is taken.       *)

LoadCount ==
  /\ pc = "count" /\ pc' = "copy"
  /\ quads' = [quads EXCEPT !.drawn = quads.count]
  /\ UNCHANGED <<mode, display, fence, gpu, recon, glyph, tex, movie, shot>>

CopyGeometry ==
  /\ pc = "copy" /\ pc' = "draw"
  /\ \/ quads.drawn < 3 /\ UNCHANGED quads
     \/ /\ quads.drawn >= 3 /\ quads.mutex = "free"
        /\ quads' = [quads EXCEPT !.buffer = quads.geom]
  /\ UNCHANGED <<mode, display, fence, gpu, recon, glyph, tex, movie, shot>>

-----------------------------------------------------------------------------
(* The movie: PickAndFillVideo, which samples every luma buffer, picks one  *)
(* and converts it, while the decoder goes on.                              *)

Changed(s) == movie.pool[s] # movie.sig[s]

StableNow(s) == IF Changed(s) THEN 0 ELSE Lesser(movie.stable[s] + 1, 2)

\* The unchanged samples become exactly two.
Settles(s) == StableNow(s) = 2 /\ movie.stable[s] = 1

\* g_vidSettledAt, of which only the order matters.
AgeNow ==
  LET newest == Cardinality(Slots) + 1
      raw    == [s \in Slots |-> IF s \in 1 .. movie.count /\ Settles(s)
                                THEN newest ELSE movie.age[s]]
  IN [s \in Slots |-> Cardinality({raw[t] : t \in {u \in Slots :
                                     raw[u] # 0 /\ raw[u] <= raw[s]}})]

\* Mutation: a half written buffer will do.
Complete_Not(s) == TRUE

\* No large band of the buffer is unwritten.
Complete(s) == movie.pool[s].top # 0 /\ movie.pool[s].bottom # 0

Clean == {s \in 1 .. movie.count : StableNow(s) = 2 /\ Complete(s)}

Freshest ==
  CHOOSE s \in Clean : \A t \in Clean :
    AgeNow[t] < AgeNow[s] \/ (AgeNow[t] = AgeNow[s] /\ s <= t)

PickVideo ==
  LET sel == IF Clean # {} THEN Freshest ELSE movie.sel IN
  /\ pc = "record" /\ mode = "movie"
  /\ movie' = [movie EXCEPT
       !.sig    = [s \in Slots |-> IF s <= movie.count
                                  THEN movie.pool[s] ELSE @[s]],
       !.stable = [s \in Slots |-> IF s <= movie.count
                                  THEN StableNow(s) ELSE @[s]],
       !.age = AgeNow, !.sel = sel]
  /\ pc' = IF sel = 0 THEN "draw" ELSE "fill"
  /\ UNCHANGED <<mode, display, fence, gpu, recon, glyph, quads, tex, shot>>

\* The conversion reads the buffer again.  HISTORY: whole is the last frame
\* that was shown whole.
FillVideo ==
  LET read == movie.pool[movie.sel] IN
  /\ pc = "fill" /\ pc' = "draw"
  /\ movie' = [movie EXCEPT !.shown = read,
                 !.whole = IF read.top = read.bottom THEN read.top ELSE @]
  /\ UNCHANGED <<mode, display, fence, gpu, recon, glyph, quads, tex, shot>>

-----------------------------------------------------------------------------
(* Draw, submit, capture and present.                                       *)

AtlasReady == mode # "glyph" \/ tex # {}

\* Mutation: a fuller atlas does not restart the search for the richest.
MaxCap_Kept == shot.max

MaxCap == IF glyph.grew THEN 0 ELSE shot.max

Richer == AtlasReady /\ quads.drawn > MaxCap

Captured == Richer \/ recon.grew

\* No memory for the copy: the frame is presented and the flags are spent.
EnsureCaptureBufferFails ==
  /\ Captured /\ pc' = "present" /\ Event /\ UNCHANGED <<window, stale>>
  /\ shot' = [shot EXCEPT !.max = IF Richer THEN quads.drawn ELSE MaxCap,
                          !.failed = TRUE]

\* What the menu's frame decides before it is submitted: the atlas flag is
\* spent, the frame's flag only where `||` comes to it.
Draw ==
  /\ pc = "draw" /\ mode # "movie" /\ gpu' = TRUE
  /\ glyph' = [glyph EXCEPT !.grew = FALSE]
  /\ recon' = [recon EXCEPT !.grew = @ /\ Richer]
  /\ \/ /\ pc' = (IF Captured THEN "shot" ELSE "present")
        /\ shot' = [shot EXCEPT !.max = IF Richer THEN quads.drawn ELSE MaxCap]
        /\ UNCHANGED display
     \/ EnsureCaptureBufferFails
  /\ UNCHANGED <<mode, fence, quads, tex, movie>>

\* The default frame: the movie, or a plain colour.
DrawMovie ==
  /\ pc = "draw" /\ mode = "movie" /\ gpu' = TRUE /\ pc' = "present"
  /\ UNCHANGED <<mode, display, fence, contents, shot>>

\* WriteCapturePPM, once the fence says that the frame is finished.
WriteCapture ==
  /\ pc = "shot" /\ fence /\ pc' = "present"
  /\ shot' = [shot EXCEPT !.shows = tex, !.failed = FALSE]
  /\ UNCHANGED <<mode, display, fence, gpu, contents>>

PresentImage ==
  /\ pc = "present" /\ pc' = (IF stale THEN "idle" ELSE "loop")
  /\ UNCHANGED <<mode, display, fence, gpu, contents, shot>>

RenderStep ==
  \/ Initialise \/ WaitForFence \/ Acquire \/ WaitIdle \/ CreateSwapchain
  \/ ReadSeq \/ LockRecon \/ UploadRecon
  \/ CountAtlas \/ UploadAtlas \/ LoadCount \/ CopyGeometry
  \/ FillVideo
  \/ Draw \/ DrawMovie \/ WriteCapture \/ PresentImage

-----------------------------------------------------------------------------
(* What the guest calls: SubmitTexturedGeometry and SetReconMenuFrame hold  *)
(* a mutex for two steps, PublishVideo and Present are atomic stores.       *)

AssignGeometry(n) ==
  /\ quads.mutex = "free"
  /\ quads' = [quads EXCEPT !.geom = n, !.mutex = "guest"]
  /\ UNCHANGED <<mode, pc, display, fence, gpu, recon, glyph, tex, movie, shot>>

StoreCount ==
  /\ quads.mutex = "guest"
  /\ quads' = [quads EXCEPT !.count = quads.geom, !.mutex = "free"]
  /\ UNCHANGED <<mode, pc, display, fence, gpu, recon, glyph, tex, movie, shot>>

LockFrame ==
  /\ recon.mutex = "free"
  /\ recon' = [recon EXCEPT !.mutex = "guest"]
  /\ UNCHANGED <<mode, pc, display, fence, gpu, glyph, quads, tex, movie, shot>>

AssignFrame(labels) ==
  /\ recon.mutex = "guest"
  /\ recon' = [recon EXCEPT !.mutex = "free", !.frame = labels, !.seq = @ + 1]
  /\ UNCHANGED <<mode, pc, display, fence, gpu, glyph, quads, tex, movie, shot>>

\* PublishVideo and Present, of which the first call starts the thread.
PublishAndPresent(n) ==
  /\ movie' = [movie EXCEPT !.count = n]
  /\ pc' = IF pc = "off" THEN "init" ELSE pc
  /\ UNCHANGED <<mode, display, fence, gpu, recon, glyph, quads, tex, shot>>
==============================================================================
