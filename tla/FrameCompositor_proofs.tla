----------------------- MODULE FrameCompositor_proofs -----------------------
(* Proofs about FrameCompositor: types, nothing touched while the GPU reads, *)
(* the draw inside its buffer, the saved picture, the composed text, the *)
(* movie, whose frames are shown in their order, and tiled textures.         *)
EXTENDS FrameCompositor, FiniteSetTheorems,
        WellFoundedInduction, TLAPS

(* Between the fence and the submission the GPU is idle and the fence is     *)
(* reset, while it draws the fence is not signalled.                         *)
FlightInv ==
  /\ gpu => ~fence
  /\ pc \in {"acquire", "recreate", "record", "lock", "upload", "count",
             "copy", "fill", "draw"} => ~gpu
  /\ pc \in {"record", "lock", "upload", "count", "copy", "fill", "draw"} =>
       ~fence

(* Each mode has its own way through PresentOnce.                            *)
PathInv ==
  /\ pc \in {"count", "copy"} => mode = "glyph"
  /\ pc = "fill" => mode = "movie"
  /\ pc = "lock" => mode = "recon"
  /\ quads.drawn # 0 => mode = "glyph"

(* There is one size of carved quads: what is submitted, stored, counted and *)
(* drawn is that or nothing.                                                 *)
QuadsInv ==
  /\ swap.at \in {"submit", "store"} => swap.n = swap.cached
  /\ swap.at = "store" => quads.geom = swap.cached
  /\ quads.geom \in {0, swap.cached}
  /\ quads.count \in {0, quads.geom} /\ quads.drawn \in {0, quads.count}
  /\ pc = "draw" /\ quads.drawn >= 3 => quads.buffer = quads.drawn

(* A texture the saved picture does not show yet has its flag set on the way *)
(* to the capture, and text to draw if it is the atlas.                      *)
Saved == tex = {} \/ shot.failed \/ shot.shows = tex
CaptureInv ==
  /\ pc \notin {"count", "copy", "draw", "shot"} => Saved
  /\ pc \in {"count", "copy"} => Saved \/ glyph.grew
  /\ pc = "draw" =>
       Saved \/ (mode = "recon" /\ recon.grew) \/ (mode = "glyph" /\ glyph.grew)
  /\ pc = "count" /\ glyph.grew => quads.count >= 3
  /\ pc \in {"copy", "draw"} /\ glyph.grew => quads.drawn >= 3
  /\ pc = "upload" /\ mode = "glyph" => quads.count >= 3
  /\ glyph.grew => mode = "glyph" /\ pc \in {"count", "copy", "draw"}

(* From the text routine to the screen every set of labels has the glyphs of *)
(* its labels and covers the one behind it.                                  *)
Clear(labels) == \A k \in labels : k.glyphs = k.label
Covers(new, old) ==
  \A k \in old : \E j \in new : j.base = k.base /\ j.label = k.label /\ j.n >= k.n
TextInv ==
  /\ \A t \in Threads :
       LET d == drawing[t] IN
       /\ d.at \in {"filled", "bound"} => atlas[d.base] = d.label
       /\ d.at # "idle" => d.base \in Bases /\ d.label \in Labels
       /\ d.at \in {"bound", "compose", "publish"} => bound[t] = d.base
       /\ d.at = "compose" => d.glyphs = d.label /\ d.n \in Glyphs
  /\ Clear(kept) /\ Clear(recon.frame) /\ (mode = "recon" => Clear(tex))
  /\ Covers(kept, recon.frame) /\ (mode = "recon" => Covers(recon.frame, tex))

(* The buffer that is converted and the one that is written exist.           *)
MovieInv ==
  /\ decoder.half => decoder.slots \in Slots
  /\ pc = "fill" => movie.sel # 0

-----------------------------------------------------------------------------
(* Which actions write what.                                                *)

LEMMA PcSteps ==
  ASSUME [Next]_vars
  PROVE  \/ RenderStep \/ PickVideo \/ Executed
         \/ pc = "off" /\ pc' = "init" /\ UNCHANGED <<gpu, fence>>
         \/ UNCHANGED <<pc, gpu, fence>>
<1>1. CASE Title \/ Calls \/ UNCHANGED vars
  BY <1>1 DEF Title, Calls, FillAtlas, SetTexture, DrawText, AtlasGrows, AllocateSlot,
     BeginFrame, EndFrame, CarveQuads, Compose, LockMenuFrame, LockFrame,
     PublishMenuFrame, AssignFrame, SubmitQuads, AssignGeometry, EndSubmit,
     StoreCount, EndSwap, PublishAndPresent, vars, renderVars
<1>2. CASE Render \/ Sample
  BY <1>2 DEF Render, Sample
<1>3. CASE Outside
  BY <1>3 DEF Outside, Resize, Restore
<1> QED BY <1>1, <1>2, <1>3 DEF Next

LEMMA FlightStep ==
  ASSUME FlightInv, [Next]_vars
  PROVE  FlightInv'
<1> USE DEF FlightInv
<1>1. CASE RenderStep
  <2>1. CASE Initialise \/ WaitForFence \/ Acquire \/ WaitIdle \/ CreateSwapchain
    BY <2>1 DEF Initialise, WaitForFence, Acquire, WaitIdle, CreateSwapchain
  <2>2. CASE ReadSeq \/ LockRecon \/ UploadRecon \/ CountAtlas \/ UploadAtlas
    BY <2>2 DEF ReadSeq, LockRecon, UploadRecon, CountAtlas, UploadAtlas
  <2>3. CASE LoadCount \/ CopyGeometry \/ FillVideo \/ WriteCapture \/ PresentImage
    BY <2>3 DEF LoadCount, CopyGeometry, FillVideo, WriteCapture, PresentImage
  <2>4. CASE Draw \/ DrawMovie
    BY <2>4 DEF Draw, DrawMovie, EnsureCaptureBufferFails
  <2> QED BY <1>1, <2>1, <2>2, <2>3, <2>4 DEF RenderStep
<1>2. CASE PickVideo \/ Executed
  BY <1>2 DEF PickVideo, Executed
<1> QED BY <1>1, <1>2, PcSteps

(* Nothing the GPU reads is written while it draws, whatever the guest and  *)
(* the window do between the steps of PresentOnce.                          *)
THEOREM FlightCorrect == Spec => []NothingTouchedInFlight
<1>1. Init => FlightInv
  BY DEF Init, InitRender, FlightInv
<1>2. FlightInv /\ [Next]_vars => FlightInv'
  BY FlightStep
<1>3. FlightInv => NothingTouchedInFlight
  BY DEF FlightInv, NothingTouchedInFlight
<1> QED BY <1>1, <1>2, <1>3, PTL DEF Spec

-----------------------------------------------------------------------------

LEMMA QuadsSteps ==
  ASSUME [Next]_vars
  PROVE  \/ (LoadCount \/ CopyGeometry) /\ UNCHANGED swap
         \/ SubmitQuads \/ EndSubmit \/ EndSwap
         \/ \E n \in Carved : CarveQuads(n)
         \/ UNCHANGED <<quads, swap>>
<1>1. CASE Title \/ Calls \/ UNCHANGED vars
  BY <1>1 DEF Title, Calls, vars, guestVars, renderVars, contents, display,
     FillAtlas, SetTexture, DrawText, AtlasGrows, AllocateSlot,
     BeginFrame, EndFrame, Compose, LockMenuFrame, LockFrame,
     PublishMenuFrame, AssignFrame, PublishAndPresent
<1>2. CASE Render \/ Sample
  BY <1>2 DEF Render, Sample, guestVars, contents, display, PickVideo,
     RenderStep, Initialise, WaitForFence, Acquire, WaitIdle,
     CreateSwapchain, ReadSeq, LockRecon, UploadRecon, CountAtlas,
     UploadAtlas, FillVideo, Draw, DrawMovie, WriteCapture,
     PresentImage, EnsureCaptureBufferFails
<1>3. CASE Outside
  BY <1>3 DEF Outside, Resize, Restore, Executed, guestVars, contents, display
<1> QED BY <1>1, <1>2, <1>3 DEF Next

LEMMA GlyphSteps ==
  ASSUME [Next]_vars
  PROVE  \/ CountAtlas \/ UploadAtlas \/ Draw
         \/ \E n \in 1 .. MaxGlyphs : AtlasGrows(n)
         \/ UNCHANGED glyph
<1>1. CASE Title \/ Calls \/ UNCHANGED vars
  BY <1>1 DEF Title, Calls, vars, guestVars, renderVars, contents, display,
     FillAtlas, SetTexture, DrawText, AllocateSlot, BeginFrame,
     EndFrame, CarveQuads, Compose, LockMenuFrame, LockFrame,
     PublishMenuFrame, AssignFrame, SubmitQuads, AssignGeometry,
     EndSubmit, StoreCount, EndSwap, PublishAndPresent
<1>2. CASE Render \/ Sample
  BY <1>2 DEF Render, Sample, guestVars, contents, display, PickVideo,
     RenderStep, Initialise, WaitForFence, Acquire, WaitIdle,
     CreateSwapchain, ReadSeq, LockRecon, UploadRecon, LoadCount,
     CopyGeometry, FillVideo, DrawMovie, WriteCapture, PresentImage
<1>3. CASE Outside
  BY <1>3 DEF Outside, Resize, Restore, Executed, guestVars, contents, display
<1> QED BY <1>1, <1>2, <1>3 DEF Next

LEMMA ReconSteps ==
  ASSUME [Next]_vars
  PROVE  \/ ReadSeq \/ LockRecon \/ UploadRecon \/ Draw
         \/ \E t \in Threads : LockMenuFrame(t) \/ PublishMenuFrame(t)
         \/ UNCHANGED recon
<1>1. CASE Title \/ Calls \/ UNCHANGED vars
  BY <1>1 DEF Title, Calls, vars, guestVars, renderVars, contents, display,
     FillAtlas, SetTexture, DrawText, AtlasGrows, AllocateSlot,
     BeginFrame, EndFrame, CarveQuads, Compose, SubmitQuads,
     AssignGeometry, EndSubmit, StoreCount, EndSwap, PublishAndPresent
<1>2. CASE Render \/ Sample
  BY <1>2 DEF Render, Sample, guestVars, contents, display, PickVideo,
     RenderStep, Initialise, WaitForFence, Acquire, WaitIdle,
     CreateSwapchain, CountAtlas, UploadAtlas, LoadCount,
     CopyGeometry, FillVideo, DrawMovie, WriteCapture, PresentImage
<1>3. CASE Outside
  BY <1>3 DEF Outside, Resize, Restore, Executed, guestVars, contents, display
<1> QED BY <1>1, <1>2, <1>3 DEF Next

LEMMA PictureSteps ==
  ASSUME [Next]_vars
  PROVE  \/ UploadRecon \/ UploadAtlas \/ Draw \/ WriteCapture
         \/ UNCHANGED <<tex, shot>>
<1>1. CASE Title \/ Calls \/ UNCHANGED vars
  BY <1>1, ZenonT(40) DEF Title, Calls, vars, guestVars, renderVars, contents, display,
     FillAtlas, SetTexture, DrawText, AtlasGrows, AllocateSlot,
     BeginFrame, EndFrame, CarveQuads, Compose, LockMenuFrame,
     LockFrame, PublishMenuFrame, AssignFrame, SubmitQuads,
     AssignGeometry, EndSubmit, StoreCount, EndSwap, PublishAndPresent
<1>2. CASE Render \/ Sample
  BY <1>2 DEF Render, Sample, guestVars, contents, display, PickVideo,
     RenderStep, Initialise, WaitForFence, Acquire, WaitIdle,
     CreateSwapchain, ReadSeq, LockRecon, CountAtlas, LoadCount,
     CopyGeometry, FillVideo, DrawMovie, PresentImage
<1>3. CASE Outside
  BY <1>3 DEF Outside, Resize, Restore, Executed, guestVars, contents, display
<1> QED BY <1>1, <1>2, <1>3 DEF Next

LEMMA TextSteps ==
  ASSUME [Next]_vars
  PROVE  \/ \E t \in Threads :
              \/ \E b \in Bases, l \in Labels : FillAtlas(t, b, l)
              \/ SetTexture(t) \/ \E n \in Glyphs : DrawText(t, n)
              \/ Compose(t) \/ PublishMenuFrame(t)
         \/ UNCHANGED <<atlas, cache, drawing, bound, seen, kept>>
<1>1. CASE Title \/ Calls \/ UNCHANGED vars
  BY <1>1 DEF Title, Calls, vars, guestVars, renderVars, contents, display,
     AtlasGrows, AllocateSlot, BeginFrame, EndFrame, CarveQuads,
     LockMenuFrame, LockFrame, SubmitQuads, AssignGeometry, EndSubmit,
     StoreCount, EndSwap, PublishAndPresent
<1>2. CASE Render \/ Sample
  BY <1>2 DEF Render, Sample, guestVars, contents, display, PickVideo,
     RenderStep, Initialise, WaitForFence, Acquire, WaitIdle,
     CreateSwapchain, ReadSeq, LockRecon, UploadRecon, CountAtlas,
     UploadAtlas, LoadCount, CopyGeometry, FillVideo, Draw, DrawMovie,
     WriteCapture, PresentImage, EnsureCaptureBufferFails
<1>3. CASE Outside
  BY <1>3 DEF Outside, Resize, Restore, Executed, guestVars, contents, display
<1> QED BY <1>1, <1>2, <1>3 DEF Next

LEMMA MovieSteps ==
  ASSUME [Next]_vars
  PROVE  \/ Sample \/ EndSwap \/ (FillVideo /\ UNCHANGED decoder)
         \/ AllocateSlot \/ BeginFrame \/ EndFrame
         \/ UNCHANGED <<movie, decoder>>
<1>1. CASE Title \/ Calls \/ UNCHANGED vars
  BY <1>1, ZenonT(40) DEF Title, Calls, vars, guestVars, renderVars, contents, display,
     FillAtlas, SetTexture, DrawText, AtlasGrows, CarveQuads, Compose,
     LockMenuFrame, LockFrame, PublishMenuFrame, AssignFrame,
     SubmitQuads, AssignGeometry, EndSubmit, StoreCount
<1>2. CASE Render \/ Sample
  BY <1>2 DEF Render, guestVars, contents, display,
     RenderStep, Initialise, WaitForFence, Acquire, WaitIdle,
     CreateSwapchain, ReadSeq, LockRecon, UploadRecon, CountAtlas,
     UploadAtlas, LoadCount, CopyGeometry, Draw, DrawMovie,
     WriteCapture, PresentImage, EnsureCaptureBufferFails
<1>3. CASE Outside
  BY <1>3 DEF Outside, Resize, Restore, Executed, guestVars, contents, display
<1> QED BY <1>1, <1>2, <1>3 DEF Next

LEMMA ModeSteps == [Next]_vars => UNCHANGED mode
<1> SUFFICES ASSUME [Next]_vars PROVE UNCHANGED mode
  OBVIOUS
<1>1. CASE Title \/ Calls \/ UNCHANGED vars
  BY <1>1 DEF Title, Calls, vars, renderVars,
     FillAtlas, SetTexture, DrawText, AtlasGrows, AllocateSlot, BeginFrame,
     EndFrame, CarveQuads, Compose, LockMenuFrame, LockFrame,
     PublishMenuFrame, AssignFrame, SubmitQuads, AssignGeometry, EndSubmit,
     StoreCount, EndSwap, PublishAndPresent
<1>2. CASE Render \/ Sample
  BY <1>2 DEF Render, Sample, PickVideo,
     RenderStep, Initialise, WaitForFence, Acquire, WaitIdle,
     CreateSwapchain, ReadSeq, LockRecon, UploadRecon, CountAtlas,
     UploadAtlas, LoadCount, CopyGeometry, FillVideo, Draw, DrawMovie,
     WriteCapture, PresentImage
<1>3. CASE Outside
  BY <1>3 DEF Outside, Resize, Restore, Executed
<1> QED BY <1>1, <1>2, <1>3 DEF Next

-----------------------------------------------------------------------------
(* Types.                                                                   *)

LEMMA Bounds ==
  /\ MaxEvents \in Nat /\ MaxGlyphs \in Nat /\ Settled \in Nat
  /\ Patience \in Nat /\ AtlasCap \in Nat /\ ReconCap \in Nat
  /\ MaxFrames \in Nat /\ Pace \in Nat /\ Stall \in Nat
  /\ Carved \subseteq Nat /\ Glyphs \subseteq Nat
BY RenderAssumption, CompositorAssumption

LEMMA EventsTyped ==
  ASSUME events \in 0 .. MaxEvents, [Next]_vars
  PROVE  events' \in 0 .. MaxEvents
<1>1. Event \/ UNCHANGED events
  <2>1. CASE RenderStep \/ PickVideo
    BY <2>1 DEF PickVideo, RenderStep, Initialise, WaitForFence, Acquire,
       WaitIdle, CreateSwapchain, ReadSeq, LockRecon, UploadRecon, CountAtlas,
       UploadAtlas, LoadCount, CopyGeometry, FillVideo, Draw, DrawMovie,
       WriteCapture, PresentImage, EnsureCaptureBufferFails, display
  <2>2. CASE Outside
    BY <2>2 DEF Outside, Resize, Restore, Executed, display
  <2>3. CASE Title \/ Calls \/ UNCHANGED vars
    BY <2>3 DEF Title, Calls, vars, renderVars, display, FillAtlas, SetTexture,
       DrawText, AtlasGrows, AllocateSlot, BeginFrame, EndFrame, CarveQuads,
       Compose, LockMenuFrame, LockFrame, PublishMenuFrame, AssignFrame,
       SubmitQuads, AssignGeometry, EndSubmit, StoreCount, EndSwap,
       PublishAndPresent
  <2> QED BY <2>1, <2>2, <2>3 DEF Next, Render, Sample
<1>2. CASE Event
  BY <1>2, Bounds DEF Event
<1> QED BY <1>1, <1>2

LEMMA DisplayTyped ==
  ASSUME DisplayTypes, [Next]_vars
  PROVE  DisplayTypes'
<1> DEFINE Flags == /\ pc \in Steps /\ window \in {"shown", "minimised"}
                    /\ stale \in BOOLEAN /\ fence \in BOOLEAN /\ gpu \in BOOLEAN
<1>0. Flags
  BY Zenon DEF DisplayTypes
<1>1. ASSUME RenderStep PROVE Flags'
  <2>1. CASE Initialise \/ WaitForFence \/ Acquire \/ WaitIdle \/ CreateSwapchain
    BY <2>1, <1>0 DEF Initialise, WaitForFence, Acquire, WaitIdle,
       CreateSwapchain, Steps, display
  <2>2. CASE ReadSeq \/ LockRecon \/ UploadRecon \/ CountAtlas \/ UploadAtlas
    BY <2>2, <1>0 DEF ReadSeq, LockRecon, UploadRecon, CountAtlas, UploadAtlas,
       Steps, display
  <2>3. CASE LoadCount \/ CopyGeometry \/ FillVideo \/ WriteCapture \/ PresentImage
    BY <2>3, <1>0 DEF LoadCount, CopyGeometry, FillVideo, WriteCapture,
       PresentImage, Steps, display
  <2>4. CASE Draw \/ DrawMovie
    BY <2>4, <1>0 DEF Draw, DrawMovie, EnsureCaptureBufferFails, Steps, display
  <2> QED BY <1>1, <2>1, <2>2, <2>3, <2>4 DEF RenderStep
<1>2. ASSUME PickVideo PROVE Flags'
  BY <1>2, <1>0 DEF PickVideo, Steps, display
<1>3. ASSUME Outside PROVE Flags'
  BY <1>3, <1>0 DEF Outside, Resize, Restore, Executed, Steps, display
<1>4. ASSUME Title \/ Calls \/ UNCHANGED vars PROVE Flags'
  <2>1. UNCHANGED <<window, stale, fence, gpu>> /\ pc' \in {pc, "init"}
    BY <1>4 DEF Title, Calls, vars, renderVars, display, FillAtlas, SetTexture,
       DrawText, AtlasGrows, AllocateSlot, BeginFrame, EndFrame, CarveQuads,
       Compose, LockMenuFrame, LockFrame, PublishMenuFrame, AssignFrame,
       SubmitQuads, AssignGeometry, EndSubmit, StoreCount, EndSwap,
       PublishAndPresent
  <2> QED BY <2>1, <1>0 DEF Steps
<1>5. Flags'
  BY <1>1, <1>2, <1>3, <1>4 DEF Next, Render, Sample
<1>6. events \in 0 .. MaxEvents /\ mode \in Modes
  BY Zenon DEF DisplayTypes
<1> QED BY <1>5, <1>6, EventsTyped, ModeSteps, Zenon DEF DisplayTypes, Flags

LEMMA ReconTyped ==
  ASSUME ReconTypes, TextTypes, [Next]_vars
  PROVE  ReconTypes'
<1> USE DEF ReconTypes
<1>1. CASE ReadSeq
  BY <1>1 DEF ReadSeq
<1>2. CASE LockRecon
  BY <1>2 DEF LockRecon
<1>3. CASE UploadRecon
  <2> DEFINE r == [recon EXCEPT !.uploaded = recon.read, !.grew = TRUE,
                                !.uploads = @ + 1, !.mutex = "free"]
  <2>1. recon.read \in Nat /\ recon.uploads + 1 \in Nat
    OBVIOUS
  <2>2. r \in [frame: SUBSET Draws, seq: Nat, uploaded: Nat, uploads: Nat,
               grew: BOOLEAN, mutex: {"free", "guest", "render"}, read: Nat]
    BY <2>1
  <2>3. recon' = r \/ recon' = [recon EXCEPT !.mutex = "free"]
    BY <1>3, Zenon DEF UploadRecon
  <2> QED BY <2>2, <2>3
<1>4. CASE Draw
  <2> DEFINE b == recon.grew /\ Richer
  <2>1. b \in BOOLEAN
    BY Zenon
  <2>2. recon' = [recon EXCEPT !.grew = b]
    BY <1>4, Zenon DEF Draw
  <2> HIDE DEF b
  <2> QED BY <2>1, <2>2
<1>5. ASSUME NEW t \in Threads, LockMenuFrame(t) PROVE ReconTypes'
  BY <1>5 DEF LockMenuFrame, LockFrame
<1>6. ASSUME NEW t \in Threads, PublishMenuFrame(t) PROVE ReconTypes'
  <2>1. recon' = [recon EXCEPT !.mutex = "free", !.frame = kept, !.seq = @ + 1]
    BY <1>6, Zenon DEF PublishMenuFrame, AssignFrame
  <2>2. kept \subseteq Draws /\ recon.seq + 1 \in Nat
    BY DEF TextTypes
  <2> QED BY <2>1, <2>2
<1>7. CASE UNCHANGED recon
  BY <1>7
<1> QED BY <1>1, <1>2, <1>3, <1>4, <1>5, <1>6, <1>7, ReconSteps

LEMMA GlyphTyped ==
  ASSUME GlyphTypes, [Next]_vars
  PROVE  GlyphTypes'
<1> USE Bounds DEF GlyphTypes
<1>1. CASE CountAtlas
  <2> DEFINE stable == IF glyph.bytes = glyph.last
                       THEN Lesser(glyph.stable + 1, Settled) ELSE 0
             waited == Lesser(glyph.waited + 1, Patience)
  <2>1. stable \in 0 .. Settled /\ waited \in 0 .. Patience
    BY DEF Lesser
  <2>2. \/ UNCHANGED glyph
        \/ glyph' = [glyph EXCEPT !.last = glyph.bytes, !.stable = stable,
                                  !.waited = waited]
    BY <1>1, Zenon DEF CountAtlas
  <2> HIDE DEF stable, waited
  <2> QED BY <2>1, <2>2
<1>2. CASE UploadAtlas
  <2>1. \/ UNCHANGED glyph
        \/ glyph' = [glyph EXCEPT !.uploaded = glyph.last, !.stable = 0,
                                  !.uploads = @ + 1, !.grew = TRUE]
    BY <1>2, Zenon DEF UploadAtlas
  <2> DEFINE uploads == glyph.uploads + 1
  <2>2. /\ glyph.last \in 0 .. MaxGlyphs /\ uploads \in Nat
        /\ 0 \in 0 .. Settled
    OBVIOUS
  <2>3. CASE glyph' = [glyph EXCEPT !.uploaded = glyph.last, !.stable = 0,
                                    !.uploads = uploads, !.grew = TRUE]
    <3> HIDE DEF uploads
    <3> QED BY <2>2, <2>3
  <2> QED BY <2>1, <2>3
<1>3. CASE Draw
  BY <1>3 DEF Draw
<1>4. ASSUME NEW n \in 1 .. MaxGlyphs, AtlasGrows(n) PROVE GlyphTypes'
  BY <1>4 DEF AtlasGrows
<1>5. CASE UNCHANGED glyph
  BY <1>5
<1> QED BY <1>1, <1>2, <1>3, <1>4, <1>5, GlyphSteps

LEMMA QuadsTyped ==
  ASSUME QuadTypes, [Next]_vars
  PROVE  QuadTypes'
<1> USE DEF QuadTypes, Sizes
<1>1. CASE (LoadCount \/ CopyGeometry) /\ UNCHANGED swap
  BY <1>1 DEF LoadCount, CopyGeometry
<1>2. CASE SubmitQuads \/ EndSubmit
  BY <1>2 DEF SubmitQuads, AssignGeometry, EndSubmit, StoreCount
<1>3. CASE EndSwap
  BY <1>3 DEF EndSwap, PublishAndPresent
<1>4. ASSUME NEW n \in Carved, CarveQuads(n) PROVE QuadTypes'
  BY <1>4 DEF CarveQuads, renderVars, contents
<1>5. CASE UNCHANGED <<quads, swap>>
  BY <1>5
<1> QED BY <1>1, <1>2, <1>3, <1>4, <1>5, QuadsSteps

LEMMA PicturesTyped ==
  ASSUME PictureTypes, ReconTypes, GlyphTypes, QuadTypes, [Next]_vars
  PROVE  PictureTypes'
<1> USE ModeSteps DEF PictureTypes, Pictures
<1>1. CASE UploadRecon
  BY <1>1 DEF UploadRecon, ReconTypes
<1>2. CASE UploadAtlas
  BY <1>2 DEF UploadAtlas, GlyphTypes
<1>3. CASE Draw
  <2>1. quads.drawn \in Sizes /\ 0 \in Sizes
    BY DEF QuadTypes, Sizes
  <2> QED BY <1>3, <2>1 DEF Draw, EnsureCaptureBufferFails, MaxCap
<1>4. CASE WriteCapture
  BY <1>4 DEF WriteCapture, contents
<1>5. CASE UNCHANGED <<tex, shot>>
  BY <1>5
<1> QED BY <1>1, <1>2, <1>3, <1>4, <1>5, PictureSteps

LEMMA TextTyped ==
  ASSUME TextTypes, TextInv, [Next]_vars
  PROVE  TextTypes'
<1> USE DEF TextTypes
<1>1. ASSUME NEW t \in Threads, NEW b \in Bases, NEW l \in Labels,
             FillAtlas(t, b, l)
      PROVE  TextTypes'
  <2>1. atlas' = [atlas EXCEPT ![b] = l]
    BY <1>1, Zenon DEF FillAtlas
  <2>2. drawing' = [drawing EXCEPT ![t].at = "filled", ![t].base = b,
                                   ![t].label = l]
    BY <1>1, Zenon DEF FillAtlas
  <2>3. UNCHANGED <<cache, bound, seen, kept>>
    BY <1>1, Zenon DEF FillAtlas
  <2>4. atlas' \in [Bases -> Labels \union {None}]
    BY <2>1
  <2>5. drawing' \in [Threads ->
         [at: {"idle", "filled", "bound", "compose", "publish"},
          base: Bases \union {None}, label: Labels \union {None},
          n: Glyphs \union {0}, glyphs: Labels \union {None}]]
    <3> DEFINE r == [drawing[t] EXCEPT !.at = "filled", !.base = b, !.label = l]
    <3>1. r \in [at: {"idle", "filled", "bound", "compose", "publish"},
                 base: Bases \union {None}, label: Labels \union {None},
                 n: Glyphs \union {0}, glyphs: Labels \union {None}]
      OBVIOUS
    <3>2. drawing' = [drawing EXCEPT ![t] = r]
      BY <2>2
    <3> HIDE DEF r
    <3> QED BY <3>1, <3>2
  <2> QED BY <2>3, <2>4, <2>5
<1>2. ASSUME NEW t \in Threads, SetTexture(t) PROVE TextTypes'
  BY <1>2 DEF SetTexture
<1>3. ASSUME NEW t \in Threads, NEW n \in Glyphs, DrawText(t, n)
      PROVE  TextTypes'
  <2>1. /\ bound[t] \in Bases /\ drawing[t].label \in Labels
        /\ atlas[bound[t]] \in Labels \union {None}
    BY <1>3 DEF DrawText, TextInv
  <2>2. cache' \in [Bases -> Labels \union {None}]
    BY <1>3, <2>1 DEF DrawText, DecodeByBase
  <2>3. seen' \subseteq Glyphs \X Nat
    BY <1>3, <2>1, CompositorAssumption DEF DrawText
  <2>4. \/ drawing' = [drawing EXCEPT ![t] = Idle]
        \/ drawing' = [drawing EXCEPT ![t].at = "compose", ![t].n = n,
                                      ![t].glyphs = cache'[bound[t]]]
    BY <1>3, Zenon DEF DrawText
  <2>5. cache'[bound[t]] \in Labels \union {None}
    BY <2>1, <2>2
  <2>6. drawing' \in [Threads ->
         [at: {"idle", "filled", "bound", "compose", "publish"},
          base: Bases \union {None}, label: Labels \union {None},
          n: Glyphs \union {0}, glyphs: Labels \union {None}]]
    BY <2>4, <2>5 DEF Idle
  <2>7. UNCHANGED <<atlas, bound, kept>>
    BY <1>3, Zenon DEF DrawText
  <2> QED BY <2>2, <2>3, <2>6, <2>7
<1>4. ASSUME NEW t \in Threads, Compose(t) PROVE TextTypes'
  <2> DEFINE new == [base |-> bound[t], label |-> drawing[t].label,
                     n |-> drawing[t].n, glyphs |-> drawing[t].glyphs]
  <2>1. new \in Draws
    BY <1>4 DEF Compose, TextInv, Draws
  <2>2. kept' \subseteq kept \union {new}
    BY <1>4, Zenon DEF Compose
  <2>3. \/ drawing' = [drawing EXCEPT ![t] = Idle]
        \/ drawing' = [drawing EXCEPT ![t] = [@ EXCEPT !.at = "publish"]]
    BY <1>4 DEF Compose
  <2>4. UNCHANGED <<atlas, cache, bound, seen>>
    BY <1>4 DEF Compose
  <2> HIDE DEF new
  <2> QED BY <2>1, <2>2, <2>3, <2>4, SMTT(30) DEF Idle
<1>5. ASSUME NEW t \in Threads, PublishMenuFrame(t) PROVE TextTypes'
  BY <1>5 DEF PublishMenuFrame, Idle
<1>6. CASE UNCHANGED <<atlas, cache, drawing, bound, seen, kept>>
  BY <1>6
<1> QED BY <1>1, <1>2, <1>3, <1>4, <1>5, <1>6, TextSteps

LEMMA MinimumExists ==
  ASSUME NEW A, A \subseteq Nat, A # {}
  PROVE  \E a \in A : \A x \in A : a <= x
<1>1. PICK a \in A : \A x \in A : <<x, a>> \notin OpToRel(<, Nat)
  BY WFMin, NatLessThanWellFounded, Zenon
<1>2. \A x \in A : ~ (x < a)
  BY <1>1, Zenon DEF OpToRel
<1> QED BY <1>2

(* The freshest clean buffer is one: ages have a greatest element.          *)
LEMMA MaximumExists ==
  ASSUME NEW f \in [Slots -> Nat], NEW T \in SUBSET Slots, T # {},
         NEW b \in Nat, \A s \in T : f[s] <= b
  PROVE  \E s \in T : \A t \in T : f[t] < f[s] \/ (f[t] = f[s] /\ s <= t)
<1> DEFINE A == {b - f[s] : s \in T}
<1>1. A \subseteq Nat /\ A # {}
  OBVIOUS
<1>3. PICK a \in A : \A x \in A : a <= x
  BY <1>1, MinimumExists, Zenon
<1> DEFINE E == {s \in T : b - f[s] = a}
<1>4. E \subseteq Nat /\ E # {}
  BY RenderAssumption, FS_CardinalityType, SMTT(30)
<1>5. PICK s \in E : \A x \in E : s <= x
  BY <1>4, MinimumExists, Zenon
<1>7. \A t \in T : f[t] < f[s] \/ (f[t] = f[s] /\ s <= t)
  <2> SUFFICES ASSUME NEW t \in T PROVE f[t] < f[s] \/ (f[t] = f[s] /\ s <= t)
    OBVIOUS
  <2>1. a <= b - f[t] /\ b - f[s] = a
    BY <1>3, <1>5
  <2>2. CASE f[t] = f[s]
    <3>1. t \in E
      BY <2>1, <2>2
    <3> QED BY <3>1, <1>5, <2>2
  <2>3. CASE f[t] # f[s]
    BY <2>1, <2>3
  <2> QED BY <2>2, <2>3
<1> QED BY <1>5, <1>7

LEMMA AgesTyped ==
  ASSUME MovieTypes
  PROVE  /\ AgeNow \in [Slots -> Nat]
         /\ \A s \in Slots : AgeNow[s] <= Cardinality(Slots) + 1
<1> DEFINE newest == Cardinality(Slots) + 1
           raw    == [s \in Slots |-> IF s \in 1 .. movie.count /\ Settles(s)
                                     THEN newest ELSE movie.age[s]]
           Up(s)  == {u \in Slots : raw[u] # 0 /\ raw[u] <= raw[s]}
           Ages(s) == {raw[t] : t \in Up(s)}
<1>1. ASSUME NEW s \in Slots
      PROVE  Cardinality(Ages(s)) \in Nat /\ Cardinality(Ages(s)) <= newest
  <2>1. /\ IsFiniteSet(Up(s)) /\ Cardinality(Up(s)) \in Nat
        /\ Cardinality(Up(s)) <= Cardinality(Slots)
        /\ Cardinality(Slots) \in Nat
    BY RenderAssumption, FS_Subset, FS_CardinalityType
  <2> DEFINE F == [u \in Up(s) |-> raw[u]]
  <2>2. F \in Surjection(Up(s), Ages(s))
    BY DEF Surjection
  <2>3. IsFiniteSet(Ages(s)) /\ Cardinality(Ages(s)) <= Cardinality(Up(s))
    BY <2>1, <2>2, FS_Surjection
  <2>4. Cardinality(Ages(s)) \in Nat
    BY <2>3, FS_CardinalityType
  <2> QED BY <2>1, <2>3, <2>4
<1>2. AgeNow = [s \in Slots |-> Cardinality(Ages(s))]
  BY DEF AgeNow
<1> HIDE DEF Ages, newest
<1>3. AgeNow \in [Slots -> Nat] /\ \A s \in Slots : AgeNow[s] <= newest
  BY <1>1, <1>2
<1> QED BY <1>3 DEF newest

LEMMA SlotsTyped == Slots \subseteq Nat \ {0}
BY RenderAssumption, FS_CardinalityType

LEMMA NextSlot ==
  ASSUME NEW n \in Slots, NEW s \in Slots
  PROVE  (s % n) + 1 \in Slots
<1> DEFINE N == Cardinality(Slots)
<1>1. N \in Nat /\ Slots = 1 .. N
  BY RenderAssumption, FS_CardinalityType
<1> HIDE DEF N
<1>2. n \in 1 .. N /\ s \in 1 .. N
  BY <1>1
<1>3. (s % n) + 1 \in 1 .. N
  BY <1>1, <1>2
<1> QED BY <1>1, <1>3

(* What is selected is a buffer of the decoder, and none has a later age.   *)
LEMMA FreshestTyped ==
  ASSUME MovieTypes, Clean # {}
  PROVE  /\ Freshest \in Slots /\ Freshest \in Clean
         /\ \A t \in Clean : AgeNow[t] < AgeNow[Freshest] \/ AgeNow[t] = AgeNow[Freshest]
<1>1. Clean \in SUBSET Slots
  <2>1. 1 .. movie.count \subseteq Slots
    <3>1. movie.count \in Slots \union {0} /\ Slots = 1 .. Cardinality(Slots)
          /\ Cardinality(Slots) \in Nat
      BY RenderAssumption, FS_CardinalityType DEF MovieTypes
    <3> QED BY <3>1
  <2> QED BY <2>1 DEF Clean
<1>2. Cardinality(Slots) + 1 \in Nat
  BY RenderAssumption, FS_CardinalityType
<1>3. \E s \in Clean : \A t \in Clean :
        AgeNow[t] < AgeNow[s] \/ (AgeNow[t] = AgeNow[s] /\ s <= t)
  <2>1. /\ AgeNow \in [Slots -> Nat]
        /\ \A s \in Clean : AgeNow[s] <= Cardinality(Slots) + 1
    BY AgesTyped, <1>1, Zenon
  <2> QED BY <2>1, <1>1, <1>2, MaximumExists
<1>4. /\ Freshest \in Clean
      /\ \A t \in Clean :
           \/ AgeNow[t] < AgeNow[Freshest]
           \/ AgeNow[t] = AgeNow[Freshest] /\ Freshest <= t
  BY <1>3, Zenon DEF Freshest
<1> QED BY <1>1, <1>4, Zenon

LEMMA FillSteps ==
  ASSUME [Next]_vars, pc' = "fill"
  PROVE  PickVideo \/ pc = "fill"
<1>1. CASE RenderStep
  BY <1>1 DEF RenderStep, Initialise, WaitForFence, Acquire, WaitIdle,
     CreateSwapchain, ReadSeq, LockRecon, UploadRecon, CountAtlas, UploadAtlas,
     LoadCount, CopyGeometry, FillVideo, Draw, DrawMovie, WriteCapture,
     PresentImage, EnsureCaptureBufferFails
<1> QED BY <1>1, PcSteps DEF Executed

LEMMA SampleTyped ==
  ASSUME MovieTypes, MovieInv, Sample
  PROVE  MovieTypes' /\ MovieInv'
<1> DEFINE sel == IF Clean # {} THEN Freshest ELSE movie.sel
           sig == [s \in Slots |-> IF s <= movie.count
                                  THEN movie.pool[s] ELSE movie.sig[s]]
           stable == [s \in Slots |-> IF s <= movie.count
                                     THEN StableNow(s) ELSE movie.stable[s]]
           since == Lesser(decoder.since + 1, Pace)
<1>1. sel \in Slots \union {0}
  BY FreshestTyped DEF MovieTypes
<1>2. sig \in [Slots -> Halves]
  BY DEF MovieTypes
<1>3. stable \in [Slots -> 0 .. 2]
  <2>1. \A s \in Slots : movie.stable[s] \in 0 .. 2
    BY DEF MovieTypes
  <2>2. \A s \in Slots : StableNow(s) \in 0 .. 2
    BY <2>1 DEF StableNow, Lesser
  <2> QED BY <2>1, <2>2
<1>4. AgeNow \in [Slots -> Nat]
  BY AgesTyped
<1>5. since \in 0 .. Pace
  BY Bounds DEF MovieTypes, Lesser
<1>6. /\ movie' = [movie EXCEPT !.sig = sig, !.stable = stable, !.age = AgeNow,
                               !.sel = sel]
      /\ decoder' = [decoder EXCEPT !.since = since]
  BY DEF Sample, PickVideo
<1> HIDE DEF sel, sig, stable, since
<1>7. movie' \in [pool: [Slots -> Halves], count: Slots \union {0},
                 sig: [Slots -> Halves], stable: [Slots -> 0 .. 2],
                 age: [Slots -> Nat], sel: Slots \union {0}, shown: Halves,
                 whole: 0 .. MaxFrames]
  BY <1>1, <1>2, <1>3, <1>4, <1>6 DEF MovieTypes
<1>8. decoder' \in [frame: 0 .. MaxFrames, slot: Slots, half: BOOLEAN,
                     slots: Slots \union {0}, since: 0 .. Pace]
  BY <1>5, <1>6 DEF MovieTypes
<1>9. decoder'.half = decoder.half /\ decoder'.slots = decoder.slots
  BY <1>6 DEF MovieTypes
<1>10. movie'.sel = sel /\ (pc' = "fill" => sel # 0)
  BY <1>6 DEF MovieTypes, Sample, PickVideo, sel
<1> QED BY <1>7, <1>8, <1>9, <1>10 DEF MovieTypes, MovieInv, Halves

LEMMA MovieTyped ==
  ASSUME MovieTypes, MovieInv, [Next]_vars
  PROVE  MovieTypes' /\ MovieInv'
<1> USE DEF MovieTypes, MovieInv, Halves
<1>0. PickVideo \/ (pc' = "fill" => pc = "fill")
  BY FillSteps
<1>1. CASE Sample
  BY <1>1, SampleTyped
<1>2. CASE EndSwap
  BY <1>2 DEF EndSwap, PublishAndPresent
<1>3. CASE FillVideo /\ UNCHANGED decoder
  <2>1. movie.sel \in Slots
    BY <1>3 DEF FillVideo
  <2> DEFINE read == movie.pool[movie.sel]
             whole == IF read.top = read.bottom THEN read.top ELSE movie.whole
  <2>2. read \in Halves /\ whole \in 0 .. MaxFrames
    BY <2>1
  <2>3. movie' = [movie EXCEPT !.shown = read, !.whole = whole] /\ pc' = "draw"
    BY <1>3 DEF FillVideo
  <2> HIDE DEF read, whole
  <2> QED BY <1>3, <2>2, <2>3
<1>4. CASE AllocateSlot
  BY <1>4, SlotsTyped DEF AllocateSlot, renderVars, contents
<1>5. CASE BeginFrame
  <2>1. decoder.slots \in Slots
    BY <1>5, SlotsTyped, RenderAssumption DEF BeginFrame
  <2> DEFINE next == decoder.frame + 1
             half == [movie.pool[decoder.slot] EXCEPT !.top = next]
             pool == [movie.pool EXCEPT ![decoder.slot] = half]
  <2>2. next \in 0 .. MaxFrames
    <3>1. decoder.frame \in 0 .. MaxFrames
      OBVIOUS
    <3>2. decoder.frame < MaxFrames
      BY <1>5 DEF BeginFrame
    <3> HIDE DEF MovieTypes, MovieInv
    <3> QED BY <3>1, <3>2, Bounds
  <2>3. half \in Halves
    BY <2>2
  <2>4. pool \in [Slots -> Halves]
    BY <2>3
  <2>5. /\ movie' = [movie EXCEPT !.pool = pool] /\ UNCHANGED pc
        /\ decoder' = [decoder EXCEPT !.half = TRUE, !.frame = next, !.since = 0]
    BY <1>5 DEF BeginFrame
  <2>6. 0 \in 0 .. Pace
    BY Bounds
  <2> HIDE DEF next, half, pool
  <2> QED BY <2>1, <2>2, <2>4, <2>5, <2>6
<1>6. CASE EndFrame
  <2> DEFINE slot == (decoder.slot % decoder.slots) + 1
             half == [movie.pool[decoder.slot] EXCEPT !.bottom = decoder.frame]
             pool == [movie.pool EXCEPT ![decoder.slot] = half]
  <2>1. slot \in Slots
    <3>1. decoder.slots \in Slots /\ decoder.slot \in Slots
      BY <1>6 DEF EndFrame
    <3> QED BY <3>1, NextSlot
  <2>2. half \in Halves
    OBVIOUS
  <2>3. pool \in [Slots -> Halves]
    BY <2>2
  <2>4. /\ movie' = [movie EXCEPT !.pool = pool] /\ UNCHANGED pc
        /\ decoder' = [decoder EXCEPT !.half = FALSE, !.since = 0, !.slot = slot]
    BY <1>6 DEF EndFrame
  <2>5. 0 \in 0 .. Pace
    BY Bounds
  <2> HIDE DEF slot, half, pool
  <2> QED BY <2>1, <2>3, <2>4, <2>5
<1>7. CASE UNCHANGED <<movie, decoder>>
  BY <1>7, <1>0 DEF PickVideo
<1> QED BY <1>1, <1>2, <1>3, <1>4, <1>5, <1>6, <1>7, MovieSteps

-----------------------------------------------------------------------------
(* The draw stays inside its buffer.                                        *)

LEMMA PathSteps ==
  ASSUME [Next]_vars
  PROVE  \/ RenderStep \/ PickVideo
         \/ pc' \notin {"count", "copy", "fill", "lock", "draw"}
         \/ UNCHANGED pc
BY PcSteps DEF Executed

LEMMA PathStep ==
  ASSUME PathInv, QuadTypes, [Next]_vars
  PROVE  PathInv'
<1>1. mode' = mode
  BY ModeSteps
<1>2. (pc' \in {"count", "copy"} => mode = "glyph")
      /\ (pc' = "fill" => mode = "movie") /\ (pc' = "lock" => mode = "recon")
  <2>1. CASE RenderStep
    BY <2>1 DEF PathInv, RenderStep, Initialise, WaitForFence, Acquire, WaitIdle,
       CreateSwapchain, ReadSeq, LockRecon, UploadRecon, CountAtlas, UploadAtlas,
       LoadCount, CopyGeometry, FillVideo, Draw, DrawMovie, WriteCapture,
       PresentImage, EnsureCaptureBufferFails
  <2>2. CASE PickVideo
    BY <2>2 DEF PickVideo
  <2>3. CASE UNCHANGED pc
    BY <2>3 DEF PathInv
  <2> QED BY <2>1, <2>2, <2>3, PathSteps
<1>3. quads'.drawn # 0 => mode = "glyph"
  <2>1. CASE LoadCount
    BY <2>1 DEF LoadCount, PathInv
  <2>2. CASE quads'.drawn = quads.drawn
    BY <2>2 DEF PathInv
  <2>3. LoadCount \/ quads'.drawn = quads.drawn
    BY QuadsSteps DEF QuadTypes, CopyGeometry, SubmitQuads, AssignGeometry,
       EndSubmit, StoreCount, EndSwap, PublishAndPresent, CarveQuads, renderVars,
       contents
  <2> QED BY <2>1, <2>2, <2>3
<1> QED BY <1>1, <1>2, <1>3 DEF PathInv

LEMMA SizesTyped == \A n \in Sizes : n \in Nat
<1>1. \A n \in Carved : n \in Nat
  BY Bounds
<1> QED BY <1>1 DEF Sizes

LEMMA DrawnTyped ==
  ASSUME QuadTypes
  PROVE  quads.drawn \in Nat
<1>1. quads.drawn \in Sizes
  BY DEF QuadTypes
<1> QED BY <1>1, SizesTyped, Zenon

LEMMA QuadsStep ==
  ASSUME QuadsInv, PathInv, QuadTypes, [Next]_vars
  PROVE  QuadsInv'
<1> DEFINE Drawn == pc = "draw" /\ quads.drawn >= 3 => quads.buffer = quads.drawn
           One == /\ swap.at \in {"submit", "store"} => swap.n = swap.cached
                  /\ swap.at = "store" => quads.geom = swap.cached
                  /\ quads.geom \in {0, swap.cached}
                  /\ quads.count \in {0, quads.geom}
                  /\ quads.drawn \in {0, quads.count}
<1>0. Drawn /\ One
  BY Zenon DEF QuadsInv
<1>1. ASSUME LoadCount PROVE Drawn'
  BY <1>1 DEF LoadCount
<1>2. ASSUME CopyGeometry PROVE Drawn'
  <2>1. CASE UNCHANGED quads /\ quads.drawn < 3
    <3>1. quads.drawn \in Nat
      BY DrawnTyped
    <3>2. ~ (quads.drawn >= 3)
      BY <3>1, <2>1
    <3> QED BY <2>1, <3>2
  <2>2. CASE quads.drawn >= 3 /\ quads' = [quads EXCEPT !.buffer = quads.geom]
    <3>1. quads.drawn # 0
      BY <2>2
    <3>2. quads.geom = quads.drawn
      BY <1>0, <3>1
    <3>3. quads'.buffer = quads.geom /\ quads'.drawn = quads.drawn
      BY <2>2 DEF QuadTypes
    <3> QED BY <3>2, <3>3
  <2> QED BY <1>2, <2>1, <2>2 DEF CopyGeometry
<1>3. Drawn' \/ LoadCount \/ CopyGeometry
  <2>1. (quads'.drawn = quads.drawn /\ quads'.buffer = quads.buffer) \/ LoadCount
        \/ CopyGeometry
    BY QuadsSteps DEF QuadTypes, SubmitQuads, AssignGeometry, EndSubmit, StoreCount,
       EndSwap, PublishAndPresent, CarveQuads, renderVars, contents
  <2>2. CASE pc' = "draw" /\ pc # "draw" /\ mode = "glyph"
    <3>1. CASE RenderStep
      BY <2>2, <3>1 DEF PathInv, RenderStep, Initialise, WaitForFence, Acquire,
         WaitIdle, CreateSwapchain, ReadSeq, LockRecon, UploadRecon, CountAtlas,
         UploadAtlas, LoadCount, CopyGeometry, FillVideo, Draw, DrawMovie,
         WriteCapture, PresentImage, EnsureCaptureBufferFails
    <3>2. CASE PickVideo
      BY <2>2, <3>2 DEF PickVideo
    <3> QED BY <2>2, <3>1, <3>2, PathSteps
  <2>3. CASE quads.drawn = 0 /\ quads'.drawn = quads.drawn
    BY <2>3
  <2> QED BY <1>0, <2>1, <2>2, <2>3 DEF PathInv
<1>4. ASSUME (LoadCount \/ CopyGeometry) /\ UNCHANGED swap PROVE One'
  BY <1>0, <1>4 DEF LoadCount, CopyGeometry, QuadTypes
<1>5. ASSUME SubmitQuads \/ EndSubmit \/ EndSwap PROVE One'
  <2>1. CASE SubmitQuads
    BY <1>0, <2>1 DEF SubmitQuads, AssignGeometry, QuadTypes
  <2>2. CASE EndSubmit
    BY <1>0, <2>2 DEF EndSubmit, StoreCount, QuadTypes
  <2>3. CASE EndSwap
    BY <1>0, <2>3 DEF EndSwap, PublishAndPresent, QuadTypes
  <2> QED BY <1>5, <2>1, <2>2, <2>3
<1>6. ASSUME NEW n \in Carved, CarveQuads(n) PROVE One'
  BY <1>0, <1>6 DEF CarveQuads, Carve, renderVars, contents, QuadTypes
<1>7. ASSUME UNCHANGED <<quads, swap>> PROVE One'
  BY <1>0, <1>7
<1>8. Drawn' /\ One'
  BY <1>1, <1>2, <1>3, <1>4, <1>5, <1>6, <1>7, QuadsSteps
<1> QED BY <1>8, Zenon DEF QuadsInv

-----------------------------------------------------------------------------
(* The saved picture.                                                       *)

LEMMA CaptureStep ==
  ASSUME CaptureInv, QuadsInv, PathInv, TypeOK, [Next]_vars
  PROVE  CaptureInv'
<1> USE DEF Saved
<1>0. QuadTypes /\ GlyphTypes /\ ReconTypes /\ PictureTypes
  BY Zenon DEF TypeOK
<1>1. mode' = mode
  BY ModeSteps
<1>2. quads.drawn \in Nat /\ quads.count \in Nat
  BY <1>0, SizesTyped DEF QuadTypes
<1>3. CASE Initialise \/ WaitForFence \/ Acquire \/ WaitIdle \/ CreateSwapchain
           \/ PresentImage
  BY <1>3 DEF CaptureInv, Initialise, WaitForFence, Acquire, WaitIdle,
     CreateSwapchain, PresentImage, contents
<1>4. CASE ReadSeq \/ LockRecon
  <2>1. CASE ReadSeq
    BY <1>1, <2>1 DEF CaptureInv, ReadSeq
  <2>2. CASE LockRecon
    BY <1>1, <2>2 DEF CaptureInv, PathInv, LockRecon
  <2> QED BY <1>4, <2>1, <2>2
<1>5. CASE UploadRecon
  <2>1. CASE recon' = [recon EXCEPT !.uploaded = recon.read, !.grew = TRUE,
                                    !.uploads = @ + 1, !.mutex = "free"]
    <3>1. recon'.grew
      BY <1>0, <2>1 DEF ReconTypes
    <3> QED BY <3>1, <1>5 DEF CaptureInv, UploadRecon
  <2>2. CASE UNCHANGED tex
    BY <1>5, <2>2 DEF CaptureInv, UploadRecon
  <2> QED BY <1>5, <2>1, <2>2 DEF UploadRecon
<1>6. CASE CountAtlas
  <2>1. glyph'.grew = glyph.grew
    BY <1>0, <1>6 DEF CountAtlas, GlyphTypes
  <2> QED BY <1>2, <1>6, <2>1 DEF CaptureInv, CountAtlas
<1>7. CASE UploadAtlas
  <2>1. /\ pc = "upload" /\ mode = "glyph" /\ pc' = "count" /\ UNCHANGED shot
        /\ quads' = quads /\ quads.count >= 3
    BY <1>7 DEF CaptureInv, UploadAtlas
  <2>2. CASE glyph' = [glyph EXCEPT !.uploaded = glyph.last, !.stable = 0,
                                    !.uploads = @ + 1, !.grew = TRUE]
    <3>1. glyph'.grew
      BY <1>0, <2>2 DEF GlyphTypes
    <3> QED BY <1>1, <2>1, <3>1 DEF CaptureInv
  <2>3. CASE UNCHANGED <<tex, glyph>>
    BY <1>1, <2>1, <2>3 DEF CaptureInv
  <2> QED BY <1>7, <2>2, <2>3 DEF UploadAtlas
<1>8. CASE LoadCount
  <2>1. quads'.drawn = quads.count
    BY <1>0, <1>8 DEF LoadCount, QuadTypes
  <2> QED BY <1>8, <2>1 DEF CaptureInv, LoadCount
<1>9. CASE CopyGeometry
  <2>1. quads'.drawn = quads.drawn
    BY <1>0, <1>9 DEF CopyGeometry, QuadTypes
  <2> QED BY <1>1, <1>9, <2>1 DEF CaptureInv, CopyGeometry, PathInv
<1>10. CASE FillVideo \/ PickVideo
  BY <1>10 DEF CaptureInv, FillVideo, PickVideo
<1>11. CASE Draw
  <2>1. Saved \/ Captured
    <3>1. CASE mode = "recon" /\ recon.grew
      BY <3>1 DEF Captured
    <3>2. CASE mode = "glyph" /\ glyph.grew /\ ~Saved
      <4>1. AtlasReady /\ MaxCap = 0 /\ quads.drawn >= 3
        BY <1>11, <3>2 DEF AtlasReady, MaxCap, CaptureInv, Draw
      <4> QED BY <1>2, <4>1 DEF Captured, Richer
    <3> QED BY <1>11, <3>1, <3>2 DEF CaptureInv, Draw
  <2>2. glyph'.grew = FALSE
    BY <1>0, <1>11 DEF Draw, GlyphTypes
  <2>3. CASE pc' = "shot"
    BY <2>2, <2>3 DEF CaptureInv
  <2>4. CASE EnsureCaptureBufferFails
    <3>1. shot'.failed /\ pc' = "present"
      BY <1>0, <2>4 DEF EnsureCaptureBufferFails, PictureTypes
    <3> QED BY <2>2, <3>1 DEF CaptureInv
  <2>5. CASE /\ pc' = (IF Captured THEN "shot" ELSE "present")
             /\ shot' = [shot EXCEPT !.max = IF Richer THEN quads.drawn ELSE MaxCap]
             /\ ~Captured
    <3>1. shot'.failed = shot.failed /\ shot'.shows = shot.shows
      BY <1>0, <2>5 DEF PictureTypes
    <3>2. pc' = "present" /\ tex' = tex
      BY <1>11, <2>5 DEF Draw
    <3> QED BY <2>1, <2>2, <2>5, <3>1, <3>2 DEF CaptureInv
  <2> QED BY <1>11, <2>3, <2>4, <2>5 DEF Draw
<1>12. CASE DrawMovie
  BY <1>12 DEF CaptureInv, DrawMovie, contents
<1>13. CASE WriteCapture
  <2>1. shot'.shows = tex /\ tex' = tex /\ pc' = "present" /\ pc = "shot"
    BY <1>0, <1>13 DEF WriteCapture, PictureTypes, contents
  <2> QED BY <1>13, <2>1 DEF CaptureInv, WriteCapture, contents
<1>14. CASE Outside
  BY <1>14 DEF Outside, Resize, Restore, Executed, CaptureInv, contents
<1>15. CASE Title \/ Calls \/ UNCHANGED vars
  <2>1. UNCHANGED <<tex, shot>> /\ pc' \in {pc, "init"}
        /\ (pc' = "init" => pc = "off" \/ pc = "init")
    BY <1>15 DEF Title, Calls, vars, renderVars, contents, FillAtlas, SetTexture,
       DrawText, AtlasGrows, AllocateSlot, BeginFrame, EndFrame, CarveQuads,
       Compose, LockMenuFrame, LockFrame, PublishMenuFrame, AssignFrame,
       SubmitQuads, AssignGeometry, EndSubmit, StoreCount, EndSwap,
       PublishAndPresent
  <2>2. glyph'.grew = glyph.grew /\ recon'.grew = recon.grew
    BY <1>0, <1>15 DEF GlyphTypes, ReconTypes, Title, Calls, vars, renderVars,
       contents, FillAtlas, SetTexture, DrawText, AtlasGrows, AllocateSlot,
       BeginFrame, EndFrame, CarveQuads, Compose, LockMenuFrame, LockFrame,
       PublishMenuFrame, AssignFrame, SubmitQuads, AssignGeometry, EndSubmit,
       StoreCount, EndSwap, PublishAndPresent
  <2>3. quads'.drawn = quads.drawn /\ (quads.count >= 3 => quads'.count >= 3)
    <3>1. CASE quads'.drawn = quads.drawn /\ quads'.count = quads.count
      BY <3>1
    <3>2. CASE EndSubmit
      <4>1. quads'.drawn = quads.drawn /\ quads'.count = quads.geom
        BY <1>0, <3>2 DEF EndSubmit, StoreCount, QuadTypes
      <4>2. quads.count >= 3 => quads.geom = quads.count
        BY <1>2 DEF QuadsInv
      <4> QED BY <4>1, <4>2
    <3>3. \/ quads'.drawn = quads.drawn /\ quads'.count = quads.count
          \/ EndSubmit
      BY <1>0, <1>15 DEF QuadTypes, Title, Calls, vars, renderVars, contents,
         FillAtlas, SetTexture, DrawText, AtlasGrows, AllocateSlot, BeginFrame,
         EndFrame, CarveQuads, Compose, LockMenuFrame, LockFrame,
         PublishMenuFrame, AssignFrame, SubmitQuads, AssignGeometry, EndSwap,
         PublishAndPresent
    <3> QED BY <3>1, <3>2, <3>3
  <2> QED BY <1>1, <2>1, <2>2, <2>3 DEF CaptureInv
<1> QED
  BY <1>3, <1>4, <1>5, <1>6, <1>7, <1>8, <1>9, <1>10, <1>11, <1>12, <1>13, <1>14,
     <1>15 DEF Next, Render, Sample, RenderStep

-----------------------------------------------------------------------------
(* The composed text.                                                       *)

LEMMA CoversSelf ==
  ASSUME NEW S, S \subseteq Draws
  PROVE  Covers(S, S)
<1>1. \A k \in S : k.n \in Nat
  BY Bounds DEF Draws
<1>2. \A k \in S : k.n >= k.n
  BY <1>1
<1> QED BY <1>2, Zenon DEF Covers

LEMMA CoversThrough ==
  ASSUME NEW A, NEW B, NEW C, A \subseteq Draws, B \subseteq Draws,
         C \subseteq Draws, Covers(A, B), Covers(B, C)
  PROVE  Covers(A, C)
<1>1. \A k \in A \union B \union C : k.n \in Nat
  BY Bounds DEF Draws
<1> QED BY <1>1 DEF Covers

(* What Compose keeps is as full as what was kept before.                   *)
LEMMA ComposeCovers ==
  ASSUME TextInv, TextTypes, NEW t \in Threads, Compose(t)
  PROVE  Covers(kept', kept) /\ Clear(kept')
<1> DEFINE new  == [base |-> bound[t], label |-> drawing[t].label,
                    n |-> drawing[t].n, glyphs |-> drawing[t].glyphs]
           same == {k \in kept : k.base = new.base /\ k.label = new.label}
           changed == \A k \in same : Fuller(new, k)
<1>1. kept' = IF changed THEN (kept \ same) \union {new} ELSE kept
  BY Zenon DEF Compose
<1>2. kept \subseteq Draws /\ Covers(kept, kept) /\ Clear(kept)
  BY CoversSelf DEF TextTypes, TextInv
<1>3. new.glyphs = new.label
  BY DEF Compose, TextInv
<1>4. CASE changed
  <2>1. \A k \in same : new.base = k.base /\ new.label = k.label /\ new.n > k.n
    BY <1>4 DEF Fuller
  <2>2. new.n \in Nat /\ \A k \in kept : k.n \in Nat
    BY <1>2, Bounds DEF Draws, Compose, TextInv
  <2> HIDE DEF new, same
  <2>3. \A k \in same : new.base = k.base /\ new.label = k.label /\ new.n >= k.n
    BY <2>1, <2>2 DEF same
  <2>4. kept' = (kept \ same) \union {new}
    BY <1>1, <1>4
  <2>5. Covers(kept', kept)
    <3> SUFFICES ASSUME NEW k \in kept
                 PROVE  \E j \in kept' : j.base = k.base /\ j.label = k.label
                                         /\ j.n >= k.n
      BY Zenon DEF Covers
    <3>1. CASE k \in same
      BY <3>1, <2>3, <2>4
    <3>2. CASE k \notin same
      BY <3>2, <2>2, <2>4
    <3> QED BY <3>1, <3>2
  <2>6. Clear(kept')
    BY <1>2, <1>3, <2>4 DEF Clear
  <2> QED BY <2>5, <2>6
<1> QED BY <1>1, <1>2, <1>4

LEMMA TextStep ==
  ASSUME TextInv, TypeOK, [Next]_vars
  PROVE  TextInv'
<1> DEFINE Routine(t) ==
             LET d == drawing[t] IN
             /\ d.at \in {"filled", "bound"} => atlas[d.base] = d.label
             /\ d.at # "idle" => d.base \in Bases /\ d.label \in Labels
             /\ d.at \in {"bound", "compose", "publish"} => bound[t] = d.base
             /\ d.at = "compose" => d.glyphs = d.label /\ d.n \in Glyphs
           Sets == /\ Clear(kept) /\ Clear(recon.frame)
                   /\ (mode = "recon" => Clear(tex))
                   /\ Covers(kept, recon.frame)
                   /\ (mode = "recon" => Covers(recon.frame, tex))
<1>0. /\ TextTypes /\ ReconTypes /\ PictureTypes /\ mode' = mode
      /\ (\A t \in Threads : Routine(t)) /\ Sets
  BY ModeSteps, Zenon DEF TypeOK, TextInv
<1>1. ASSUME NEW u \in Threads PROVE Routine(u)'
  <2>1. ASSUME NEW t \in Threads, NEW b \in Bases, NEW l \in Labels,
               FillAtlas(t, b, l)
        PROVE  Routine(u)'
    BY <1>0, <2>1 DEF FillAtlas, TextTypes
  <2>2. ASSUME NEW t \in Threads, SetTexture(t) PROVE Routine(u)'
    BY <1>0, <2>2 DEF SetTexture, TextTypes
  <2>3. ASSUME NEW t \in Threads, NEW n \in Glyphs, DrawText(t, n)
        PROVE  Routine(u)'
    BY <1>0, <2>3, SMTT(30) DEF DrawText, DecodeByBase, TextTypes, Idle
  <2>4. ASSUME NEW t \in Threads, Compose(t) PROVE Routine(u)'
    <3>1. /\ \/ drawing' = [drawing EXCEPT ![t] = Idle]
             \/ drawing' = [drawing EXCEPT ![t] = [@ EXCEPT !.at = "publish"]]
          /\ UNCHANGED <<atlas, bound>> /\ drawing[t].at = "compose"
      BY <2>4 DEF Compose
    <3> QED BY <1>0, <3>1 DEF TextTypes, Idle
  <2>5. ASSUME NEW t \in Threads, PublishMenuFrame(t) PROVE Routine(u)'
    BY <1>0, <2>5 DEF PublishMenuFrame, TextTypes, Idle
  <2>6. CASE UNCHANGED <<atlas, cache, drawing, bound, seen, kept>>
    BY <1>0, <2>6
  <2> QED BY <2>1, <2>2, <2>3, <2>4, <2>5, <2>6, TextSteps
<1>2. Sets'
  <2>1. kept \subseteq Draws /\ recon.frame \subseteq Draws
        /\ (mode = "recon" => tex \subseteq Draws)
    BY <1>0 DEF TextTypes, ReconTypes, PictureTypes, Pictures
  <2>2. Covers(kept', kept) /\ Clear(kept') /\ kept' \subseteq Draws
    <3>1. kept' \subseteq Draws
      BY TextTyped, <1>0 DEF TextTypes
    <3>2. CASE \E t \in Threads : Compose(t)
      BY <1>0, <3>1, <3>2, ComposeCovers
    <3>3. CASE UNCHANGED kept
      BY <1>0, <2>1, <3>3, CoversSelf
    <3> QED BY <3>1, <3>2, <3>3, TextSteps DEF FillAtlas, SetTexture, DrawText,
               PublishMenuFrame
  <2>3. CASE \E t \in Threads : PublishMenuFrame(t)
    <3>1. recon'.frame = kept /\ kept' = kept /\ tex' = tex
      BY <1>0, <2>3 DEF PublishMenuFrame, AssignFrame, ReconTypes
    <3>2. mode = "recon" => Covers(kept, tex)
      BY <1>0, <2>1, CoversThrough, Zenon
    <3> QED BY <1>0, <2>2, <3>1, <3>2
  <2>4. CASE recon'.frame = recon.frame
    <3>1. Covers(kept', recon.frame)
      BY <1>0, <2>1, <2>2, CoversThrough, Zenon
    <3>2. mode = "recon" => tex' \in {tex, recon.frame}
      BY <1>0, PictureSteps DEF UploadRecon, UploadAtlas, Draw, WriteCapture, contents
    <3>3. Covers(recon.frame, recon.frame)
      BY <2>1, CoversSelf
    <3>4. mode = "recon" => Clear(tex') /\ Covers(recon.frame, tex')
      BY <1>0, <3>2, <3>3
    <3> QED BY <1>0, <2>2, <2>4, <3>1, <3>4
  <2>5. recon'.frame = recon.frame \/ \E t \in Threads : PublishMenuFrame(t)
    BY <1>0, ReconSteps DEF ReconTypes, ReadSeq, LockRecon, UploadRecon, Draw,
       LockMenuFrame, LockFrame
  <2> QED BY <2>3, <2>4, <2>5
<1> QED BY <1>1, <1>2, Zenon DEF TextInv

-----------------------------------------------------------------------------
(* The specification.                                                       *)

LEMMA InitTyped == Init => TypeOK
<1> SUFFICES ASSUME Init PROVE TypeOK
  OBVIOUS
<1> USE DEF Init, InitRender
<1>0. Slots # {} /\ 1 \in Slots
  BY RenderAssumption, FS_CardinalityType
<1>1. DisplayTypes
  <2>1. 0 \in 0 .. MaxEvents
    BY Bounds
  <2>2. events = 0 /\ pc = "off" /\ mode \in Modes /\ window = "shown"
        /\ stale = FALSE /\ fence = TRUE /\ gpu = FALSE
    OBVIOUS
  <2> QED BY <2>1, <2>2, Zenon DEF DisplayTypes, Steps
<1>2. ReconTypes
  BY DEF ReconTypes
<1>3. GlyphTypes
  BY Bounds DEF GlyphTypes
<1>4. QuadTypes
  BY DEF QuadTypes, Sizes
<1>5. PictureTypes
  BY DEF PictureTypes, Sizes
<1>6. TextTypes
  BY DEF TextTypes, Idle
<1>7. MovieTypes
  BY <1>0, Bounds DEF MovieTypes, Halves, Blank
<1> QED BY <1>1, <1>2, <1>3, <1>4, <1>5, <1>6, <1>7 DEF TypeOK

IInv == /\ TypeOK /\ MovieInv /\ PathInv /\ QuadsInv /\ CaptureInv /\ TextInv

(* The invariants hold together: the composed text gives its types, the way *)
(* through PresentOnce the size of the quads, and that the saved picture.   *)
LEMMA Inductive == Spec => []IInv
<1>1. Init => IInv
  <2> SUFFICES ASSUME Init PROVE IInv
    OBVIOUS
  <2>1. MovieInv /\ PathInv /\ QuadsInv
    BY DEF Init, InitRender, MovieInv, PathInv, QuadsInv
  <2>2. CaptureInv
    BY DEF Init, InitRender, CaptureInv, Saved
  <2>3. TextInv
    BY DEF Init, InitRender, TextInv, Clear, Covers, Idle
  <2> QED BY <2>1, <2>2, <2>3, InitTyped DEF IInv
<1>2. IInv /\ [Next]_vars => IInv'
  <2> SUFFICES ASSUME IInv, [Next]_vars PROVE IInv'
    OBVIOUS
  <2>1. /\ TypeOK /\ MovieInv /\ PathInv /\ QuadsInv /\ CaptureInv /\ TextInv
        /\ DisplayTypes /\ ReconTypes /\ GlyphTypes /\ QuadTypes
        /\ PictureTypes /\ TextTypes /\ MovieTypes
    BY Zenon DEF IInv, TypeOK
  <2>2. TypeOK'
    BY <2>1, DisplayTyped, ReconTyped, GlyphTyped, QuadsTyped, PicturesTyped,
       TextTyped, MovieTyped, Zenon DEF TypeOK
  <2>3. MovieInv'
    BY <2>1, MovieTyped, Zenon
  <2>4. PathInv' /\ QuadsInv'
    BY <2>1, PathStep, QuadsStep, Zenon
  <2>5. CaptureInv'
    BY <2>1, CaptureStep, Zenon
  <2>6. TextInv'
    BY <2>1, TextStep, Zenon
  <2> QED BY <2>2, <2>3, <2>4, <2>5, <2>6, Zenon DEF IInv
<1> QED BY <1>1, <1>2, PTL DEF Spec

(* The variables keep their types for any threads, labels, atlases, sizes   *)
(* and caps, and any number of luma buffers.                                *)
THEOREM TypeCorrect == Spec => []TypeOK
<1>1. IInv => TypeOK
  BY Zenon DEF IInv
<1> QED BY <1>1, Inductive, PTL

(* The vertex count that is read before the mutex never exceeds what is     *)
(* copied under it (PresentOnce and SubmitTexturedGeometry).                *)
THEOREM DrawCorrect == Spec => []DrawStaysInBuffer
<1>1. IInv => DrawStaysInBuffer
  <2> SUFFICES ASSUME IInv, pc = "draw", quads.drawn >= 3
               PROVE  quads.drawn <= quads.buffer
    BY DEF DrawStaysInBuffer
  <2>1. quads.buffer = quads.drawn
    BY DEF IInv, QuadsInv
  <2>2. quads.drawn \in Nat
    BY DrawnTyped, Zenon DEF IInv, TypeOK
  <2> QED BY <2>1, <2>2
<1> QED BY <1>1, Inductive, PTL

(* Every upload of text is in the saved picture when its frame is over.     *)
THEOREM CaptureCorrect == Spec => []CaptureIsCurrent
<1>1. IInv => CaptureIsCurrent
  BY DEF IInv, CaptureInv, Saved, CaptureIsCurrent
<1> QED BY <1>1, Inductive, PTL
-----------------------------------------------------------------------------
(* The layout of tiled textures for every size: no two blocks share a place, *)
(* and a surface of whole pages holds all of its blocks.  A byte address is  *)
(* read as the digits it is put together from: the page, four bits of the    *)
(* row and the column, and what is inside a group of columns.                *)

\* The bit trick of the code is exact for the sizes there are.
LEMMA LogBppIsExact ==
  ASSUME NEW b \in BlockSizes
  PROVE  LogBpp(b) \in 0 .. 4 /\ Pow2[LogBpp(b) + 1] = b
<1>1. CASE b = 1   BY <1>1 DEF LogBpp, Shr, Pow2
<1>2. CASE b = 2   BY <1>2 DEF LogBpp, Shr, Pow2
<1>3. CASE b = 4   BY <1>3 DEF LogBpp, Shr, Pow2
<1>4. CASE b = 8   BY <1>4 DEF LogBpp, Shr, Pow2
<1>5. CASE b = 16  BY <1>5 DEF LogBpp, Shr, Pow2
<1> QED  BY <1>1, <1>2, <1>3, <1>4, <1>5 DEF BlockSizes

\* The bytes of a row of blocks inside a tile, with the odd row set apart.
Row(x, y, b) ==
  (Micro(x, y) * b - ((Micro(x, y) * b) % 16)) * 2 + ((Micro(x, y) * b) % 16)
    + (y % 2) * 16

\* The digits of the row and column in a tile.
LEMMA MicroBounds ==
  ASSUME NEW x \in Nat, NEW y \in Nat
  PROVE  Micro(x, y) \in 0 .. 31
BY DEF Micro

LEMMA AlignBounds ==
  ASSUME NEW v \in Nat
  PROVE  /\ Align32(v) \in Nat /\ v <= Align32(v)
         /\ Align32(v) = 32 * (Align32(v) \div 32)
         /\ Align32(v) \div 32 \in Nat
BY DEF Align32

LEMMA MacroType ==
  ASSUME NEW x \in Nat, NEW y \in Nat, NEW w \in Nat
  PROVE  Macro(x, y, w) \in Nat
<1>. DEFINE a == Align32(w) \div 32
            v == y \div 32
<1>1. a \in Nat /\ v \in Nat /\ x \div 32 \in Nat  BY AlignBounds
<1>2. Macro(x, y, w) = (x \div 32) + v * a  BY DEF Macro
<1> HIDE DEF a, v
<1>3. v * a \in Nat  BY <1>1
<1> QED  BY <1>1, <1>2, <1>3

\* The offset as digits: the tile, bit 3 of the row, the rest.
LEMMA OffsetDigits ==
  ASSUME NEW b \in BlockSizes, NEW x \in Nat, NEW y \in Nat, NEW w \in Nat
  PROVE  Offset(x, y, w, LogBpp(b)) =
           Macro(x, y, w) * 128 * b + (((y % 16) - (y % 8)) * 8) * b + Row(x, y, b)
<1>. DEFINE l == LogBpp(b)
            t == Macro(x, y, w)
            m == Micro(x, y)
<1>1. Pow2[l + 1] = b  BY LogBppIsExact
<1>2. t \in Nat  BY MacroType
<1>3. Shl(t * 128, l) = (t * 128) * b /\ Shl(m, l) = m * b
      /\ Shl(((y % 16) - (y % 8)) * 8, l) = (((y % 16) - (y % 8)) * 8) * b
  BY <1>1 DEF Shl
<1>4. (t * 128) * b = t * 128 * b  OBVIOUS
<1>5. Offset(x, y, w, l) =
        Shl(t * 128, l) + (Shl(m, l) - (Shl(m, l) % 16)) * 2 + (Shl(m, l) % 16)
        + Shl(((y % 16) - (y % 8)) * 8, l) + (y % 2) * 16
  BY DEF Offset
<1> HIDE DEF t, m, l
<1>6. m \in 0 .. 31 /\ b \in Nat  BY MicroBounds DEF m, BlockSizes
<1>7. /\ m * b \in Int /\ (m * b) % 16 \in Int /\ t * 128 * b \in Int
      /\ (((y % 16) - (y % 8)) * 8) * b \in Int
  BY <1>2, <1>6
<1>8. Row(x, y, b) = (m * b - ((m * b) % 16)) * 2 + ((m * b) % 16) + (y % 2) * 16
  BY DEF Row, m
<1> QED  BY <1>3, <1>4, <1>5, <1>7, <1>8 DEF t, m, l

LEMMA ByteOffset ==
  ASSUME NEW b \in BlockSizes, NEW x \in Nat, NEW y \in Nat, NEW w \in Nat
  PROVE  XGAddress2DTiledOffset(x, y, w, b) =
           Swizzled(Offset(x, y, w, LogBpp(b)), x, y) \div b
BY LogBppIsExact DEF XGAddress2DTiledOffset, Shr

LEMMA RowBounds ==
  ASSUME NEW b \in BlockSizes, NEW x \in Nat, NEW y \in Nat
  PROVE  /\ Row(x, y, b) \in Int
         /\ 0 <= Row(x, y, b) /\ Row(x, y, b) < 64 * b
         /\ Row(x, y, b) % b = 0
<1>. DEFINE m == Micro(x, y)
<1>m. m \in 0 .. 31  BY MicroBounds
<1>y. y % 2 \in 0 .. 1  OBVIOUS
<1> HIDE DEF m
<1>1. CASE b = 1   BY <1>1, <1>m, <1>y DEF Row, m
<1>2. CASE b = 2   BY <1>2, <1>m, <1>y DEF Row, m
<1>3. CASE b = 4   BY <1>3, <1>m, <1>y DEF Row, m
<1>4. CASE b = 8   BY <1>4, <1>m, <1>y DEF Row, m
<1>5. CASE b = 16  BY <1>5, <1>m, <1>y DEF Row, m
<1> QED  BY <1>1, <1>2, <1>3, <1>4, <1>5 DEF BlockSizes

-----------------------------------------------------------------------------
(* What Swizzled makes of an offset: 4096 * page + 2048 * bit 4 of the row  *)
(* + 256 * three bits of the offset + 64 * column + six bits of the offset. *)

RowBit(y) == (y % 32) - (y % 16)
Column(x, y) == ((((y % 16) - (y % 8)) \div 4) + (x \div 8)) % 4

Page(o) == o \div 512
Middle(o) == ((o % 512) - (o % 64)) \div 64
Low(o) == o % 64

LEMMA OffsetBits ==
  ASSUME NEW o \in Nat
  PROVE  /\ Page(o) \in Nat /\ Middle(o) \in 0 .. 7 /\ Low(o) \in 0 .. 63
         /\ o = 512 * Page(o) + 64 * Middle(o) + Low(o)
         /\ o - (o % 512) = 512 * Page(o)
         /\ (o % 512) - (o % 64) = 64 * Middle(o)
BY DEF Page, Middle, Low

LEMMA RowBits ==
  ASSUME NEW x \in Nat, NEW y \in Nat
  PROVE  RowBit(y) \in {0, 16} /\ Column(x, y) \in 0 .. 3
BY DEF RowBit, Column

LEMMA SwizzledDigits ==
  ASSUME NEW o \in Nat, NEW x \in Nat, NEW y \in Nat
  PROVE  Swizzled(o, x, y) =
           4096 * Page(o) + 256 * Middle(o) + Low(o) + 128 * RowBit(y)
             + 64 * Column(x, y)
<1>1. Swizzled(o, x, y) =
        (o - (o % 512)) * 8 + ((o % 512) - (o % 64)) * 4 + Low(o)
        + RowBit(y) * 128 + Column(x, y) * 64
  BY DEF Swizzled, RowBit, Column, Low
<1>. DEFINE u == o - (o % 512)   v == (o % 512) - (o % 64)
            p == Page(o)   m == Middle(o)   l == Low(o)
            r == RowBit(y)   c == Column(x, y)
<1>2. u = 512 * p /\ v = 64 * m  BY OffsetBits, ZenonT(40)
<1>3. p \in Nat /\ m \in 0 .. 7 /\ l \in 0 .. 63  BY OffsetBits
<1>4. r \in {0, 16} /\ c \in 0 .. 3  BY RowBits
<1>5. Swizzled(o, x, y) = u * 8 + v * 4 + l + r * 128 + c * 64  BY <1>1
<1> HIDE DEF u, v, p, m, l, r, c
<1>6. Swizzled(o, x, y) = 4096 * p + 256 * m + l + 128 * r + 64 * c
  BY <1>2, <1>3, <1>4, <1>5
<1> QED  BY <1>6 DEF p, m, l, r, c

\* A number has one quotient and one remainder.
LEMMA DigitIsUnique ==
  ASSUME NEW n \in Nat, NEW a \in Nat, NEW b \in Nat, NEW i \in Nat, NEW j \in Nat,
         i < n, j < n, a * n + i = b * n + j
  PROVE  a = b /\ i = j
<1>1. ASSUME a < b PROVE FALSE
  <2>1. b * n >= (a + 1) * n  BY <1>1
  <2>2. (a + 1) * n = a * n + n  OBVIOUS
  <2>3. a * n \in Nat /\ b * n \in Nat  OBVIOUS
  <2> QED  BY <2>1, <2>2, <2>3
<1>2. ASSUME b < a PROVE FALSE
  <2>1. a * n >= (b + 1) * n  BY <1>2
  <2>2. (b + 1) * n = b * n + n  OBVIOUS
  <2>3. a * n \in Nat /\ b * n \in Nat  OBVIOUS
  <2> QED  BY <2>1, <2>2, <2>3
<1>3. a = b  BY <1>1, <1>2
<1>4. a * n \in Nat  OBVIOUS
<1> QED  BY <1>3, <1>4

LEMMA SwizzledIsInjective ==
  ASSUME NEW o \in Nat, NEW x \in Nat, NEW y \in Nat,
         NEW oo \in Nat, NEW xx \in Nat, NEW yy \in Nat,
         Swizzled(o, x, y) = Swizzled(oo, xx, yy)
  PROVE  o = oo /\ RowBit(y) = RowBit(yy) /\ Column(x, y) = Column(xx, yy)
<1>. DEFINE p == Page(o)   m == Middle(o)   l == Low(o)
            r == RowBit(y)   c == Column(x, y)
            q == Page(oo)   n == Middle(oo)   k == Low(oo)
            s == RowBit(yy)   d == Column(xx, yy)
<1>1. p \in Nat /\ m \in 0 .. 7 /\ l \in 0 .. 63 /\ o = 512 * p + 64 * m + l
  BY OffsetBits
<1>2. q \in Nat /\ n \in 0 .. 7 /\ k \in 0 .. 63 /\ oo = 512 * q + 64 * n + k
  BY OffsetBits
<1>3. r \in {0, 16} /\ c \in 0 .. 3 /\ s \in {0, 16} /\ d \in 0 .. 3  BY RowBits
<1>4. 4096 * p + 256 * m + l + 128 * r + 64 * c =
        4096 * q + 256 * n + k + 128 * s + 64 * d
  BY SwizzledDigits
<1> HIDE DEF p, m, l, r, c, q, n, k, s, d
<1>5. p = q
  <2>1. p * 4096 + (256 * m + l + 128 * r + 64 * c) =
          q * 4096 + (256 * n + k + 128 * s + 64 * d)
    BY <1>1, <1>2, <1>3, <1>4
  <2>2. /\ 256 * m + l + 128 * r + 64 * c \in Nat
        /\ 256 * m + l + 128 * r + 64 * c < 4096
        /\ 256 * n + k + 128 * s + 64 * d \in Nat
        /\ 256 * n + k + 128 * s + 64 * d < 4096
    BY <1>1, <1>2, <1>3
  <2> QED  BY <1>1, <1>2, <2>1, <2>2, DigitIsUnique
<1>6. r = s /\ m = n /\ c = d /\ l = k
  BY <1>1, <1>2, <1>3, <1>4, <1>5
<1> QED  BY <1>1, <1>2, <1>5, <1>6 DEF r, s, c, d

\* An offset of whole blocks stays one.
LEMMA SwizzledKeepsBlocks ==
  ASSUME NEW b \in BlockSizes, NEW o \in Nat, NEW x \in Nat, NEW y \in Nat,
         o % b = 0
  PROVE  /\ Swizzled(o, x, y) \in Nat /\ Swizzled(o, x, y) % b = 0
         /\ Swizzled(o, x, y) < 4096 * (Page(o) + 1)
<1>. DEFINE p == Page(o)   m == Middle(o)   l == Low(o)
            r == RowBit(y)   c == Column(x, y)
<1>1. p \in Nat /\ m \in 0 .. 7 /\ l \in 0 .. 63 /\ o = 512 * p + 64 * m + l
  BY OffsetBits
<1>2. r \in {0, 16} /\ c \in 0 .. 3  BY RowBits
<1>3. Swizzled(o, x, y) = 4096 * p + 256 * m + l + 128 * r + 64 * c
  BY SwizzledDigits
<1> HIDE DEF p, m, l, r, c
<1>4. (4096 * p + 256 * m + l + 128 * r + 64 * c) % b = 0
  <2>1. CASE b = 1   BY <2>1, <1>1, <1>2
  <2>2. CASE b = 2   BY <2>2, <1>1, <1>2
  <2>3. CASE b = 4   BY <2>3, <1>1, <1>2
  <2>4. CASE b = 8   BY <2>4, <1>1, <1>2
  <2>5. CASE b = 16  BY <2>5, <1>1, <1>2
  <2> QED  BY <2>1, <2>2, <2>3, <2>4, <2>5 DEF BlockSizes
<1> QED  BY <1>1, <1>2, <1>3, <1>4 DEF p
-----------------------------------------------------------------------------
(* The digits of an offset: the tile, bit 3 of the row, the rest.           *)

Half(y) == (y % 16) - (y % 8)

LEMMA RowIsInjective ==
  ASSUME NEW b \in BlockSizes, NEW x \in Nat, NEW y \in Nat,
         NEW xx \in Nat, NEW yy \in Nat, Row(x, y, b) = Row(xx, yy, b)
  PROVE  x % 8 = xx % 8 /\ y % 8 = yy % 8
<1>. DEFINE m == Micro(x, y) * b
            n == Micro(xx, yy) * b
<1>1. b \in Nat \ {0} /\ Micro(x, y) \in Nat /\ Micro(xx, yy) \in Nat
  BY MicroBounds DEF BlockSizes
<1>2. m \in Nat /\ n \in Nat  BY <1>1
<1>3. (m - (m % 16)) * 2 + (m % 16) + (y % 2) * 16 =
        (n - (n % 16)) * 2 + (n % 16) + (yy % 2) * 16
  BY DEF Row
<1>4. y % 2 \in 0 .. 1 /\ yy % 2 \in 0 .. 1  OBVIOUS
<1>5. m = n /\ y % 2 = yy % 2
  <2> HIDE DEF m, n
  <2>. DEFINE a == m \div 16   i == m % 16   d == n \div 16   j == n % 16
             e == y % 2   f == yy % 2
  <2>1. a \in Nat /\ i \in 0 .. 15 /\ m = 16 * a + i  BY <1>2
  <2>2. d \in Nat /\ j \in 0 .. 15 /\ n = 16 * d + j  BY <1>2
  <2>3. (m - i) * 2 + i + e * 16 = (n - j) * 2 + j + f * 16  BY <1>3
  <2>4. e \in 0 .. 1 /\ f \in 0 .. 1  BY <1>4
  <2> HIDE DEF a, i, d, j, e, f
  <2>5. a * 32 + (16 * e + i) = d * 32 + (16 * f + j)
    BY <2>1, <2>2, <2>3, <2>4
  <2>6. a = d /\ 16 * e + i = 16 * f + j
    BY <2>1, <2>2, <2>4, <2>5, DigitIsUnique
  <2>7. e = f /\ i = j  BY <2>1, <2>2, <2>4, <2>6
  <2> QED  BY <2>1, <2>2, <2>6, <2>7 DEF e, f
<1>6. Micro(x, y) = Micro(xx, yy)
  <2>1. Micro(x, y) * b + 0 = Micro(xx, yy) * b + 0  BY <1>1, <1>5
  <2> QED  BY <1>1, <2>1, DigitIsUnique
<1>7. x % 8 = xx % 8 /\ (y % 8) - (y % 2) = (yy % 8) - (yy % 2)
  BY <1>6 DEF Micro
<1> QED  BY <1>5, <1>7

LEMMA OffsetIsInjective ==
  ASSUME NEW b \in BlockSizes, NEW w \in Nat, NEW x \in Nat, NEW y \in Nat,
         NEW xx \in Nat, NEW yy \in Nat,
         Offset(x, y, w, LogBpp(b)) = Offset(xx, yy, w, LogBpp(b))
  PROVE  /\ Macro(x, y, w) = Macro(xx, yy, w)
         /\ Half(y) = Half(yy)
         /\ x % 8 = xx % 8 /\ y % 8 = yy % 8
<1>. DEFINE t == Macro(x, y, w)   h == Half(y)   e == Row(x, y, b)
            v == Macro(xx, yy, w)   g == Half(yy)   f == Row(xx, yy, b)
<1>1. t \in Nat /\ v \in Nat  BY MacroType
<1>2. h \in {0, 8} /\ g \in {0, 8}  BY DEF Half
<1>3. e \in Nat /\ e < 64 * b /\ f \in Nat /\ f < 64 * b /\ b \in Nat
  <2>1. e \in Int /\ 0 <= e /\ e < 64 * b  BY RowBounds
  <2>2. f \in Int /\ 0 <= f /\ f < 64 * b  BY RowBounds
  <2>3. b \in Nat  BY DEF BlockSizes
  <2> HIDE DEF e, f
  <2> QED  BY <2>1, <2>2, <2>3
<1>4. t * 128 * b + (h * 8) * b + e = v * 128 * b + (g * 8) * b + f
  BY OffsetDigits DEF Half
<1> HIDE DEF t, h, e, v, g, f
<1>5. t = v
  <2>1. t * (128 * b) + ((h * 8) * b + e) = v * (128 * b) + ((g * 8) * b + f)
    <3>1. t * 128 * b = t * (128 * b) /\ v * 128 * b = v * (128 * b)
      BY <1>1, <1>3
    <3> QED  BY <1>1, <1>2, <1>3, <1>4, <3>1
  <2>2. /\ (h * 8) * b + e \in Nat /\ (h * 8) * b + e < 128 * b
        /\ (g * 8) * b + f \in Nat /\ (g * 8) * b + f < 128 * b
    BY <1>2, <1>3
  <2>3. 128 * b \in Nat  BY <1>3
  <2> QED  BY <1>1, <2>1, <2>2, <2>3, DigitIsUnique
<1>6. h = g /\ e = f
  <2>1. (h * 8) * b + e = (g * 8) * b + f
    <3>1. /\ t * 128 * b \in Int /\ (h * 8) * b \in Int /\ (g * 8) * b \in Int
      BY <1>1, <1>2, <1>3
    <3> QED  BY <1>3, <1>4, <1>5, <3>1
  <2> QED  BY <1>2, <1>3, <2>1
<1>7. x % 8 = xx % 8 /\ y % 8 = yy % 8  BY <1>6, RowIsInjective DEF e, f
<1> QED  BY <1>5, <1>6, <1>7 DEF t, v, h, g

\* A block of a surface of this width has a tile of its own column and row.
LEMMA MacroIsInjective ==
  ASSUME NEW w \in Nat, NEW x \in 0 .. w - 1, NEW y \in Nat,
         NEW xx \in 0 .. w - 1, NEW yy \in Nat,
         Macro(x, y, w) = Macro(xx, yy, w)
  PROVE  x \div 32 = xx \div 32 /\ y \div 32 = yy \div 32
<1>. DEFINE a == Align32(w) \div 32
            i == x \div 32   s == y \div 32   j == xx \div 32   r == yy \div 32
<1>1. a \in Nat /\ w <= 32 * a  BY AlignBounds
<1>2. i \in Nat /\ s \in Nat /\ j \in Nat /\ r \in Nat  OBVIOUS
<1>3. i < a /\ j < a
  <2> HIDE DEF a
  <2> QED  BY <1>1
<1>4. s * a + i = r * a + j
  <2>1. i + s * a = j + r * a  BY DEF Macro
  <2> HIDE DEF a, i, j, s, r
  <2>2. s * a \in Nat /\ r * a \in Nat  BY <1>1, <1>2
  <2> QED  BY <1>1, <1>2, <2>1, <2>2
<1> HIDE DEF a, i, s, j, r
<1>5. s = r /\ i = j  BY <1>1, <1>2, <1>3, <1>4, DigitIsUnique
<1> QED  BY <1>5 DEF i, s, j, r
-----------------------------------------------------------------------------

LEMMA OffsetIsWhole ==
  ASSUME NEW b \in BlockSizes, NEW x \in Nat, NEW y \in Nat, NEW w \in Nat
  PROVE  /\ Offset(x, y, w, LogBpp(b)) \in Nat
         /\ Offset(x, y, w, LogBpp(b)) % b = 0
         /\ Offset(x, y, w, LogBpp(b)) < (Macro(x, y, w) + 1) * (128 * b)
<1>. DEFINE t == Macro(x, y, w)   h == Half(y)   e == Row(x, y, b)
            o == Offset(x, y, w, LogBpp(b))
<1>1. t \in Nat  BY MacroType
<1>2. h \in {0, 8}  BY DEF Half
<1>3. e \in Int /\ 0 <= e /\ e < 64 * b /\ e % b = 0  BY RowBounds
<1>4. o = t * 128 * b + (h * 8) * b + e  BY OffsetDigits DEF Half
<1> HIDE DEF t, h, e, o
<1>5. CASE b = 1   BY <1>1, <1>2, <1>3, <1>4, <1>5 DEF t, o
<1>6. CASE b = 2   BY <1>1, <1>2, <1>3, <1>4, <1>6 DEF t, o
<1>7. CASE b = 4   BY <1>1, <1>2, <1>3, <1>4, <1>7 DEF t, o
<1>8. CASE b = 8   BY <1>1, <1>2, <1>3, <1>4, <1>8 DEF t, o
<1>9. CASE b = 16  BY <1>1, <1>2, <1>3, <1>4, <1>9 DEF t, o
<1> QED  BY <1>5, <1>6, <1>7, <1>8, <1>9 DEF BlockSizes

\* No two blocks of a surface share a place.
LEMMA PlacesAreDistinct ==
  ASSUME NEW b \in BlockSizes, NEW w \in Nat,
         NEW x \in 0 .. w - 1, NEW y \in Nat,
         NEW xx \in 0 .. w - 1, NEW yy \in Nat,
         XGAddress2DTiledOffset(x, y, w, b) = XGAddress2DTiledOffset(xx, yy, w, b)
  PROVE  x = xx /\ y = yy
<1>. DEFINE o == Offset(x, y, w, LogBpp(b))
            p == Offset(xx, yy, w, LogBpp(b))
<1>1. x \in Nat /\ xx \in Nat  OBVIOUS
<1>2. o \in Nat /\ o % b = 0 /\ p \in Nat /\ p % b = 0
  BY <1>1, OffsetIsWhole
<1>3. Swizzled(o, x, y) \div b = Swizzled(p, xx, yy) \div b
  BY <1>1, ByteOffset
<1> HIDE DEF o, p
<1>4. /\ Swizzled(o, x, y) \in Nat /\ Swizzled(o, x, y) % b = 0
      /\ Swizzled(p, xx, yy) \in Nat /\ Swizzled(p, xx, yy) % b = 0
  BY <1>1, <1>2, SwizzledKeepsBlocks
<1>5. Swizzled(o, x, y) = Swizzled(p, xx, yy)
  <2>. DEFINE f == Swizzled(o, x, y)   g == Swizzled(p, xx, yy)
  <2>1. f \in Nat /\ f % b = 0 /\ g \in Nat /\ g % b = 0 /\ f \div b = g \div b
    BY <1>3, <1>4
  <2> HIDE DEF f, g
  <2>2. ASSUME b = 1 PROVE f = g   BY <2>1, <2>2
  <2>3. ASSUME b = 2 PROVE f = g   BY <2>1, <2>3
  <2>4. ASSUME b = 4 PROVE f = g   BY <2>1, <2>4
  <2>5. ASSUME b = 8 PROVE f = g   BY <2>1, <2>5
  <2>6. ASSUME b = 16 PROVE f = g  BY <2>1, <2>6
  <2>7. f = g  BY <2>2, <2>3, <2>4, <2>5, <2>6 DEF BlockSizes
  <2> QED  BY <2>7 DEF f, g
<1>6. o = p /\ RowBit(y) = RowBit(yy) /\ Column(x, y) = Column(xx, yy)
  BY <1>1, <1>2, <1>5, SwizzledIsInjective, SMTT(30)
<1>7. /\ Macro(x, y, w) = Macro(xx, yy, w) /\ Half(y) = Half(yy)
      /\ x % 8 = xx % 8 /\ y % 8 = yy % 8
  BY <1>1, <1>6, OffsetIsInjective DEF o, p
<1>8. x \div 32 = xx \div 32 /\ y \div 32 = yy \div 32
  BY <1>7, MacroIsInjective
<1>9. y = yy
  <2>1. y % 16 = yy % 16  BY <1>7 DEF Half
  <2>2. y % 32 = yy % 32  BY <1>6, <2>1 DEF RowBit
  <2> QED  BY <1>8, <2>2
<1>10. (x \div 8) % 4 = (xx \div 8) % 4
  <2>. DEFINE i == x \div 8   j == xx \div 8   h == Half(y) \div 4
  <2>1. i \in Nat /\ j \in Nat /\ h \in {0, 2}  BY <1>1 DEF Half
  <2>2. (h + i) % 4 = (h + j) % 4  BY <1>6, <1>7 DEF Column, Half
  <2> HIDE DEF i, j, h
  <2>3. i % 4 = j % 4  BY <2>1, <2>2
  <2> QED  BY <2>3 DEF i, j
<1>11. x = xx
  <2>1. x \div 8 = xx \div 8
    <3>1. x \div 8 = 4 * (x \div 32) + ((x \div 8) % 4)  BY <1>1
    <3>2. xx \div 8 = 4 * (xx \div 32) + ((xx \div 8) % 4)  BY <1>1
    <3> QED  BY <1>8, <1>10, <3>1, <3>2
  <2> QED  BY <1>1, <1>7, <2>1
<1> QED  BY <1>9, <1>11

\* The tiles of a surface are numbered from 0.
LEMMA MacroBound ==
  ASSUME NEW w \in Nat, NEW h \in Nat, NEW x \in 0 .. w - 1, NEW y \in 0 .. h - 1
  PROVE  Macro(x, y, w) + 1 <= (Align32(w) \div 32) * (Align32(h) \div 32)
<1>. DEFINE a == Align32(w) \div 32   c == Align32(h) \div 32
            i == x \div 32   s == y \div 32
<1>1. a \in Nat /\ w <= 32 * a /\ c \in Nat /\ h <= 32 * c  BY AlignBounds
<1>2. i \in Nat /\ s \in Nat  OBVIOUS
<1>3. i + 1 <= a /\ s + 1 <= c
  <2> HIDE DEF a, c
  <2> QED  BY <1>1
<1>4. Macro(x, y, w) = i + s * a  BY DEF Macro
<1> HIDE DEF a, c, i, s
<1>5. (s + 1) * a <= c * a  BY <1>1, <1>2, <1>3
<1>6. (s + 1) * a = s * a + a /\ c * a = a * c  BY <1>1, <1>2
<1>7. s * a \in Nat /\ a * c \in Nat  BY <1>1, <1>2
<1> QED  BY <1>1, <1>2, <1>3, <1>4, <1>5, <1>6, <1>7 DEF a, c

\* Where a surface is whole pages, no block of it lies beyond them.
LEMMA PlacesAreInside ==
  ASSUME NEW b \in BlockSizes, NEW w \in Nat, NEW h \in Nat,
         NEW x \in 0 .. w - 1, NEW y \in 0 .. h - 1,
         WholePages(<<w, h, b>>)
  PROVE  (XGAddress2DTiledOffset(x, y, w, b) + 1) * b <=
           Align32(w) * Align32(h) * b
<1>. DEFINE o == Offset(x, y, w, LogBpp(b))   f == Swizzled(o, x, y)
            n == (Align32(w) \div 32) * (Align32(h) \div 32)
            t == Macro(x, y, w)
<1>1. x \in Nat /\ y \in Nat  OBVIOUS
<1>2. o \in Nat /\ o % b = 0 /\ o < (t + 1) * (128 * b)
  <2>1. /\ o \in Nat /\ o % b = 0
        /\ o < (Macro(x, y, w) + 1) * (128 * b)
    BY <1>1, OffsetIsWhole
  <2> QED  BY <2>1
<1>3. f \in Nat /\ f % b = 0 /\ f < 4096 * (Page(o) + 1)
  BY <1>1, <1>2, SwizzledKeepsBlocks
<1>4. t \in Nat /\ t + 1 <= n
  <2>1. Macro(x, y, w) \in Nat  BY <1>1, MacroType
  <2>2. Macro(x, y, w) + 1 <= (Align32(w) \div 32) * (Align32(h) \div 32)
    BY MacroBound
  <2> QED  BY <2>1, <2>2
<1>5. n \in Nat /\ Align32(w) * Align32(h) = 1024 * n
  <2>. DEFINE a == Align32(w) \div 32   c == Align32(h) \div 32
  <2>1. a \in Nat /\ c \in Nat /\ Align32(w) = 32 * a /\ Align32(h) = 32 * c
    BY AlignBounds
  <2> HIDE DEF a, c
  <2>2. a * c \in Nat /\ (32 * a) * (32 * c) = 1024 * (a * c)  BY <2>1
  <2>3. Align32(w) * Align32(h) = (32 * a) * (32 * c)  BY <2>1
  <2> QED  BY <2>2, <2>3 DEF a, c
<1>6. XGAddress2DTiledOffset(x, y, w, b) = f \div b  BY <1>1, ByteOffset
<1>7. Page(o) = o \div 512  BY DEF Page
<1> HIDE DEF o, f, n, t
<1>8. (1024 * n * b) % 4096 = 0
  BY <1>5 DEF WholePages, TiledSizeBytes
<1>9. (f \div b + 1) * b <= 1024 * n * b
  <2>1. CASE b = 1   BY <1>2, <1>3, <1>4, <1>5, <1>7, <1>8, <2>1
  <2>2. CASE b = 2   BY <1>2, <1>3, <1>4, <1>5, <1>7, <1>8, <2>2
  <2>3. CASE b = 4   BY <1>2, <1>3, <1>4, <1>5, <1>7, <1>8, <2>3
  <2>4. CASE b = 8   BY <1>2, <1>3, <1>4, <1>5, <1>7, <1>8, <2>4
  <2>5. CASE b = 16  BY <1>2, <1>3, <1>4, <1>5, <1>7, <1>8, <2>5
  <2> QED  BY <2>1, <2>2, <2>3, <2>4, <2>5 DEF BlockSizes
<1> QED  BY <1>5, <1>6, <1>9

\* What Tile wrote Untile reads back, and, of a surface of whole pages, within
\* TiledSizeBytes: for every width, height and size of a block.
THEOREM TexturesCorrect == SurfacesKeepTheirBlocks
<1> SUFFICES ASSUME NEW u \in Surfaces PROVE StaysInside(u) /\ RoundTrip(u)
  BY DEF SurfacesKeepTheirBlocks
<1>. DEFINE w == u[1]   h == u[2]   b == u[3]   at == PlaceOf(u)
<1>1. w \in Nat /\ h \in Nat /\ b \in BlockSizes  BY SurfaceAssumption
<1>2. Blocks(u) = (0 .. w - 1) \X (0 .. h - 1)  BY DEF Blocks
<1>3. \A p \in Blocks(u) : at[p] = XGAddress2DTiledOffset(p[1], p[2], w, b)
  BY DEF PlaceOf
<1>4. \A p \in Blocks(u) :
        p[1] \in 0 .. w - 1 /\ p[2] \in 0 .. h - 1 /\ p[2] \in Nat /\ p = <<p[1], p[2]>>
  BY <1>1, <1>2
<1>5. \A p, q \in Blocks(u) : at[p] = at[q] => p = q
  <2> SUFFICES ASSUME NEW p \in Blocks(u), NEW q \in Blocks(u), at[p] = at[q]
               PROVE  p = q
    OBVIOUS
  <2>1. p[1] = q[1] /\ p[2] = q[2]  BY <1>1, <1>3, <1>4, PlacesAreDistinct
  <2> QED  BY <1>4, <2>1
<1>6. StaysInside(u)
  <2> SUFFICES ASSUME WholePages(u), NEW p \in Blocks(u)
               PROVE  (at[p] + 1) * b <= TiledSizeBytes(u)
    BY DEF StaysInside
  <2>1. WholePages(<<w, h, b>>)  BY DEF WholePages, TiledSizeBytes
  <2>2. (XGAddress2DTiledOffset(p[1], p[2], w, b) + 1) * b <=
          Align32(w) * Align32(h) * b
    BY <1>1, <1>4, <2>1, PlacesAreInside
  <2> QED  BY <1>3, <2>2 DEF TiledSizeBytes
<1>7. RoundTrip(u)
  <2>. DEFINE lin == [p \in Blocks(u) |-> p]
              last(o) == CHOOSE p \in Blocks(u) :
                           /\ PlaceOf(u)[p] = o
                           /\ \A q \in Blocks(u) : PlaceOf(u)[q] = o => ~ Later(q, p)
  <2>1. \A p \in Blocks(u) : ~ Later(p, p)  BY <1>1, <1>4 DEF Later
  <2>2. \A p \in Blocks(u) : last(PlaceOf(u)[p]) = p  BY <1>5, <2>1
  <2>3. \A p \in Blocks(u) : Tile(lin, u)[PlaceOf(u)[p]] = p
    BY <2>2 DEF Tile
  <2>4. Untile(Tile(lin, u), u) = [p \in Blocks(u) |-> Tile(lin, u)[PlaceOf(u)[p]]]
    BY DEF Untile
  <2> QED  BY <2>3, <2>4 DEF RoundTrip
<1> QED  BY <1>6, <1>7
-----------------------------------------------------------------------------
(* What the text routine decodes has every block where the title put it,    *)
(* for atlases of every shape.                                              *)
THEOREM AtlasesCorrect == Spec => []TexturesKeepTheirBlocks
<1>1. TexturesKeepTheirBlocks
  BY TexturesCorrect DEF TexturesKeepTheirBlocks
<1> QED BY <1>1, PTL

(* Composed text consists of the glyphs of its labels and only gets fuller. *)
THEOREM TextCorrect == Spec => TextOnlyImproves
<1> DEFINE Improves == mode = "recon" /\ tex' # tex =>
             /\ \A k \in tex' : k.glyphs = k.label
             /\ \A k \in tex : \E j \in tex' :
                  j.base = k.base /\ j.label = k.label /\ j.n >= k.n
<1>1. IInv /\ [Next]_vars => [Improves]_vars
  <2> SUFFICES ASSUME IInv, [Next]_vars, mode = "recon", tex' # tex
               PROVE  /\ Clear(tex') /\ Covers(tex', tex)
    BY Zenon DEF Clear, Covers
  <2>1. tex' = recon.frame
    BY PictureSteps DEF UploadRecon, UploadAtlas, Draw, WriteCapture, contents
  <2> QED BY <2>1, Zenon DEF IInv, TextInv
<1> QED BY <1>1, Inductive, PTL DEF TextOnlyImproves, Spec
-----------------------------------------------------------------------------
(* A whole frame on the screen is never older than one shown before it.     *)
(* The theorem is about time: a frame that is whole has settled before the  *)
(* decoder begins the next, one that is being written over has not.         *)
Timing == 3 <= Pace /\ Stall <= 2

(* The newest frame that is whole in its buffer.                            *)
Last == IF decoder.half THEN decoder.frame - 1 ELSE decoder.frame
Bottom(s) == movie.pool[s].bottom
Filled(s) == Bottom(s) # 0

(* The decoder goes round the buffers with ever newer frames.               *)
FramesInv ==
  /\ decoder.half => decoder.frame > 0 /\ movie.pool[decoder.slot].top = decoder.frame
  /\ decoder.frame > 0 => movie.count = decoder.slots /\ Slots = 1 .. decoder.slots
  /\ \A s \in Slots :
       /\ movie.pool[s].top <= decoder.frame /\ Bottom(s) <= Last
       /\ movie.sig[s].top <= decoder.frame /\ movie.sig[s].bottom <= Last
       /\ Filled(s) => movie.pool[s].top # 0
       /\ \A t \in Slots : Filled(s) /\ Bottom(s) = Bottom(t) => s = t
  /\ Last > 0 => \E s \in Slots : Bottom(s) = Last /\ (s = decoder.slot => Slots = {s})

(* The samples since a buffer was written last are those it was unchanged   *)
(* in.  All buffers but that one have settled.                              *)
Known(s) == Filled(s) /\ movie.sig[s] = movie.pool[s] /\ movie.stable[s] = 2
Counted(s) ==
  IF decoder.since = 0 THEN movie.sig[s] # movie.pool[s]
  ELSE movie.sig[s] = movie.pool[s] /\ movie.stable[s] = Lesser(decoder.since - 1, 2)
SettledInv ==
  \A s \in Slots : Filled(s) =>
    IF decoder.half /\ s = decoder.slot THEN Counted(s) /\ decoder.since <= 2
    ELSE IF ~decoder.half /\ Bottom(s) = Last THEN Counted(s)
    ELSE Known(s)

(* Settled buffers have the order of their frames.                          *)
AgesInv ==
  \A s \in Slots :
    /\ movie.age[s] <= Cardinality(Slots)
    /\ Known(s) => movie.age[s] # 0
    /\ \A t \in Slots : Known(s) /\ Known(t) /\ Bottom(s) < Bottom(t) =>
                          movie.age[s] < movie.age[t]

(* What is selected is settled, no older than what was shown whole, and the *)
(* newest there is when the decoder begins.                                 *)
SelectedInv ==
  /\ movie.sel = 0 => movie.whole = 0
  /\ movie.sel # 0 => /\ Filled(movie.sel) /\ movie.whole <= Bottom(movie.sel)
                      /\ (Known(movie.sel) \/ Slots = {movie.sel})
  /\ ~decoder.half /\ decoder.since >= 3 /\ Last > 0 =>
       movie.sel # 0 /\ Bottom(movie.sel) = Last

(* What the steps do to the movie, field by field.                          *)
LEMMA SampleIs ==
  ASSUME MovieTypes, Sample
  PROVE  /\ movie'.pool = movie.pool /\ movie'.count = movie.count
         /\ movie'.whole = movie.whole /\ movie'.shown = movie.shown
         /\ movie'.sig = [s \in Slots |-> IF s <= movie.count THEN movie.pool[s]
                                         ELSE movie.sig[s]]
         /\ movie'.stable = [s \in Slots |-> IF s <= movie.count THEN StableNow(s)
                                            ELSE movie.stable[s]]
         /\ movie'.age = AgeNow
         /\ movie'.sel = (IF Clean # {} THEN Freshest ELSE movie.sel)
         /\ decoder'.frame = decoder.frame /\ decoder'.half = decoder.half
         /\ decoder'.slot = decoder.slot /\ decoder'.slots = decoder.slots
         /\ decoder'.since = Lesser(decoder.since + 1, Pace)
         /\ WritesOver => decoder.since < Stall
BY DEF Sample, PickVideo, MovieTypes

LEMMA BeginIs ==
  ASSUME MovieTypes, BeginFrame
  PROVE  /\ movie'.pool = [movie.pool EXCEPT ![decoder.slot].top = decoder.frame + 1]
         /\ movie'.count = movie.count /\ movie'.whole = movie.whole
         /\ movie'.shown = movie.shown /\ movie'.sig = movie.sig
         /\ movie'.stable = movie.stable /\ movie'.age = movie.age
         /\ movie'.sel = movie.sel
         /\ movie.count = decoder.slots /\ Slots = 1 .. decoder.slots
         /\ ~decoder.half /\ decoder'.half /\ decoder.since = Pace /\ decoder'.since = 0
         /\ decoder'.frame = decoder.frame + 1 /\ decoder'.slots = decoder.slots
         /\ decoder'.slot = decoder.slot
BY DEF BeginFrame, MovieTypes

LEMMA EndIs ==
  ASSUME MovieTypes, EndFrame
  PROVE  /\ movie'.pool = [movie.pool EXCEPT ![decoder.slot].bottom = decoder.frame]
         /\ movie'.count = movie.count /\ movie'.whole = movie.whole
         /\ movie'.shown = movie.shown /\ movie'.sig = movie.sig
         /\ movie'.stable = movie.stable /\ movie'.age = movie.age
         /\ movie'.sel = movie.sel
         /\ decoder.half /\ ~decoder'.half /\ decoder'.since = 0
         /\ decoder'.frame = decoder.frame /\ decoder'.slots = decoder.slots
         /\ decoder'.slot = (decoder.slot % decoder.slots) + 1
BY DEF EndFrame, MovieTypes

LEMMA FillIs ==
  ASSUME MovieTypes, FillVideo
  PROVE  /\ movie'.pool = movie.pool /\ movie'.count = movie.count
         /\ movie'.sig = movie.sig /\ movie'.stable = movie.stable
         /\ movie'.age = movie.age /\ movie'.sel = movie.sel
         /\ movie'.shown = movie.pool[movie.sel]
         /\ movie'.whole = IF movie.pool[movie.sel].top = movie.pool[movie.sel].bottom
                           THEN movie.pool[movie.sel].top ELSE movie.whole
         /\ pc = "fill"
BY DEF FillVideo, MovieTypes

(* No other step touches the frames or what is known of them.               *)
LEMMA MovieRest ==
  ASSUME MovieTypes, FramesInv, [Next]_vars
  PROVE  \/ Sample \/ BeginFrame \/ EndFrame \/ (FillVideo /\ UNCHANGED decoder)
         \/ /\ movie'.pool = movie.pool /\ movie'.sig = movie.sig
            /\ movie'.stable = movie.stable /\ movie'.age = movie.age
            /\ movie'.sel = movie.sel /\ movie'.whole = movie.whole
            /\ movie'.shown = movie.shown
            /\ decoder'.frame = decoder.frame /\ decoder'.half = decoder.half
            /\ decoder'.slot = decoder.slot /\ decoder'.since = decoder.since
            /\ decoder.frame > 0 => /\ decoder'.slots = decoder.slots
                                    /\ movie'.count = movie.count
<1>1. CASE AllocateSlot
  <2>1. /\ decoder' = [decoder EXCEPT !.slots = @ + 1] /\ movie' = movie
        /\ decoder.slots + 1 \in Slots
    BY <1>1 DEF AllocateSlot, renderVars, contents
  <2>2. decoder.slots \in Nat
    <3>1. decoder.slots \in Slots \union {0}
      BY DEF MovieTypes
    <3>2. \A s \in Slots : s \in Nat
      BY SlotsTyped
    <3> QED BY <3>1, <3>2
  <2>3. ~(decoder.frame > 0)
    BY <2>1, <2>2 DEF FramesInv
  <2> QED BY <2>1, <2>3 DEF MovieTypes
<1>2. CASE EndSwap
  <2>1. /\ movie' = [movie EXCEPT !.count = decoder.slots] /\ decoder' = decoder
    BY <1>2 DEF EndSwap, PublishAndPresent
  <2>2. decoder.frame > 0 => movie.count = decoder.slots
    BY DEF FramesInv
  <2> QED BY <2>1, <2>2 DEF MovieTypes
<1>3. CASE UNCHANGED <<movie, decoder>>
  BY <1>3
<1> HIDE DEF FramesInv, MovieTypes
<1> QED BY <1>1, <1>2, <1>3, MovieSteps

(* The halves of the buffers are numbers of frames.                         *)
LEMMA HalvesTyped ==
  ASSUME MovieTypes
  PROVE  /\ decoder.frame \in Nat /\ decoder.since \in Nat /\ Last \in Int
         /\ decoder.slot \in Slots /\ decoder.half \in BOOLEAN
         /\ movie.count \in Slots \union {0} /\ movie.sel \in Slots \union {0}
         /\ movie.whole \in Nat
         /\ \A s \in Slots :
              /\ movie.pool[s] \in Halves /\ movie.sig[s] \in Halves
              /\ movie.pool[s].top \in Nat /\ Bottom(s) \in Nat
              /\ movie.sig[s].top \in Nat /\ movie.sig[s].bottom \in Nat
              /\ movie.stable[s] \in 0 .. 2 /\ movie.age[s] \in Nat
<1>1. /\ decoder.frame \in 0 .. MaxFrames /\ decoder.since \in 0 .. Pace
      /\ decoder.slot \in Slots /\ decoder.half \in BOOLEAN
      /\ movie.count \in Slots \union {0} /\ movie.sel \in Slots \union {0}
      /\ movie.whole \in 0 .. MaxFrames
  BY DEF MovieTypes
<1>2. \A s \in Slots : /\ movie.pool[s] \in Halves /\ movie.sig[s] \in Halves
                       /\ movie.stable[s] \in 0 .. 2 /\ movie.age[s] \in Nat
  BY DEF MovieTypes
<1>3. \A h \in Halves : h.top \in Nat /\ h.bottom \in Nat
  BY Bounds DEF Halves
<1> QED BY <1>1, <1>2, <1>3, Bounds DEF Last, Bottom

LEMMA BeginPool ==
  ASSUME MovieTypes, BeginFrame, NEW s \in Slots
  PROVE  /\ Bottom(s)' = Bottom(s)
         /\ movie'.pool[s].top = IF s = decoder.slot THEN decoder.frame + 1
                                 ELSE movie.pool[s].top
         /\ s # decoder.slot => movie'.pool[s] = movie.pool[s]
<1>1. movie.pool \in [Slots -> Halves] /\ movie.pool[s] \in Halves
  BY DEF MovieTypes
<1>2. movie'.pool = [movie.pool EXCEPT ![decoder.slot].top = decoder.frame + 1]
  BY BeginIs
<1> QED BY <1>1, <1>2 DEF Bottom, Halves

LEMMA EndPool ==
  ASSUME MovieTypes, EndFrame, NEW s \in Slots
  PROVE  /\ Bottom(s)' = IF s = decoder.slot THEN decoder.frame ELSE Bottom(s)
         /\ movie'.pool[s].top = movie.pool[s].top
         /\ s # decoder.slot => movie'.pool[s] = movie.pool[s]
<1>1. movie.pool \in [Slots -> Halves] /\ movie.pool[s] \in Halves
  BY DEF MovieTypes
<1>2. movie'.pool = [movie.pool EXCEPT ![decoder.slot].bottom = decoder.frame]
  BY EndIs
<1> QED BY <1>1, <1>2 DEF Bottom, Halves

LEMMA SamplePool ==
  ASSUME MovieTypes, FramesInv, Sample, NEW s \in Slots
  PROVE  /\ movie'.pool[s] = movie.pool[s] /\ Bottom(s)' = Bottom(s)
         /\ movie'.sig[s] = movie.pool[s] \/ movie'.sig[s] = movie.sig[s]
         /\ decoder.frame > 0 => /\ s \in 1 .. movie.count
                                 /\ movie'.sig[s] = movie.pool[s]
                                 /\ movie'.stable[s] = StableNow(s)
<1>1. decoder.frame > 0 => s \in 1 .. movie.count /\ s <= movie.count
  <2>1. decoder.frame > 0 => movie.count = decoder.slots /\ Slots = 1 .. decoder.slots
    BY DEF FramesInv
  <2>2. decoder.slots \in Slots \union {0}
    BY DEF MovieTypes
  <2>3. \A n \in Slots : n \in Nat
    BY SlotsTyped
  <2> QED BY <2>1, <2>2, <2>3
<1> QED BY <1>1, SampleIs DEF Bottom

(* With one buffer only the decoder comes back to the same.                 *)
LEMMA NextDiffers ==
  ASSUME NEW n \in Nat \ {0}, NEW s \in 1 .. n, (s % n) + 1 = s
  PROVE  n = 1
<1>1. CASE s < n
  <2>1. s % n = s
    BY <1>1
  <2> QED BY <2>1
<1>2. CASE s = n
  <2>1. s % n = 0
    BY <1>2
  <2> QED BY <1>2, <2>1
<1> QED BY <1>1, <1>2

LEMMA FramesStep ==
  ASSUME MovieTypes, MovieInv, MovieTypes', FramesInv, [Next]_vars
  PROVE  FramesInv'
<1> DEFINE F == decoder.frame
           d == decoder.slot
<1>0. /\ F \in Nat /\ d \in Slots /\ decoder.half \in BOOLEAN /\ Last \in Int
      /\ \A s \in Slots : /\ movie.pool[s].top \in Nat /\ Bottom(s) \in Nat
                          /\ movie.sig[s].top \in Nat /\ movie.sig[s].bottom \in Nat
  BY HalvesTyped
<1>1. CASE Sample
  <2>1. UNCHANGED <<decoder.frame, decoder.half, decoder.slot, decoder.slots>>
        /\ movie'.count = movie.count /\ Last' = Last
    BY <1>1, SampleIs DEF Last
  <2>2. \A s \in Slots :
          /\ movie'.pool[s] = movie.pool[s] /\ Bottom(s)' = Bottom(s)
          /\ movie'.sig[s] = movie.pool[s] \/ movie'.sig[s] = movie.sig[s]
    BY <1>1, SamplePool
  <2>3. movie'.pool[d] = movie.pool[d]
    BY <1>0, <2>2
  <2> QED BY <2>1, <2>2, <2>3 DEF FramesInv, Filled, Bottom
<1>2. CASE BeginFrame
  <2>1. /\ decoder'.frame = F + 1 /\ decoder'.half /\ ~decoder.half
        /\ decoder'.slot = d /\ decoder'.slots = decoder.slots
        /\ movie'.count = movie.count /\ movie'.sig = movie.sig
        /\ movie.count = decoder.slots /\ Slots = 1 .. decoder.slots
    BY <1>2, BeginIs
  <2>2. Last' = Last /\ Last = F
    BY <1>0, <2>1 DEF Last
  <2>3. \A s \in Slots : /\ Bottom(s)' = Bottom(s)
                         /\ movie'.pool[s].top = IF s = d THEN F + 1
                                                 ELSE movie.pool[s].top
    BY <1>2, BeginPool
  <2>4. ASSUME NEW s \in Slots
        PROVE  /\ movie'.pool[s].top <= F + 1 /\ Bottom(s)' <= Last'
               /\ movie'.sig[s].top <= F + 1 /\ movie'.sig[s].bottom <= Last'
               /\ Filled(s)' => movie'.pool[s].top # 0
    <3>1. /\ movie.pool[s].top <= F /\ Bottom(s) <= Last
          /\ movie.sig[s].top <= F /\ movie.sig[s].bottom <= Last
          /\ Filled(s) => movie.pool[s].top # 0
      BY DEF FramesInv
    <3> QED BY <1>0, <2>1, <2>2, <2>3, <3>1 DEF Filled
  <2>5. \A s, t \in Slots : Filled(s)' /\ Bottom(s)' = Bottom(t)' => s = t
    BY <2>3 DEF FramesInv, Filled
  <2>6. Last' > 0 => \E s \in Slots : Bottom(s)' = Last' /\ (s = d => Slots = {s})
    BY <2>2, <2>3 DEF FramesInv
  <2> QED BY <1>0, <2>1, <2>3, <2>4, <2>5, <2>6 DEF FramesInv
<1>3. CASE EndFrame
  <2>1. /\ decoder'.frame = F /\ ~decoder'.half /\ decoder.half
        /\ decoder'.slot = (d % decoder.slots) + 1 /\ decoder'.slots = decoder.slots
        /\ movie'.count = movie.count /\ movie'.sig = movie.sig
    BY <1>3, EndIs
  <2>2. Last' = F /\ Last = F - 1 /\ F > 0 /\ movie.pool[d].top = F
    BY <2>1 DEF Last, FramesInv
  <2>3. \A s \in Slots : /\ Bottom(s)' = IF s = d THEN F ELSE Bottom(s)
                         /\ movie'.pool[s].top = movie.pool[s].top
    BY <1>3, EndPool
  <2>4. \A s \in Slots :
          /\ movie'.pool[s].top <= F /\ Bottom(s)' <= Last'
          /\ movie'.sig[s].top <= F /\ movie'.sig[s].bottom <= Last'
          /\ Filled(s)' => movie'.pool[s].top # 0
    BY <1>0, <2>1, <2>2, <2>3 DEF FramesInv, Filled
  <2>5. \A s, t \in Slots : Filled(s)' /\ Bottom(s)' = Bottom(t)' => s = t
    BY <1>0, <2>2, <2>3 DEF FramesInv, Filled
  <2>6. decoder'.slot = d => Slots = {d}
    <3>1. Slots = 1 .. decoder.slots /\ d \in 1 .. decoder.slots
      BY <1>0, <2>2 DEF FramesInv
    <3>2. decoder.slots \in Nat \ {0}
      <4>1. decoder.slots \in Slots \union {0}
        BY DEF MovieTypes
      <4> QED BY <3>1, <4>1
    <3>3. ASSUME decoder'.slot = d PROVE decoder.slots = 1
      BY <2>1, <3>1, <3>2, <3>3, NextDiffers
    <3> QED BY <3>1, <3>3
  <2>7. \E s \in Slots : Bottom(s)' = Last' /\ (s = decoder'.slot => Slots = {s})
    BY <1>0, <2>2, <2>3, <2>6
  <2> QED BY <2>1, <2>2, <2>4, <2>5, <2>7 DEF FramesInv
<1>4. CASE /\ movie'.pool = movie.pool /\ movie'.sig = movie.sig
           /\ decoder'.frame = decoder.frame /\ decoder'.half = decoder.half
           /\ decoder'.slot = decoder.slot
           /\ decoder.frame > 0 => /\ decoder'.slots = decoder.slots
                                   /\ movie'.count = movie.count
  <2>1. Last' = Last /\ \A s : Bottom(s)' = Bottom(s)
    BY <1>4 DEF Last, Bottom
  <2> QED BY <1>4, <2>1 DEF FramesInv, Filled
<1>5. CASE FillVideo /\ UNCHANGED decoder
  BY <1>4, <1>5, FillIs
<1> QED BY <1>1, <1>2, <1>3, <1>4, <1>5, MovieRest

(* A buffer that holds a frame is sampled at every sample.                  *)
LEMMA FilledSampled ==
  ASSUME MovieTypes, FramesInv, Sample, NEW s \in Slots, Filled(s)
  PROVE  /\ decoder.frame > 0 /\ Last > 0 /\ s \in 1 .. movie.count
         /\ movie'.pool[s] = movie.pool[s] /\ Bottom(s)' = Bottom(s)
         /\ movie'.sig[s] = movie.pool[s]
         /\ movie'.stable[s] = StableNow(s)
<1>1. /\ decoder.frame \in Nat /\ Last \in Int /\ Bottom(s) \in Nat
      /\ Bottom(s) <= Last /\ Bottom(s) # 0
  BY HalvesTyped DEF FramesInv, Filled
<1>2. Last > 0 /\ decoder.frame > 0
  BY <1>1 DEF Last
<1> QED BY <1>2, SamplePool

LEMMA KnownStays ==
  ASSUME MovieTypes, FramesInv, Sample, NEW s \in Slots, Known(s)
  PROVE  Known(s)' /\ StableNow(s) = 2
<1>1. Filled(s) /\ movie.sig[s] = movie.pool[s] /\ movie.stable[s] = 2
  BY DEF Known
<1>2. StableNow(s) = 2
  BY <1>1 DEF StableNow, Changed, Lesser
<1>3. /\ movie'.pool[s] = movie.pool[s] /\ Bottom(s)' = Bottom(s)
      /\ movie'.sig[s] = movie.pool[s] /\ movie'.stable[s] = 2
  BY <1>1, <1>2, FilledSampled
<1> QED BY <1>1, <1>2, <1>3 DEF Known, Filled

(* One more sample counts one more.                                         *)
LEMMA CountedStays ==
  ASSUME MovieTypes, FramesInv, Timing, Sample, NEW s \in Slots, Filled(s), Counted(s)
  PROVE  /\ Counted(s)'
         /\ StableNow(s) = IF decoder.since = 0 THEN 0 ELSE Lesser(decoder.since, 2)
<1>1. /\ movie'.pool[s] = movie.pool[s] /\ movie'.sig[s] = movie.pool[s]
      /\ movie'.stable[s] = StableNow(s)
  BY FilledSampled
<1>2. decoder.since \in Nat /\ Pace \in Nat /\ 3 <= Pace
      /\ decoder'.since = Lesser(decoder.since + 1, Pace) /\ decoder.since <= Pace
  <2>1. decoder.since \in 0 .. Pace
    BY DEF MovieTypes
  <2> QED BY <2>1, SampleIs, Bounds DEF Timing
<1>3. CASE decoder.since = 0
  <2>1. StableNow(s) = 0
    BY <1>3 DEF Counted, StableNow, Changed
  <2>2. decoder'.since = 1
    BY <1>2, <1>3 DEF Lesser
  <2> QED BY <1>1, <1>3, <2>1, <2>2 DEF Counted, Lesser
<1>4. CASE decoder.since # 0
  <2>1. movie.sig[s] = movie.pool[s] /\ movie.stable[s] = Lesser(decoder.since - 1, 2)
    BY <1>4 DEF Counted
  <2>2. StableNow(s) = Lesser(decoder.since, 2)
    BY <1>2, <1>4, <2>1 DEF StableNow, Changed, Lesser
  <2>3. decoder'.since # 0 /\ Lesser(decoder'.since - 1, 2) = Lesser(decoder.since, 2)
    BY <1>2, <1>4 DEF Lesser
  <2> QED BY <1>1, <1>4, <2>2, <2>3 DEF Counted
<1> QED BY <1>3, <1>4

(* What is being written over has not settled.                              *)
LEMMA TornIsUnsettled ==
  ASSUME MovieTypes, SettledInv, decoder.half, Filled(decoder.slot)
  PROVE  ~Known(decoder.slot)
<1>1. decoder.slot \in Slots /\ decoder.since \in Nat
  BY HalvesTyped
<1>2. Counted(decoder.slot) /\ decoder.since <= 2
  BY <1>1 DEF SettledInv
<1> QED BY <1>1, <1>2 DEF Counted, Known, Lesser

LEMMA SettledStep ==
  ASSUME MovieTypes, FramesInv, Timing, SettledInv, [Next]_vars
  PROVE  SettledInv'
<1> DEFINE F == decoder.frame
<1>a. PICK d \in Slots : d = decoder.slot
  BY HalvesTyped
<1>0. /\ F \in Nat /\ d \in Slots /\ d = decoder.slot /\ decoder.half \in BOOLEAN /\ Last \in Int
      /\ decoder.since \in Nat /\ Pace \in Nat /\ 3 <= Pace /\ Stall \in Nat /\ Stall <= 2
      /\ \A s \in Slots : /\ movie.pool[s].top \in Nat /\ Bottom(s) \in Nat
                          /\ movie.sig[s].top \in Nat /\ movie.sig[s].bottom \in Nat
  BY <1>a, HalvesTyped, Bounds DEF Timing
<1>1. CASE Sample
  <2>1. /\ decoder'.half = decoder.half /\ decoder'.slot = d /\ Last' = Last
        /\ decoder'.since = Lesser(decoder.since + 1, Pace)
        /\ WritesOver => decoder.since < Stall
    BY <1>0, <1>1, SampleIs DEF Last
  <2> SUFFICES ASSUME NEW s \in Slots, Filled(s)'
               PROVE  IF decoder.half /\ s = d
                      THEN Counted(s)' /\ decoder'.since <= 2
                      ELSE IF ~decoder.half /\ Bottom(s)' = Last THEN Counted(s)'
                      ELSE Known(s)'
    BY <1>0, <2>1 DEF SettledInv
  <2>2. Bottom(s)' = Bottom(s) /\ Filled(s)
    BY <1>1, SamplePool DEF Filled
  <2>3. CASE decoder.half /\ s = d
    <3>1. Counted(s)
      BY <1>0, <2>2, <2>3 DEF SettledInv
    <3>2. decoder.since < 2
      BY <1>0, <2>1, <2>2, <2>3 DEF WritesOver, Filled, Bottom
    <3>3. decoder'.since <= 2
      BY <1>0, <2>1, <3>2 DEF Lesser
    <3> QED BY <1>1, <2>2, <2>3, <3>1, <3>3, CountedStays
  <2>4. CASE ~(decoder.half /\ s = d) /\ ~decoder.half /\ Bottom(s) = Last
    BY <1>0, <1>1, <2>2, <2>4, CountedStays DEF SettledInv
  <2>5. CASE ~(decoder.half /\ s = d) /\ ~(~decoder.half /\ Bottom(s) = Last)
    BY <1>0, <1>1, <2>2, <2>5, KnownStays DEF SettledInv
  <2> QED BY <2>2, <2>3, <2>4, <2>5
<1>2. CASE BeginFrame
  <2>1. /\ ~decoder.half /\ decoder'.half /\ decoder.since = Pace /\ decoder'.since = 0
        /\ decoder'.slot = d /\ movie'.sig = movie.sig /\ movie'.stable = movie.stable
    BY <1>0, <1>2, BeginIs
  <2>2. \A s \in Slots : Filled(s) => Known(s)
    BY <1>0, <2>1 DEF SettledInv, Counted, Known, Lesser
  <2>3. \A s \in Slots : /\ Bottom(s)' = Bottom(s)
                         /\ movie'.pool[s].top = IF s = d THEN F + 1
                                                 ELSE movie.pool[s].top
                         /\ s # d => movie'.pool[s] = movie.pool[s]
    BY <1>0, <1>2, BeginPool
  <2>4. Counted(d)'
    <3>1. movie'.pool[d].top = F + 1 /\ movie'.sig[d] = movie.sig[d]
      BY <1>0, <2>1, <2>3
    <3>2. movie.sig[d].top <= F
      BY <1>0 DEF FramesInv
    <3> QED BY <1>0, <2>1, <3>1, <3>2 DEF Counted
  <2>5. \A s \in Slots : Filled(s)' /\ s # d => Known(s)'
    BY <2>1, <2>2, <2>3 DEF Known, Filled
  <2> QED BY <1>0, <2>1, <2>4, <2>5 DEF SettledInv
<1>3. CASE EndFrame
  <2>1. /\ decoder.half /\ ~decoder'.half /\ decoder'.since = 0 /\ decoder'.frame = F
        /\ movie'.sig = movie.sig /\ movie'.stable = movie.stable
    BY <1>3, EndIs
  <2>2. Last' = F /\ Last = F - 1
    BY <2>1 DEF Last
  <2>3. \A s \in Slots : /\ Bottom(s)' = IF s = d THEN F ELSE Bottom(s)
                         /\ s # d => movie'.pool[s] = movie.pool[s]
    BY <1>0, <1>3, EndPool
  <2>4. Counted(d)' /\ Bottom(d)' = Last'
    <3>1. movie'.pool[d].bottom = F /\ movie'.sig[d] = movie.sig[d]
      BY <1>0, <2>1, <2>3 DEF Bottom
    <3>2. movie.sig[d].bottom <= F - 1
      BY <1>0, <2>2 DEF FramesInv
    <3>3. movie'.sig[d] # movie'.pool[d]
      BY <1>0, <3>1, <3>2
    <3>4. Bottom(d)' = F
      BY <1>0, <2>3
    <3> QED BY <2>1, <2>2, <3>3, <3>4 DEF Counted
  <2>5. ASSUME NEW s \in Slots, Filled(s)', s # d
        PROVE  Known(s)' /\ Bottom(s)' # Last'
    <3>1. Filled(s) /\ Bottom(s)' = Bottom(s) /\ Bottom(s) <= F - 1
      BY <2>2, <2>3, <2>5 DEF FramesInv, Filled
    <3>2. Known(s)
      BY <1>0, <2>1, <2>5, <3>1 DEF SettledInv
    <3> QED BY <1>0, <2>1, <2>2, <2>3, <2>5, <3>1, <3>2 DEF Known, Filled
  <2> SUFFICES ASSUME NEW s \in Slots, Filled(s)'
               PROVE  IF Bottom(s)' = Last' THEN Counted(s)' ELSE Known(s)'
    BY <2>1 DEF SettledInv
  <2>6. CASE s = d
    BY <2>4, <2>6
  <2>7. CASE s # d
    BY <2>5, <2>7
  <2> QED BY <2>6, <2>7
<1>4. CASE /\ movie'.pool = movie.pool /\ movie'.sig = movie.sig
           /\ movie'.stable = movie.stable
           /\ decoder'.frame = decoder.frame /\ decoder'.half = decoder.half
           /\ decoder'.slot = decoder.slot /\ decoder'.since = decoder.since
  <2>1. Last' = Last /\ \A s : /\ Bottom(s)' = Bottom(s) /\ Filled(s)' = Filled(s)
                               /\ Known(s)' = Known(s) /\ Counted(s)' = Counted(s)
    BY <1>4 DEF Last, Bottom, Filled, Known, Counted
  <2> QED BY <1>4, <2>1 DEF SettledInv
<1>5. CASE FillVideo /\ UNCHANGED decoder
  BY <1>4, <1>5, FillIs
<1> QED BY <1>1, <1>2, <1>3, <1>4, <1>5, MovieRest

(* The rank of a value among those that are not zero.                       *)
Rank(S, f, s) == Cardinality({f[t] : t \in {u \in S : f[u] # 0 /\ f[u] <= f[s]}})

LEMMA Ranks ==
  ASSUME NEW S, IsFiniteSet(S), NEW f \in [S -> Nat]
  PROVE  \A s \in S :
           /\ Rank(S, f, s) \in Nat /\ Rank(S, f, s) <= Cardinality(S)
           /\ f[s] # 0 => Rank(S, f, s) # 0
           /\ \A t \in S : f[s] < f[t] => Rank(S, f, s) < Rank(S, f, t)
<1> DEFINE Up(s) == {u \in S : f[u] # 0 /\ f[u] <= f[s]}
           Under(s) == {f[t] : t \in Up(s)}
<1>1. ASSUME NEW s \in S
      PROVE  /\ Rank(S, f, s) = Cardinality(Under(s)) /\ IsFiniteSet(Under(s))
             /\ Cardinality(Under(s)) \in Nat /\ Cardinality(Under(s)) <= Cardinality(S)
  <2>1. /\ IsFiniteSet(Up(s)) /\ Cardinality(Up(s)) \in Nat
        /\ Cardinality(Up(s)) <= Cardinality(S) /\ Cardinality(S) \in Nat
    BY FS_Subset, FS_CardinalityType
  <2> DEFINE g == [u \in Up(s) |-> f[u]]
  <2>2. g \in Surjection(Up(s), Under(s))
    BY DEF Surjection
  <2>3. IsFiniteSet(Under(s)) /\ Cardinality(Under(s)) <= Cardinality(Up(s))
    BY <2>1, <2>2, FS_Surjection
  <2>4. Cardinality(Under(s)) \in Nat
    BY <2>3, FS_CardinalityType
  <2>5. Rank(S, f, s) = Cardinality(Under(s))
    BY DEF Rank
  <2> QED BY <2>1, <2>3, <2>4, <2>5
<1>2. ASSUME NEW s \in S, f[s] # 0 PROVE f[s] \in Under(s)
  BY <1>2
<1>3. ASSUME NEW s \in S, f[s] # 0 PROVE Rank(S, f, s) # 0
  <2>1. Under(s) # {}
    BY <1>2, <1>3
  <2> QED BY <1>1, <2>1, FS_EmptySet
<1>4. ASSUME NEW s \in S, NEW t \in S, f[s] < f[t] PROVE Rank(S, f, s) < Rank(S, f, t)
  <2>1. Under(s) \in SUBSET Under(t)
    BY <1>4
  <2>2. f[t] \in Under(t)
    BY <1>2, <1>4
  <2>3. f[t] \notin Under(s)
    BY <1>4
  <2> HIDE DEF Under
  <2>4. Cardinality(Under(s)) # Cardinality(Under(t))
    BY <1>1, <2>1, <2>2, <2>3, FS_Subset
  <2>5. Cardinality(Under(s)) <= Cardinality(Under(t))
    BY <1>1, <2>1, FS_Subset
  <2> QED BY <1>1, <2>4, <2>5
<1> HIDE DEF Under
<1> QED BY <1>1, <1>3, <1>4

(* What settles at a sample is the newest frame, and it was not settled.    *)
LEMMA NewlyKnown ==
  ASSUME MovieTypes, FramesInv, SettledInv, Timing, Sample,
         NEW s \in Slots, Known(s)'
  PROVE  /\ Filled(s) /\ StableNow(s) = 2 /\ s \in 1 .. movie.count
         /\ Known(s) \/ (Bottom(s) = Last /\ Settles(s))
<1>1. Filled(s)
  BY SamplePool DEF Known, Filled
<1>2. s \in 1 .. movie.count /\ StableNow(s) = 2
  BY <1>1, FilledSampled DEF Known
<1>3. ASSUME ~Known(s) PROVE Bottom(s) = Last /\ Settles(s)
  <2>1. movie.sig[s] = movie.pool[s] /\ movie.stable[s] \in {1, 2}
    BY <1>2, HalvesTyped DEF StableNow, Changed, Lesser
  <2>2. movie.stable[s] = 1
    BY <1>1, <1>3, <2>1 DEF Known
  <2>3. ~(decoder.half /\ s = decoder.slot)
    <3> SUFFICES ASSUME decoder.half, s = decoder.slot PROVE FALSE
      OBVIOUS
    <3>1. Counted(s) /\ decoder.since < Stall
      BY <1>1, SampleIs DEF SettledInv, WritesOver, Filled, Bottom
    <3>2. decoder.since \in Nat /\ Stall \in Nat /\ Stall <= 2
      BY HalvesTyped, Bounds DEF Timing
    <3> QED BY <2>1, <2>2, <3>1, <3>2 DEF Counted, Lesser
  <2>4. Bottom(s) = Last
    BY <1>1, <1>3, <2>3 DEF SettledInv
  <2> QED BY <1>2, <2>2, <2>4 DEF Settles
<1> QED BY <1>1, <1>2, <1>3

LEMMA AgesStep ==
  ASSUME MovieTypes, MovieTypes', FramesInv, SettledInv, Timing, AgesInv, [Next]_vars
  PROVE  AgesInv'
<1>0. /\ Cardinality(Slots) \in Nat /\ IsFiniteSet(Slots) /\ Last \in Int
      /\ \A s \in Slots : movie.age[s] \in Nat /\ Bottom(s) \in Nat /\ Bottom(s) <= Last
  BY RenderAssumption, FS_CardinalityType, HalvesTyped DEF FramesInv
<1>1. CASE Sample
  <2> DEFINE newest == Cardinality(Slots) + 1
             raw    == [s \in Slots |-> IF s \in 1 .. movie.count /\ Settles(s)
                                       THEN newest ELSE movie.age[s]]
  <2>1. raw \in [Slots -> Nat]
    BY <1>0
  <2>2. movie'.age = [s \in Slots |-> Rank(Slots, raw, s)]
    BY <1>1, SampleIs DEF AgeNow, Rank
  <2>3. \A s \in Slots :
          /\ movie'.age[s] <= Cardinality(Slots)
          /\ raw[s] # 0 => movie'.age[s] # 0
          /\ \A t \in Slots : raw[s] < raw[t] => movie'.age[s] < movie'.age[t]
    <3> HIDE DEF raw
    <3>1. \A s \in Slots :
            /\ Rank(Slots, raw, s) <= Cardinality(Slots)
            /\ raw[s] # 0 => Rank(Slots, raw, s) # 0
            /\ \A t \in Slots : raw[s] < raw[t] =>
                                Rank(Slots, raw, s) < Rank(Slots, raw, t)
      BY <1>0, <2>1, Ranks
    <3> QED BY <2>2, <3>1
  <2>4. ASSUME NEW s \in Slots, Known(s)
        PROVE  raw[s] = movie.age[s] /\ movie.age[s] # 0
    <3>1. ~Settles(s)
      BY <2>4 DEF Known, Settles
    <3> QED BY <2>4, <3>1 DEF AgesInv
  <2>5. ASSUME NEW s \in Slots, Known(s)', ~Known(s)
        PROVE  raw[s] = newest /\ Bottom(s) = Last
    BY <1>1, <2>5, NewlyKnown
  <2> HIDE DEF raw
  <2>6. ASSUME NEW s \in Slots, Known(s)'
        PROVE  raw[s] # 0
    BY <1>0, <2>4, <2>5, <2>6
  <2>7. ASSUME NEW s \in Slots, NEW t \in Slots, Known(s)', Known(t)',
               Bottom(s)' < Bottom(t)'
        PROVE  raw[s] < raw[t]
    <3>1. Bottom(s) < Bottom(t) /\ Bottom(s) # Last
      BY <1>0, <1>1, <2>7, SamplePool
    <3>2. Known(s)
      BY <2>5, <2>7, <3>1
    <3>3. CASE Known(t)
      BY <2>4, <3>1, <3>2, <3>3 DEF AgesInv
    <3>4. CASE ~Known(t)
      <4>1. movie.age[s] <= Cardinality(Slots)
        BY DEF AgesInv
      <4> QED BY <1>0, <2>4, <2>5, <2>7, <3>2, <3>4, <4>1
    <3> QED BY <3>3, <3>4
  <2> QED BY <2>3, <2>6, <2>7 DEF AgesInv
<1>2. CASE /\ movie'.age = movie.age
           /\ \A s \in Slots : Known(s)' => Known(s) /\ Bottom(s)' = Bottom(s)
  BY <1>2 DEF AgesInv
<1>3. CASE BeginFrame
  <2>1. movie'.age = movie.age /\ movie'.sig = movie.sig /\ movie'.stable = movie.stable
    BY <1>3, BeginIs
  <2> SUFFICES ASSUME NEW s \in Slots, Known(s)' PROVE Known(s) /\ Bottom(s)' = Bottom(s)
    BY <1>2, <2>1
  <2>2. movie'.pool[s].top # decoder.frame + 1
    <3>1. movie.sig[s].top <= decoder.frame /\ movie.sig[s].top \in Nat /\ decoder.frame \in Nat
      BY HalvesTyped DEF FramesInv
    <3> QED BY <2>1, <3>1 DEF Known
  <2> QED BY <1>3, <2>1, <2>2, BeginPool DEF Known, Filled
<1>4. CASE EndFrame
  <2>1. /\ movie'.age = movie.age /\ movie'.sig = movie.sig /\ movie'.stable = movie.stable
        /\ decoder.half
    BY <1>4, EndIs
  <2> SUFFICES ASSUME NEW s \in Slots, Known(s)' PROVE Known(s) /\ Bottom(s)' = Bottom(s)
    BY <1>2, <2>1
  <2>2. Bottom(s)' # decoder.frame
    <3>1. /\ movie.sig[s].bottom <= decoder.frame - 1
          /\ movie.sig[s].bottom \in Nat /\ decoder.frame \in Nat
      BY <2>1, HalvesTyped DEF FramesInv, Last
    <3> QED BY <2>1, <3>1 DEF Known, Bottom
  <2> QED BY <1>4, <2>1, <2>2, EndPool DEF Known, Filled
<1>5. CASE /\ movie'.pool = movie.pool /\ movie'.sig = movie.sig
           /\ movie'.stable = movie.stable /\ movie'.age = movie.age
  BY <1>2, <1>5 DEF Known, Filled, Bottom
<1>6. CASE FillVideo /\ UNCHANGED decoder
  BY <1>5, <1>6, FillIs
<1> QED BY <1>1, <1>3, <1>4, <1>5, <1>6, MovieRest

(* What is selected is no older than what was selected before.              *)
LEMMA SelectedSample ==
  ASSUME MovieTypes, FramesInv, FramesInv', SettledInv, Timing, AgesInv', SelectedInv,
         Sample
  PROVE  SelectedInv'
<1>0. /\ Last \in Int /\ decoder.since \in Nat /\ decoder.half \in BOOLEAN
      /\ Pace \in Nat /\ 3 <= Pace
      /\ movie.sel \in Slots \union {0} /\ 0 \notin Slots /\ movie.whole \in Nat
      /\ \A s \in Slots : Bottom(s) \in Nat /\ Bottom(s) <= Last
  BY HalvesTyped, SlotsTyped, Bounds DEF FramesInv, Timing
<1>1. /\ movie'.whole = movie.whole /\ Last' = Last /\ decoder'.half = decoder.half
      /\ movie'.sel = (IF Clean # {} THEN Freshest ELSE movie.sel)
      /\ decoder'.since = Lesser(decoder.since + 1, Pace) /\ movie'.age = AgeNow
  BY SampleIs DEF Last
<1>2. \A s \in Slots : Bottom(s)' = Bottom(s) /\ Filled(s)' = Filled(s)
  BY SamplePool DEF Filled
<1>3. ASSUME NEW s \in Slots, Filled(s), StableNow(s) = 2 PROVE s \in Clean
  <2>1. s \in 1 .. movie.count
    BY <1>3, FilledSampled
  <2>2. Complete(s)
    BY <1>3 DEF Complete, FramesInv, Filled, Bottom
  <2> QED BY <1>3, <2>1, <2>2 DEF Clean
<1>4. ASSUME NEW s \in Slots, s \in Clean PROVE Known(s)' /\ Filled(s)
  <2>1. Filled(s) /\ StableNow(s) = 2
    BY <1>4 DEF Clean, Complete, Filled, Bottom
  <2>2. /\ movie'.sig[s] = movie.pool[s] /\ movie'.stable[s] = 2
        /\ movie'.pool[s] = movie.pool[s]
    BY <2>1, FilledSampled
  <2> QED BY <1>2, <2>1, <2>2 DEF Known
<1>5. ASSUME Clean # {}, NEW t \in Slots, t \in Clean
      PROVE  Bottom(t) <= Bottom(Freshest)
  <2>1. PICK f \in Slots : f = Freshest /\ f \in Clean
    BY <1>5, FreshestTyped
  <2>2. AgeNow[t] < AgeNow[f] \/ AgeNow[t] = AgeNow[f]
    BY <1>5, <2>1, FreshestTyped
  <2>3. AgeNow \in [Slots -> Nat]
    BY AgesTyped
  <2>4. Known(f)' /\ Known(t)' /\ Filled(f)
    BY <1>4, <1>5, <2>1
  <2>5. ~(Bottom(f) < Bottom(t))
    <3> SUFFICES ASSUME Bottom(f) < Bottom(t) PROVE FALSE
      OBVIOUS
    <3>1. movie'.age[f] < movie'.age[t]
      BY <1>2, <2>4 DEF AgesInv
    <3> QED BY <1>1, <2>2, <2>3, <3>1
  <2> QED BY <1>0, <2>1, <2>5
<1>6. ASSUME ~decoder'.half, decoder'.since >= 3, Last > 0
      PROVE  \E s \in Clean : s \in Slots /\ Bottom(s) = Last
  <2>1. PICK s \in Slots : Bottom(s) = Last
    BY <1>6 DEF FramesInv
  <2>2. Filled(s) /\ Counted(s)
    BY <1>0, <1>1, <1>6, <2>1 DEF SettledInv, Filled
  <2>3. decoder.since >= 2
    BY <1>0, <1>1, <1>6 DEF Lesser
  <2>4. StableNow(s) = 2
    BY <1>0, <2>2, <2>3, CountedStays DEF Lesser
  <2> QED BY <1>3, <2>1, <2>2, <2>4
<1>7. CASE Clean = {}
  <2>1. PICK c \in Slots \union {0} : c = movie.sel
    BY <1>0
  <2>2. movie'.sel = c
    BY <1>1, <1>7, <2>1
  <2>3. /\ c = 0 => movie.whole = 0
        /\ c # 0 => /\ c \in Slots /\ Filled(c) /\ movie.whole <= Bottom(c)
                    /\ Known(c) \/ Slots = {c}
    BY <2>1 DEF SelectedInv
  <2>4. c # 0 => /\ Filled(c)' /\ movie'.whole <= Bottom(c)'
                 /\ Known(c)' \/ Slots = {c}
    BY <1>1, <1>2, <2>3, KnownStays
  <2> QED BY <1>1, <1>6, <1>7, <2>2, <2>3, <2>4 DEF SelectedInv
<1>8. CASE Clean # {}
  <2>1. PICK f \in Slots : f = Freshest /\ f \in Clean
    BY <1>8, FreshestTyped
  <2>2. movie'.sel = f /\ f # 0 /\ Known(f)' /\ Filled(f)'
    BY <1>0, <1>1, <1>2, <1>4, <1>8, <2>1
  <2>3. \A t \in Slots : t \in Clean => Bottom(t) <= Bottom(f)
    BY <1>5, <1>8, <2>1
  <2>4. movie.whole <= Bottom(f)
    <3>1. CASE movie.sel = 0
      BY <1>0, <3>1 DEF SelectedInv
    <3>2. CASE movie.sel # 0 /\ Slots = {movie.sel}
      BY <3>2 DEF SelectedInv
    <3>3. CASE movie.sel # 0 /\ Known(movie.sel)
      <4>1. movie.sel \in Slots /\ movie.whole <= Bottom(movie.sel)
        BY <1>0, <3>3 DEF SelectedInv
      <4>2. movie.sel \in Clean
        BY <1>3, <3>3, <4>1, KnownStays DEF Known
      <4>3. Bottom(movie.sel) <= Bottom(f)
        BY <2>3, <4>1, <4>2
      <4> QED BY <1>0, <4>1, <4>3
    <3> QED BY <3>1, <3>2, <3>3 DEF SelectedInv
  <2>5. ~decoder'.half /\ decoder'.since >= 3 /\ Last' > 0 => Bottom(f) = Last
    BY <1>0, <1>1, <1>6, <2>3
  <2>6. Bottom(f)' = Bottom(f)
    BY <1>2
  <2> QED BY <1>1, <2>2, <2>4, <2>5, <2>6 DEF SelectedInv
<1> QED BY <1>7, <1>8

LEMMA SelectedStep ==
  ASSUME MovieTypes, MovieInv, FramesInv, FramesInv', SettledInv, Timing, AgesInv',
         SelectedInv, [Next]_vars
  PROVE  SelectedInv'
<1>a. PICK d \in Slots : d = decoder.slot
  BY HalvesTyped
<1>b. PICK c \in Slots \union {0} : c = movie.sel
  BY HalvesTyped
<1>0. /\ Last \in Int /\ 0 \notin Slots /\ movie.whole \in Nat
      /\ Pace \in Nat /\ 3 <= Pace
      /\ \A s \in Slots : Bottom(s) \in Nat /\ Bottom(s) <= Last
  BY HalvesTyped, SlotsTyped, Bounds DEF FramesInv, Timing
<1>1. /\ c = 0 => movie.whole = 0
      /\ c # 0 => /\ c \in Slots /\ Filled(c) /\ movie.whole <= Bottom(c)
                  /\ Known(c) \/ Slots = {c}
  BY <1>b DEF SelectedInv
<1>2. CASE BeginFrame
  <2>1. /\ ~decoder.half /\ decoder'.half /\ decoder.since = Pace
        /\ movie'.sel = c /\ movie'.whole = movie.whole
        /\ movie'.sig = movie.sig /\ movie'.stable = movie.stable
    BY <1>b, <1>2, BeginIs
  <2>2. ASSUME c # 0, Slots # {c} PROVE Known(c)'
    <3>1. c \in Slots /\ Filled(c) /\ Known(c)
      BY <1>1, <2>2
    <3>2. Last > 0
      BY <1>0, <3>1 DEF Filled
    <3>3. Bottom(c) = Last
      BY <1>0, <1>b, <2>1, <3>2 DEF SelectedInv
    <3>4. PICK s \in Slots : Bottom(s) = Last /\ (s = d => Slots = {s})
      BY <1>a, <3>2 DEF FramesInv
    <3>5. s = c
      BY <3>1, <3>3, <3>4 DEF FramesInv
    <3>6. c # d
      BY <2>2, <3>4, <3>5
    <3>7. movie'.pool[c] = movie.pool[c] /\ Bottom(c)' = Bottom(c)
      BY <1>2, <1>a, <3>1, <3>6, BeginPool
    <3> QED BY <2>1, <3>1, <3>7 DEF Known, Filled
  <2>3. c # 0 => Bottom(c)' = Bottom(c) /\ Filled(c)'
    BY <1>1, <1>2, BeginPool DEF Filled
  <2> QED BY <1>1, <2>1, <2>2, <2>3 DEF SelectedInv
<1>3. CASE EndFrame
  <2>1. /\ decoder.half /\ decoder'.since = 0 /\ movie'.sel = c /\ movie'.whole = movie.whole
        /\ movie'.sig = movie.sig /\ movie'.stable = movie.stable
    BY <1>b, <1>3, EndIs
  <2>2. CASE c = d
    <3>1. c \in Slots /\ c # 0 /\ Slots = {c} /\ movie.whole <= Bottom(c)
      <4>1. c # 0 /\ c \in Slots
        BY <1>0, <2>2
      <4>2. ~Known(c)
        BY <1>1, <1>a, <2>1, <2>2, <4>1, TornIsUnsettled
      <4> QED BY <1>1, <4>1, <4>2
    <3>2. Bottom(c)' = decoder.frame
      BY <1>3, <1>a, <2>2, EndPool
    <3>3. Bottom(c) <= decoder.frame - 1 /\ decoder.frame \in Nat /\ decoder.frame > 0
      BY <1>0, <2>1, <3>1, HalvesTyped DEF Last, FramesInv
    <3>4. movie.whole <= Bottom(c)' /\ Filled(c)'
      BY <1>0, <3>1, <3>2, <3>3 DEF Filled
    <3> QED BY <2>1, <3>1, <3>4 DEF SelectedInv
  <2>3. CASE c # d
    <3>1. c # 0 => movie'.pool[c] = movie.pool[c] /\ Bottom(c)' = Bottom(c)
      BY <1>1, <1>3, <1>a, <2>3, EndPool
    <3>2. c # 0 => /\ Filled(c)' /\ movie'.whole <= Bottom(c)'
                   /\ Known(c)' \/ Slots = {c}
      BY <1>1, <2>1, <3>1 DEF Known, Filled
    <3> QED BY <1>1, <2>1, <3>2 DEF SelectedInv
  <2> QED BY <2>2, <2>3
<1>4. CASE /\ movie'.pool = movie.pool /\ movie'.sig = movie.sig
           /\ movie'.stable = movie.stable
           /\ movie'.sel = movie.sel /\ movie'.whole = movie.whole
           /\ decoder'.frame = decoder.frame /\ decoder'.half = decoder.half
           /\ decoder'.since = decoder.since
  <2>1. Last' = Last /\ \A s : /\ Bottom(s)' = Bottom(s) /\ Filled(s)' = Filled(s)
                               /\ Known(s)' = Known(s)
    BY <1>4 DEF Last, Bottom, Filled, Known
  <2> QED BY <1>4, <1>b, <2>1 DEF SelectedInv
<1>5. CASE FillVideo /\ UNCHANGED decoder
  <2>1. /\ movie'.pool = movie.pool /\ movie'.sig = movie.sig
        /\ movie'.stable = movie.stable /\ movie'.sel = c /\ c # 0
        /\ movie'.whole = IF movie.pool[c].top = Bottom(c) THEN Bottom(c) ELSE movie.whole
    BY <1>5, <1>b, FillIs DEF MovieInv, Bottom
  <2>2. Last' = Last /\ \A s : /\ Bottom(s)' = Bottom(s) /\ Filled(s)' = Filled(s)
                               /\ Known(s)' = Known(s)
    BY <1>5, <2>1 DEF Last, Bottom, Filled, Known
  <2>3. movie'.whole <= Bottom(c)
    BY <1>0, <1>1, <2>1
  <2> QED BY <1>1, <1>5, <1>b, <2>1, <2>2, <2>3 DEF SelectedInv
<1> QED BY <1>2, <1>3, <1>4, <1>5, SelectedSample, MovieRest

(* A whole frame of the movie on the screen is never older than one shown   *)
(* before, and nothing unwritten is shown, for any number of buffers and    *)
(* frames, when a frame is whole for three samples before the next begins   *)
(* and torn over an older one for two at most (PickAndFillVideo).           *)
THEOREM MovieCorrect ==
  ASSUME Timing
  PROVE  Spec => MovieIsClean
<1> DEFINE MInv == IInv /\ FramesInv /\ SettledInv /\ AgesInv /\ SelectedInv
           Cleanly == LET now == movie'.shown IN
                      movie.shown # now =>
                        /\ now.top = now.bottom => now.top >= movie.whole
                        /\ now.bottom # 0
<1>1. Init => FramesInv /\ SettledInv /\ AgesInv /\ SelectedInv
  <2> SUFFICES ASSUME Init PROVE FramesInv /\ SettledInv /\ AgesInv /\ SelectedInv
    OBVIOUS
  <2>1. /\ decoder.frame = 0 /\ decoder.half = FALSE /\ movie.sel = 0 /\ movie.whole = 0
        /\ \A s \in Slots : /\ movie.pool[s] = Blank /\ movie.sig[s] = Blank
                            /\ movie.age[s] = 0
    BY DEF Init, InitRender
  <2>2. Last = 0 /\ \A s \in Slots : Bottom(s) = 0 /\ ~Filled(s) /\ ~Known(s)
    BY <2>1 DEF Last, Bottom, Filled, Known, Blank
  <2>3. 0 <= Cardinality(Slots)
    BY RenderAssumption, FS_CardinalityType
  <2> QED BY <2>1, <2>2, <2>3 DEF FramesInv, SettledInv, AgesInv, SelectedInv, Blank
<1>2. IInv => MovieTypes /\ MovieInv
  BY Zenon DEF IInv, TypeOK
<1>3. IInv /\ FramesInv /\ SettledInv /\ AgesInv /\ SelectedInv /\ [Next]_vars /\ IInv'
        => FramesInv' /\ SettledInv' /\ AgesInv' /\ SelectedInv'
  <2> SUFFICES ASSUME IInv, FramesInv, SettledInv, AgesInv, SelectedInv, [Next]_vars, IInv'
               PROVE  FramesInv' /\ SettledInv' /\ AgesInv' /\ SelectedInv'
    OBVIOUS
  <2>1. MovieTypes /\ MovieInv /\ MovieTypes'
    BY <1>2, Zenon DEF IInv, TypeOK
  <2>2. FramesInv' /\ SettledInv' /\ AgesInv'
    BY <2>1, FramesStep, SettledStep, AgesStep, Zenon
  <2>3. SelectedInv'
    BY <2>1, <2>2, SelectedStep, Zenon
  <2> QED BY <2>2, <2>3
<1>4. IInv /\ FramesInv /\ SelectedInv /\ [Next]_vars => [Cleanly]_vars
  <2> SUFFICES ASSUME IInv, FramesInv, SelectedInv, [Next]_vars, movie.shown # movie'.shown
               PROVE  Cleanly
    OBVIOUS
  <2>1. FillVideo
    BY <1>2, MovieRest, SampleIs, BeginIs, EndIs
  <2>2. movie'.shown = movie.pool[movie.sel] /\ movie.sel # 0
    BY <1>2, <2>1, FillIs DEF MovieInv
  <2>3. movie.pool[movie.sel].bottom # 0 /\ movie.whole <= movie.pool[movie.sel].bottom
    BY <2>2 DEF SelectedInv, Filled, Bottom
  <2>4. /\ movie.pool[movie.sel].bottom \in Nat /\ movie.whole \in Nat
    BY <1>2, <2>2, HalvesTyped DEF Bottom
  <2> QED BY <2>2, <2>3, <2>4
<1> HIDE DEF Cleanly
<1> QED BY <1>1, <1>3, <1>4, Inductive, PTL DEF MovieIsClean, Spec, Cleanly
==============================================================================
