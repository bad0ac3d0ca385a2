# South Park: Let's Go Tower Defense Play! – verification of the runtime

TLA+ modules, TLC configurations and TLAPS proofs for the runtime that executes
the recompiled title on a PC. The reference is the code; line numbers below are
those of `src/varianta/runtime/kernel.cpp` unless another file is named.

## 1. The system

The repository turns an Xbox 360 title into a native program. Guest PowerPC code
is recompiled to C++ (not in the repository) and runs on ordinary host threads;
what the console's kernel and GPU did is done by a runtime. There are two: the
from-scratch runtime of `src/varianta/runtime` ("variant A"), which is all
source, and a shell over the RexGlue SDK (`src/src`, `src/launcher`), whose
SDK is an empty submodule.

| Component | State | Operations | Hard because | What makes it correct |
|---|---|---|---|---|
| Guest execution and dispatch objects (450-540, 1050-1300, 5010-5592) | the run token `g_waitMutex` / `g_tok`, `g_preempt`/`g_coop`/`g_fair`; dispatch headers in guest memory; `g_handles`; `g_csMap`, `tl_heldCS`; `g_hostTimers` | thread create / resume / exit, wait for one or many objects with time-outs, set / reset / pulse events, release semaphores, delays, critical sections, spin locks, timers | three scheduling modes with three locking disciplines; every blocking call gives the token up and takes it back; guest memory is read under whatever lock the mode happens to hold | one guest at a time in the token modes; no lost wake-up; each signal consumed once; entries run once; nothing left locked by a thread that ended |
| `FairMutex` (1105-1121) | `next_`, `serving_`, `held_` | `lock`, `unlock` | the notification is sent outside the mutex; notified threads run in any order | mutual exclusion, FIFO order, nobody forgotten |
| GPU command processor and vblank pump (1300-2376, 3122-3221, 4036-4118) | ring base / size, `CP_RB_WPTR`, `CP_RB_RPTR`, `lastWptr`; the fence; the completion object; the callback | kick, execute, publish the read index, fire interrupts, wait for a fence, forward a fence | a host thread executes what guest threads write, calls guest code, and shares memory with them under two different locks | everything submitted runs once and in order; ring space is reused only after it ran; waits end; the completion object is there when it is used |
| PM4 interpreter and carve (1396-2163, 4470-4560) | register file, memory, the accumulators of a frame | packets of types 0 to 3, indirect buffers, draws; the scan of the device directory at VdSwap | two threads run the same interpreter over the same registers; a cursor that can run off its end | packets take effect once, in order; a frame has every text its segments drew |
| Virtual memory and TLS (237-421, 732-766, 919-1079) | `g_regions`, one pointer per arena, the pool, the TLS bitmap | reserve, commit, decommit, release, pool and physical allocation, thread contexts, stacks, objects, TLS slots | several allocators carve from one address space; a decommit writes its range back; the bitmap is read and stored in two steps | blocks are disjoint; freed memory reads as zero; a slot has one owner |
| Virtual file system (5158-5353) | `g_files`, the host's `FILE*` with its position | open, read, query, position, close; name resolution without case | a call is several calls of the C library on a stream the table no longer protects | each call is one step on one file; no stream leaks or is used closed |
| Video (`vulkan_render.cpp`, `rex_texture.h`, 2534-2994, 4518-4597) | the fence, the swapchain, published geometry, text and movie buffers, the texture, the saved picture | compose text, carve quads, publish; wait, acquire, upload, draw, capture, present; tile and untile | four threads and the GPU share buffers under three mutexes and some atomics; a decoder writes what is shown | nothing changes under the GPU; whole movie frames; text only improves and reaches the screen |
| Launcher configuration and onboarding (`src/src/launcher`, `south_park_td_app.h`) | `launcher.toml` and its `.tmp`, the cvars, `PathConfig::game_data_root`, the wizard's path box and last validation | resolve a game source, load, layer, save, wizard, in-game settings | a save is five file operations, each may fail and the process may end after each; one path variable is filled from three places; a validation is kept across frames | what was saved last is what is loaded next; command line over file over defaults; what runs is what the user chose; a frontend never gets a dialog |
| Xam, network, audio, input stubs | none | constant answers | – | – |
| RexGlue shell, SDK patches, recompilation tools | – | – | – | – |

Interaction. Guest threads call kernel exports directly (function calls in the
same thread). They share guest memory with each other, with the pump and with
the host threads behind timers. Blocking exports give the run token up
(`UnlockGuestExecution`) and take it back (`LockGuestExecution`). Signals wake
waiters through one condition variable (`g_waitCv`, or `g_objCv` in the fair
mode). The pump takes the token like a guest thread, executes the ring, writes
fences and calls back into guest code. At `VdSwap` a guest thread runs the
interpreter again to carve what the frame drew, and publishes it to the render
thread, which nobody but the window system and the GPU talks to otherwise.

Scheduling modes (1096-1101, 1122-1125):

* `coop` (default): the token is `g_waitMutex`, a plain `std::mutex`; it is also
  the mutex of the condition variable waits block on.
* `fair` (`REX_FAIRSCHED`): the token is the ticket lock `g_tok`; waits block on
  `g_objCv` under a second mutex `g_objM`, after giving the token up.
* `preempt` (`REX_NOTOKEN`): no token; `g_waitMutex` only guards the objects and
  `g_gpuMutex` the GPU boundary.

`PROJECT.json` lists under "hazards" every place of this code that is hard to
test, with the properties that watch it.

## 2. Modules

| Module | What it is |
|---|---|
| `FairToken` | the ticket lock, step by step: ticket, block, spurious wake-up, unlock, notification outside the mutex |
| `FifoToken` | what a FIFO lock promises: who waits, in order, and who holds |
| `FairToken_proofs` | type correctness, exact tickets, mutual exclusion, no lost turn, implements `FifoToken` |
| `GuestExec` | guest threads, token, waits, signals, locks, timers, in the mode the constant `Mode` selects |
| `DispatchObjects` | what dispatch objects promise, without tokens and condition variables |
| `GuestExec_proofs` | the invariants and action properties of `GuestExec`, implements `DispatchObjects`, uses `FifoToken` |
| `CommandProcessor` | ring, pump, fences, interrupts; `NoToken` selects `REX_NOTOKEN` |
| `CommandQueue` | what the command processor promises: a FIFO of segments with bounded space |
| `CommandProcessor_proofs` | types, ownership, the completion object, the ring, implements `CommandQueue` |
| `PacketInterpreter` | the PM4 interpreter with its two callers, the pump's batches and the scan of VdSwap |
| `PacketStream` | what an interpreter promises: the commands of a stream, one by one, in order |
| `PacketMeaning` | which commands the title's words stand for, by the formats of the packets |
| `PacketInterpreter_proofs` | the inductive invariant, implements `PacketStream`, every text of a frame once |
| `GuestMemory` | regions, arenas, pool, physical blocks, TLS slots |
| `GuestMemory_proofs` | types, disjoint blocks, zeroed memory, exact decommits, single owners of slots |
| `FileHandles` | name resolution, and the file calls, one call of the C library at a time |
| `OpenFiles` | what handles promise: a file and a position, every call one step |
| `FileHandles_proofs` | types, no stream leaked or shared, none used after it was closed, implements `OpenFiles`, names |
| `RenderThread` | the render thread step by step, window, GPU, and what the guest may call |
| `FrameCompositor` | the guest's side of a frame composed with `RenderThread`: text, carve, movie decoder |
| `FrameCompositor_proofs` | types, the fence, the draw's bound, the saved picture, the composed text, the movie's frames; the blocks of a tiled texture |
| `TextureDecode` | where `rex_texture.h` puts the blocks of a tiled texture |
| `Launcher` | many launches of the shell over one disk: bootstrap, wizard, in-game settings, the steps of a save |
| `Launcher_proofs` | types, the save, the decision between game and wizard, the layers of settings, the chosen game |
| `MC_*` | constants for TLC, nothing else |

Composition: `FairToken` implements `FifoToken`; `GuestExec` in the fair mode
uses its token as `FifoToken` allows (property `UsesFifoToken`). So `GuestExec`
may treat `g_tok.lock()` as one queue, which is what `Ask` and `Acquire` do.
`CommandProcessor` takes the token from `GuestExec` as given: `owner` is one
variable that guest threads and the pump share. `PacketInterpreter` opens the
step `ExecuteSegment` of `CommandProcessor` up: there a segment is a number and its
effect the fence it ends with, here it is words, and fences are one command among
others. `GuestExec` implements `DispatchObjects`, `CommandProcessor` implements
`CommandQueue`, `PacketInterpreter` implements `PacketStream`, `FileHandles` implements
`OpenFiles`. `FrameCompositor` EXTENDS `RenderThread`: one Next with the steps of both
sides, sharing the variables the mutexes of `vulkan_render.cpp` protect. `Launcher`
stands alone: the two runtimes share no state.

### FairToken

State: `next`, `serving`, `held` are the three fields; `my` is the local `my` of
each thread in `lock()`; `pc` is where a thread is: `out`, `asleep` in the
condition variable, `awake` and about to evaluate `!held_ && serving_ == my`
again, `in`, or at `notify`. `Lock` and `Recheck` are the critical sections of
`lock()`. `Unlock` and `NotifyAll` are two steps as the code's `unlock()` notifies
after it left the inner mutex. `SpuriousWake` is part of the specification.
`MaxTicket` caps the tickets TLC looks at.

### GuestExec

`signal` is the `signal_state` word of a dispatch header, `pc` where a thread is,
`request`/`late`/`arg`/`prev` the locals of the call it is in. One action per
export, and one more per point in which the code releases a lock or is exposed
to other threads:

* a wait is `BeginWait`, `Test` (predicate under the mutex), then `Consume`, or
  `Sleep`/`FairSleep` and a wake-up. In `coop` and `preempt` the step from the
  false predicate to the block is separate (`Sleep`): a notification that comes
  from a thread that does not hold the mutex falls between the two. In `fair` the
  token is given up first and the predicate evaluated again under `g_objM`.
* `Timeout` sets `late`; the code evaluates the predicate once more before it
  returns `STATUS_TIMEOUT`.
* `KePulseEvent` is two `SignalObject` calls, `KeReleaseSemaphore` a read and a
  store.
* `ExCreateThread` publishes the handle (`CreateThread`) before it starts the
  thread (`EndCreate`); `NtResumeThread` starts at most once.
* A thread's end is `EntryReturns` (with the whole loop of `CsExitCleanup`) and
  `ExitThread` (signal the thread object, notify, give the token up).
* Locks are one `std::recursive_mutex` per address; `TryLock` stands for the
  `Try` exports and for the `try_lock` the blocking exports start with.
* `NtSetTimerEx` starts a host thread per arming; the previous one learns of it
  by a flag it reads when its sleep is over.

What the title is assumed to do (none of it is enforced by the runtime):
objects are initialised while nobody waits on them; a lock is released by its
owner; no thread ends inside a spin lock; the entry thread does not return; an
object occurs once in a wait; without a token nobody resumes a thread whose
creation has not returned.

### CommandProcessor

Segments are numbered in the order they are built, segment `n` ends with the
fence write of `n`, and a ring slot stands for the `INDIRECT_BUFFER` packet of
one segment. What a segment draws has no effect on this state and is left out.
`owner` is the token, or `g_gpuMutex` under `REX_NOTOKEN`. A guest thread kicks in
two steps (packet, then `CP_RB_WPTR`), waits for a fence in the three steps of
the hook (`FenceWait` compares, `Forward` stores, `Reached`/`BackOff` loop). The
pump's round is `Wake`, `PumpLocks`, `ReadWptr`, `ExecuteSegment`*, `Publish`,
`VblankReturns`, `CompleteReturns`, `PumpUnlocks`; while it is in a callback guest
code runs on it and may kick (`CallbackKicks`).

Recompiled guest code is not in the repository; what the model takes of it comes
from the hooks and their comments: the title kicks only when a slot stays free by
the read index it was shown (`Room`), kicks in the order it built, flushes before
it waits for its newest segment, sets one ring and one callback up, and its
callbacks do not block.

### PacketInterpreter

A header is a record with the fields the interpreter takes out of it, a data word a
number; `Menu` and `Directory` are what the title submits and which segments it has
built. `stack[e]` are the calls of `ExecutePM4` in progress of the pump or of VdSwap,
each with its position, length and depth; one step of `Interpret` is one packet.
`Skip` is type 2 and zero words, `Type0`, `Type1`, then the type-3 opcodes
`ExecuteType3` knows; `Ignored` are the others, which it passes over by their count.
A draw of VdSwap is carved by `CarveSprite` or `CarveRect`, from the fetch constant
`SpriteSlot` finds. `BeginBatch` and `EndBatch` are the pump's round around
`ExecuteRing`; `BeginFrame`, `Scan`, `EndFrame` are `VdSwap` under `REX_EXECSEGS`.
`todo` is history: the commands submitted and not carried out, which
`PacketStream` has as its state. `Locked = FALSE` is `REX_NOTOKEN`, in which `VdSwap`
takes no lock; `ImplementsStream` does not hold then.

What a stream commands is not in the code: it is what the title means by its words.
`PacketMeaning` says when words mean commands. A meaning is a function from frames
(the words from `at` to `end`, called at a depth) to commands; `Decodes` are its
equations: an idle packet adds nothing, a call the commands of its buffer, any other
packet the command it `Describes`. `TitleAssumption` is the discipline of the title: all
that it submits and records has a meaning; the ring gets whole packets; a segment binds
what it draws, whatever the registers were before (`IsBound`); a text is drawn with all
its indices, and two texts differ in their number or in what is hashed of them. None of
it restricts sizes, depths or orders. TLC evaluates it for the words of run `packets`.

### GuestMemory

Addresses count 16 bytes. `next` has one pointer per arena, which only moves up; `Top`
is where the next arena begins, and the guards that keep a pointer below it stand for
the size of the console's memory. `AllocateAnywhere`, `AllocateAt`,
`AllocateInside` are the three ways through `NtAllocateVirtualMemory`, `Decommit` and
`Release` those through `NtFreeVirtualMemory`. `live` is what the title's heap takes
for committed, from the base and size the call writes back, `dirty` what does not read
as zero: `Write` is the title storing into live memory. `AlignPhysical` and
`TakePhysical`, `ReadBitmap` and `StoreBitmap` are the two halves of calls that hold
no lock, which the run token (`Preemptive = FALSE`) keeps together.

The title is assumed to name by itself only addresses that are inside one of its
blocks or touch no region.

### FileHandles

`files` is `g_files`, `stream` the C library's streams. `Opens`/`Misses` resolve a name
and open it, `Insert` publishes the handle; `NtReadFile` and its like look the handle
up (`Finds`), and every library call that follows is a step: `SeekFirst`, `Reads`,
`TellAndSeekEnd`, `SeekBack`, `Seeks`. The positions those leave behind are
what `OpenFiles` must not notice. `Below` is `ResolvePath`'s directory walk: an exact
entry before one that is equal without case, the rest as it stands if there
is neither. The disk is read-only. `Shared = FALSE` keeps two threads off one handle
at a time, which is the title's discipline and nothing the runtime enforces. Reads of a
directory return nothing, as `fopen` opens it on Linux; a position set on an
unknown handle reports success, as the code does.

### RenderThread and FrameCompositor

`pc` is where the render thread is in `PresentOnce`: wait for the fence, acquire,
upload (`UploadRecon`, `UploadAtlas`), load the count, copy the vertices, fill the movie
texture, draw and submit, capture, present; `Resize`, `Restore`, `Executed` are the
window and the GPU. A texture, a frame, a vertex buffer is what it was made from: a set
of labels, a number of glyph bytes, a size, a pair of half frames. `mode` is what the
environment variables choose.

On the guest's side `FillAtlas`, `SetTexture`, `DrawText`, `Compose`, `LockMenuFrame`,
`PublishMenuFrame` are one text routine per thread (the two hooks in `kernel.cpp`, the
locks of `krm` and `g_reconMtx`); `CarveQuads`, `SubmitQuads`, `EndSubmit`, `EndSwap` are
VdSwap; `BeginFrame`, `EndFrame` the movie decoder, whose luma buffers the renderer
samples without any lock. `Pace` and `Stall` bound the decoder in samples: two frames
of the movie are at least `Pace` samples apart and it stalls in a frame at most `Stall`.
With a longer stall on a buffer that is used again a torn frame settles, so
`MovieIsClean` needs them.

### TextureDecode

`Offset` is `XGAddress2DTiledOffset`'s first part with its shifts and masks written as
`\div` and `%`, `Swizzled` its last lines; `Untile` and `Tile` are the loops over a
surface. It has no state. `FrameCompositor` uses it for the glyph atlases, which
`DecodeByBase` untiles for every label: `Surfaces` are the shapes they may have.

### Launcher

Lines of `launcher.cpp` unless another file is named. `files` are the game files on
the disk in the order a directory iterator lists them, `target` and `tmp` are
`launcher.toml` and `launcher.toml.tmp` (`Whole` or `Torn`, a prefix). `args` is the
command line, `cvars` the settings, `found` is `BootstrapResult::game_path`, `root` is
`game_data_root`, `box` and `result` are `path_buf_` and `validated_path_` with what
it resolved to. `choice`, `saved`, `hurt`, `given` and `reviewed` are history.

* `SaveConfig` (241-296) is one action per file operation: `OpenTmp`, `WriteTmp`,
  `RemoveTarget`, `RenameTmp`, and `OpenTarget`, `RewriteTarget` when the rename
  fails. Each can fail as the operation can; `out << text` can fail where the code
  looks or later, when the stream is flushed. `Crash` may come between any two.
* `Readings` is `LoadConfig` (204-239): a file that does not parse counts as none, a
  torn one may parse and has lost its tail.
* `ResolveAndPersist` (313-349) is one step up to the save it ends with: only the
  process itself reads and writes in that time. `Layered` and `Recorded` are its
  loops. `Answer`, `ExitEarly`, `LaunchNow`, `OpenWizard` are the ways out of
  `Bootstrap` and `OnFinalizePaths`.
* A wizard frame is `Revalidate` and then the browser; `Play` is a frame that ends in
  `Confirm`, with the result `Revalidate` had.
* A scan is abstracted to the files it gets to (`Reach`) and their order; depth,
  number and size limits decide `Reach`.

Assumed: one process; game files change only between launches; one input per
frame (`Simultaneous = FALSE`). With `Simultaneous = TRUE` a pick in the browser and
Enter in the same frame launch what the previous path resolved to, and
`PlaysTheChosenGame` does not hold.

## 3. What is checked

| Run | Instance | What it shows |
|---|---|---|
| `fair_token` | 3 threads, 7 tickets | no wake-up lost although `unlock` notifies outside the mutex, everyone served, implements `FifoToken` |
| `coop` | 3 threads; a manual-reset and an auto-reset event, a semaphore, join, a critical section, a spin lock | one guest at a time, entries run once, implements `DispatchObjects` |
| `fair` | 2 threads, an auto-reset event, a timer, 2 host timer threads | no lost wake-up, at most one live host thread per timer, everyone gets a turn, uses the token as a FIFO lock |
| `preempt` | 3 threads, events that are set but not reset, a critical section, a spin lock | `tl_heldCS` exact, implements `DispatchObjects` |
| `command_processor` | 2 guest threads, ring of 3 slots, 4 segments, token | segments run once and in order, every kick is executed, every fence wait ends |
| `command_processor_notoken` | the same under `REX_NOTOKEN` | the completion object is there when a callback uses it, implements `CommandQueue` |
| `packets` | ring of 16 words, 4 submissions to choose from, 3 made, a directory of 4 segments, 2 swaps | implements `PacketStream`, a batch ends, a frame keeps every text once |
| `guest_memory` | 2 threads, pages of 2 units, granules of 2 pages, 3 calls, one TLS slot | blocks disjoint, freed memory reads as zero, a decommit answers with its pages, one owner per slot |
| `file_handles` | 2 threads, 5 files and folders, 4 names, 2 opens, offsets before and past the start | no stream leaks, a name opens the file it spells, implements `OpenFiles` |
| `present` | 2 threads, 3 luma buffers, 7 movie frames, one window event, 2 labels in one atlas; 5 surfaces | the eight properties of the video part: in flight, bound of a draw, saved picture, movie, text, texture places, frames go on, text arrives |
| `launcher` | a default.xex and an add-on, three folders (with a game, a dump of both, empty), one setting, six command lines | the last save is kept as a whole, layers in order, defaults not frozen, what runs is what was chosen, the choice is remembered |
| `launcher_save` | as `launcher` | violation, see Findings |

Bounds. All are in guards (`MaxTicket`, `MaxCount`, `MaxDepth`, `MaxSegments`,
`MaxCalls`, `MaxOpens`, `MaxFrames`, `MaxEvents`, `MaxGlyphs`, `MaxSubmits`); the sets
of objects and requests are in the `.cfg` and `MC_*` files.

* Threads. Three are a waiter, a second waiter that may take what the first was
  woken for, and a signaller. `fair` has two because it checks liveness; the
  safety of three threads in the ticket lock is what `fair_token` adds. Two host
  timer threads are a stopped one that still sleeps and its successor. Seven
  tickets let each of three threads come back. `MaxCount = 2` lets a semaphore be
  released twice before a wait, `MaxDepth = 2` has recursive entry.
* Ring. Three slots hold two segments: four segments wrap the ring, fill it and
  make a batch that crosses the wrap. Two guest threads are a submitter and a
  fence waiter, or two waiters.
* `packets`. Three submissions are more than 16 words, so the title pads to the end
  of the ring and a batch wraps; one buffer calls itself and runs to the depth of 8; two
  segments draw the same text from different buffers, and one follows a segment
  whose constants are still in the registers. A second swap shows what the first
  left behind.
* `guest_memory`. With a page of two units a base and a size can lie inside a page;
  with four units a request of three rounds up to a whole granule and a pool arena
  is used up by two requests. Three calls are two blocks and one that takes what the
  first gave back.
* `file_handles`. Two opens are two handles to different files or to one file; the
  names differ in case from two entries that differ only in case, and there is an
  empty part and a file that is not there. Offsets -2 and 2 are a seek that fails
  and one that leaves a byte to read.
* `present`. Three luma buffers are one that is shown, one settling and one being
  written; seven frames use each of them twice. Two labels that begin with the same
  glyph are the ones `FirstUV` cannot tell apart. One window event at any step is
  what an acquire, a present and an idle wait have to cope with. The surfaces cross
  a tile to the right and to the bottom and have every size of a block.
* `launcher`. The game and the add-on can be listed in either order and come and go
  between launches; one setting has a default that differs from the engine's, so
  that each layer gives another value; the number of launches and crashes is not
  bounded.

Deadlock is checked in `guest_memory` and `file_handles`. Elsewhere the
title may wait for a signal that never comes, a user may never launch again, or a
bounded counter runs out; where progress is owed it is a property.

Fairness. Weak fairness on the steps the runtime does by itself: the host
schedules every runnable thread. Strong fairness on the step in which guest code
gives the token up (`Delay`, `Yield`): the token is cooperative, and a thread that
never yields starves the rest by design. In `FairToken` the acquisition needs
no more than weak fairness, that is the point of the lock. In `CommandProcessor`
the token is abstracted to one step, with strong fairness of taking it: in `fair`
mode it is what the ticket lock gives, in the default mode it rests on the
millisecond in which `sub_821B9270` sleeps without the token. In `PacketInterpreter`
an interpreter that has begun goes on, and the pump comes round again; nothing is
assumed of the title. In `FrameCompositor` the render thread runs, the GPU finishes
what it was given, the calls of the title that have begun end, and the decoder
leaves a frame it has stayed in longer than the renderer can tell (`WritesOver`). Strong
fairness is for `CopyGeometry`: the mutex of the quads is free between two
submissions and the render thread, which comes for it in every frame, gets it one
day. Nothing is assumed of deadlines and timers.

### Findings

`launcher_save`. `launcher.h:85` says of `SaveConfig` that it writes atomically. It
removes the old file before it renames the new one (`launcher.cpp:286-287`): a crash in
between leaves no `launcher.toml`, and nothing reads the `.tmp`.

### Where a property stops to hold

These are places where a switch that is off by default, or an input the runs leave
out, takes a property away. No comment of the code promises anything there, so
they are stated as the limits of the properties and not as findings.

* `REX_TIMER` in the default mode: the host thread of a timer calls `SignalObject`
  (5535) without the token; a tick between a waiter's predicate and its block wakes
  nobody (`NoLostWakeup`).
* `REX_NOTOKEN`: an event reset (5041) between the predicate of a wait and its
  consumption leaves the state at -1 (`ImplementsDispatch`). Two forwards of a fence,
  or a forward and the pump's write (4060), can take the fence back, and the wait
  looks once (`FenceWaitEnds`). `VdSwap` takes no lock, so a draw may be carved from
  the pump's constants (`ImplementsStream` with `Locked = FALSE`). `KeTlsAlloc` and
  `MmAllocatePhysicalMemoryEx` are read and store (`SlotsHeldOnce`, `BlocksDisjoint`
  with `Preemptive = TRUE`).
* With the token, a forward to a segment that was kicked and has not run is
  followed by the pump's writes of the older values; that ends no wait.
* A folder of the command line that exists and holds no game is launched:
  `OnFinalizePaths` (`south_park_td_app.h:64`) looks at existence only
  (`PlaysTheChosenGame`, whose run has no such command line).
* `TiledSizeBytes` bounds the places of a surface of whole 4 KiB pages. With 1 or 2
  bytes per block and an odd number of tiles blocks lie past it: of 32 x 32 blocks
  of one byte the last is at 2559 of 1024 (`TexturesKeepTheirBlocks`).
* A decoder that stalls in a buffer that is used again, longer than `Stall` samples,
  gives a torn frame (`MovieIsClean`).
* Two threads with one handle and no token: `NtClose` closes what the other is about
  to read (`NoStreamIsUsedClosed` with `Shared`).

## 4. What is proved

All theorems hold for every value of the constants that the named assumptions
admit: any number of threads, objects, locks, timers, tickets, ring slots, blocks,
files, labels and sizes.

* `FairToken_proofs`. `TicketsInv` says that the tickets of waiting and holding
  threads are distinct and lie in `serving..next-1`, and that `held` is true
  exactly when the owner of `serving` is inside. It is inductive with the types and
  gives `MutualExclusion`; `NoLostTurn` needs both. `TokenIsFifo` proves that the
  lock implements `FifoToken`: the queue of the abstract lock is the tickets from
  `serving` on, so a `Lock` appends to it and a `Recheck` that gets in takes its head.
* `GuestExec_proofs`.
  * `TypeCorrect` proves `TypeOK` together with `LocksInv`: that depths never go
    below zero depends on who owns a lock, and ownership on the types.
  * `OneGuestCorrect` proves `OneGuestAtATime` together with `ThreadsInv`:
    starting a thread moves it to a place where it does not hold the token only
    because a created thread is in the `born` state, which is what `ThreadsInv`
    knows; `EntryCorrect` (`EntryRunsOnce`) follows.
  * `OrphansCorrect` strengthens `NoOrphan` to `OwnersInv`: a thread has left its
    sections when its entry returns, one step before it ends.
  * `WakeupsCorrect` and `ReadyCorrect` come from `WaitsInv`. They carry the two
    assumptions under which they are true, `NoForeignSignals` (the default mode has
    no host timer threads) and `NoForeignResets` (no reset without a token).
  * `TimersCorrect`, `HeldCorrect`.
  * `TokenIsUsedAsFifo`: every step on the token is one `FifoToken` allows. With
    `TokenIsFifo` this is the argument for one queue in place of the ticket lock.
  * `DispatchCorrect`: the refinement of `DispatchObjects`, for the three modes. It rests
    on `WaitsInv` and on `CallsInv`, which says what the locals of a call in progress
    still mean: a wait that timed out has a deadline, a pulse is of an object that can
    be reset, and the count a release has read is the count. Without a token the last
    is false, and so is `ReadyWhenConsumed`; hence the hypotheses `NoForeignResets` and
    `NoForeignReleases`, which say nothing of the two modes with a token.
* `CommandProcessor_proofs`. `OwnerInv` (owner and program counters agree) gives
  `CompletionCorrect`: whoever writes device+10900 has the lock the pump needs to be
  inside a callback. `RingInv` is the invariant of the ring, stated by distances
  modulo `RingSize`: between the pump's position and `CP_RB_WPTR` lie as many slots as
  segments were kicked and have not run, and the slot at distance `d` from the end
  holds segment `kicked + 1 - d`. A kick fills a slot outside that stretch because
  the title saw room by an older read index. `OrderCorrect` (`RunInOrder`) and
  `RingIsQueue` (the refinement of `CommandQueue`) follow from it.
* `PacketInterpreter_proofs`, with the token (`Locked`) and `TitleAssumption`, for any ring,
  memory, menu, directory, registers and depth of calls. `InvariantHolds` proves `IInv`:
  * `StreamInv`. There is a map `D` from the addresses of the ring to the commands from
    there on (`Reads`), and whole items lie in the used part of the ring (`ItemsWhole`),
    which may wrap. The calls on a stack are a chain (`IsChain`): each of its links has the
    commands that are left when the call is reached and when it returns, and they differ by
    the meaning of its words. So `todo` begins with what the innermost call still stands
    for, and ends, for the pump, with `D` at the end of its batch (`Behindhand`), for VdSwap
    with the segments behind `cursor` (`Scanned`).
  * `SeenInv` and `TextInv`. A key is in `seen` exactly if its text is carved, as long as there
    is room; carved texts and texts to come are those of the segments.
  * `FrameInv`. Whatever the frame has left to draw is bound, by the registers as they are
    or by a command before it. `LockInv`: it stays so because only the owner of the
    token executes.

  A step of the interpreter takes the next command off the chain (`Dispatch`, `PacketDecoded`,
  `StepOwes`) and has the command's effect (one lemma for each kind); the ring's words under
  a chain stay when the title writes more (`RingSubmit`, `ChainSubmitted`), and a batch that
  wraps is a chain of two (`RingCalls`). `StreamCorrect` (`ImplementsStream`) and `FramesCorrect`
  (`FrameKeepsEveryText`) follow.
* `GuestMemory_proofs`. `BlocksCorrect` and `SlotsCorrect` assume the token
  (`~Preemptive`). `BlocksInv` places every block (`Placed`): in its arena and below the
  arena's pointer; for a pool block below `g_poolCur`; for virtual memory outside what
  is left of the pool's arena; or, where the title chose the base, past all arenas.
  What an allocator hands out next lies where no placed block can be. `ZeroCorrect` needs no token: what is
  dirty is live, and a decommit or release zeroes what it takes out of `live`.
  `DecommitCorrect` needs `RegionsInv`: regions do not overlap, start on a page, and a
  block of virtual memory is one region of its size, so the region a base is found in
  is the reservation the title means. It rests on a granule being whole pages.
* `FileHandles_proofs`. `StreamsCorrect` and `NoStreamIsUsedClosed` come from a
  `References` invariant of named parts: a stream in the table, or on its way into
  or out of it, is open; it has one handle, or one call that will publish it; open
  streams are referred to. A handle in use by a call keeps its stream as long as
  only one thread has it; that is where `~Shared` enters the second theorem.
  `CallsAreAtomic` proves under `~Shared` that the calls implement `OpenFiles`. A call takes
  effect in its last step. Until then its stream stands where the call's own steps have
  put it, and the position the handle had is in the call's locals; that is why a query
  of the size, which seeks to the end and back, is not noticed.
  `NamesCorrect` (`NamesResolve`) is about `Parts` and `Below`, two recursive functions. An
  induction is replaced by the least index at which a claim about them fails, taken
  from the well-foundedness of the naturals: a walk that takes the exact entry where
  there is one ends in the exact name, and one that ends nowhere proves that no
  folder has the name, since a folder has the parents of what is in it.
* `FrameCompositor_proofs`.
  * `FlightInv`: the fence tells whether the GPU is busy, and on which steps it can be.
    `FlightCorrect` follows for every way out of `PresentOnce`.
  * `QuadsInv`: all sizes on the way from the carve to the draw are the one that was
    carved, or zero. That is the argument `REX_CARVEONCE` rests on (`DrawCorrect`).
  * `CaptureInv`: between an upload and the capture the flag that asks for it is up
    (`CaptureCorrect`).
  * `TextInv`: the labels kept, the frame and the texture form a chain in which each
    covers the one behind it, and everything in it was composed from glyphs of its
    own label (`TextCorrect`). `MovieInv` bounds the ages of luma buffers; that there is an
    oldest one follows from the number of buffers being finite.
  * `MovieCorrect` (`MovieIsClean`), under `Timing` (`3 <= Pace`, `Stall <= 2`: the next
    frame is begun three samples or more after one is whole, and one stays torn over an older
    one for two at most). `FramesInv`: round the buffers the frames are ever newer.
    `SettledInv`: samples are counted since each buffer was written, so that when a frame
    begins all buffers but the last one written are counted as settled. `AgesInv`: the ages of
    buffers that have settled are in the order of their frames. `SelectedInv`: so the oldest
    that has settled is whole, and no older than what was shown. A longer stall makes it false
    (section 3).
  * `TexturesCorrect`, about `TextureDecode`: the row and column of a block can be recovered
    from its place, step by step through the shifts of `XGAddress2DTiledOffset`, for each of
    the five sizes of a block; so places differ. The bound is the last tile's.
    `AtlasesCorrect` cites it for the atlases.
* `Launcher_proofs`.
  * `SavedCorrect` strengthens `SavedIsKept` by `SaveInv`: between its opening and its
    renaming the temporary file holds what is being saved, or a part of it. The
    flag `hurt` is what the theorem does not promise: a save cut off after the old
    file is removed, or one that fails where the code cannot recover.
  * `EmbeddedCorrect` needs `FoundInv`: from `ResolveAndPersist` to the decision a
    source that was found is `root` and exists, so that `--no_setup` with a game
    goes past the wizard and without a game exits.
  * `PriorityCorrect` (`LayersInv`: before they are layered, settings are those of
    engine and command line) and `DefaultsCorrect` (`FrozenInv`: what is on its way
    into the file, in the `.tmp` or in the file was given on a command line).
  * `ChosenCorrect` (`PlaysTheChosenGame`) carries from the answer of the wizard to the
    start of the game what the path resolved to when it was looked at. Its
    hypotheses are the two ways in which it is false (section 3): `OneInput`, and
    `GamesOnCommandLine`, no folder without a game on a command line that gets that far.
  * `RememberedCorrect` (`ChoiceIsRemembered`) follows the path that was saved last through
    the disk: whole in `launcher.toml`, or on its way there, or `hurt`.

`TokenIsExclusive`, `ReadyCorrect`, `OrphansCorrect`, `EmbeddedCorrect`, `NoStreamIsUsedClosed`
and the type invariants are proved and not repeated in a run.

Only model-checked: liveness (`EveryThreadGetsATurn`, `EveryoneIsServed`,
`EveryKickRuns`, `FenceWaitEnds`, `KeepsPresenting`, `TextReachesTheScreen`, `EveryPacketRuns`),
which is beyond the prover. `IInv` speaks of maps `D` that TLC cannot enumerate, so it is
only proved; its conclusions are what run `packets` checks.

## 5. Plan

1. Done: `FairToken`, `GuestExec`, `CommandProcessor`, `PacketInterpreter`, `GuestMemory`,
   `FileHandles`, `RenderThread` with `FrameCompositor`, `TextureDecode` and `Launcher`, with
   the abstract specifications and the theorems above.
2. Open, of the models: the second fence-forward in `sub_821C5DF0`; of the launcher, installing
   add-ons and backing up saved games, each several file operations that can fail
   half way.

## 6. Not modelled

* Pipelines, shaders and what a driver draws; the decoding of single texels
  (`EndianSwap`, BC1 to BC3, the conversions of formats in `rex_texture.h`) and its branch for
  linear surfaces, which takes no notice of `pitchTexels` when they are compressed
  (226-231); the debug frames (triangle, contact sheets).
* Of the command processor, the second fence-forward in `sub_821C5DF0` and the
  experiments and diagnostics behind `REX_*` switches that are off by default
  (`WAIT_REG_MEM` under `REX_SATGATE`, `EWDRAIN`, the pairing of `UITEXT`, the trace of
  texture bindings, `REX_CSLEAK`). `REX_FAIRSCHED`, `REX_NOTOKEN`, `REX_TIMER`,
  `REX_EXECSEGS`, `REX_MENUTEX`, `REX_TEXTGLYPH` and `REX_PANELS` are in the models.
* In the models but abstracted: the collision of content keys of two texts
  (1969-1973, `Key` tells texts apart); a packet that lies across the end of the
  ring, which relies on the title's padding; the width of addresses, as `Top` keeps
  every arena from running into the next (the thread contexts do after about 256
  threads, 0x90100000 to 0x90400000); failures of the driver other than an image out
  of date; what a swapchain reported `SUBOPTIMAL` at acquire leaves signalled
  (`vulkan_render.cpp:986`).
* `NtQueryVirtualMemory`, which only reads; the values in TLS slots.
* Xam, network, audio, input: constant answers.
* The rest of the RexGlue shell and the SDK patches: their counterpart is an empty
  submodule. Of the launcher: installing add-ons, backing up saved games, the text
  of the JSON answers, the loading overlay, walking the folder browser.
* `src/tools`, `src/varianta/tools`: one-shot scripts.
* Wait durations, thread priorities and affinities: time is a step that may come
  at any moment.

## 7. Running

    tlc -config Coop.cfg MC_GuestExec.tla
    tlapm GuestExec_proofs.tla

Each `.cfg` belongs to the `MC_` module named in `PROJECT.json`. A definition whose
comment starts with "Mutation:" is a deliberate error; the specifications do not
use it. `PROJECT.json` names, for every property, the mutation that breaks it.
