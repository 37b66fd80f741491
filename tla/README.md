# Addictol in TLA+

A verification project for Addictol, the F4SE plugin that patches Fallout 4.
It models the parts of the plugin with protocols and data structures of their
own — threads that hand over without waiting, captures that must be whole on
disk, a module life cycle driven by messages, files that are replaced
atomically, hooks that answer for Windows, allocators behind the game's heaps,
tables the game's patches keep beside the game's — checks them on small
instances with TLC and proves the properties that matter most for every size
with TLAPS.

Source paths below are relative to `src/Addictol/` unless they start with `src/`.

## 1. Inventory

| Component | State it keeps | Operations | Talks to | What is hard |
|---|---|---|---|---|
| **Operation profiling** `Telemetry/AdOperationProfile` | eight capture slots (generation, admission, active begins, active sampled, counters), publication shards behind mutexes, series buckets | `Begin`, `Publish` by any game thread; `StartCapture`, `CloseCapture`, `DrainSeries` by the hub | hub, allocators, zlib | `Begin`/`End` never block; slots are recycled under operations that still hold them; close is a barrier built of `try_lock`s |
| **Burst series buffer** `Telemetry/AdTelemetry.h` | ring, three indices, overflow count, two flags | `Record` by one producer; `Drain`, `BeginInterval` by the hub | load, save and form timers | wait-free ring; drain smaller than the ring; records before the first start |
| **Captures** `Telemetry/AdTelemetryHub` (`Start`, `Stop`, `Worker`) | capture state, error flags, directory, two files, stop flag | `Start`, `Stop`, the worker's intervals, `CopyCaptureStatus` | profile sources, files, menu | everything can fail at every step; the game can end at any; one status read in two loads |
| **Sources, rows and frames** `Telemetry/AdTelemetryHub` (rest), `AdTelemetryRuntime` | table of sources and columns, snapshot ring, frame records, frame count and total packed into 64 bits, deadlines | `Register`, `Freeze`, `Collect`, `PushFrameRecord`, `OnFrame` | all metric sources | packed counters at their limits; a row and its frames emptied word by word |
| **Plugin callbacks and timing** `Telemetry/AdPluginCallbacks`, `Modules/AdModulePluginTiming` | thunk slots, wrapped handles, pending Load/Query | wrap, call, resolve | F4SE and other plugins | fixed number of thunks; an original kept between two hooks |
| **Images** `Telemetry/AdImage*` | queue and table of loaded images, striped table of blocks, sampled threads, rows | insert, remove, attribute, sample | loader, allocators, the system's threads | a queue that overflows; a hash table with hole closing; thread ids used again |
| **Load timing** `Telemetry/AdLoadTiming.h`, `Modules/AdModule{FormLoad,SaveLoad}Timing` | spans begun, owner of a load | detours, message sinks | rings, game threads | the loader's own thread; spans that end elsewhere than they begin |
| **Visper** `Memory/AdVisperMemoryAllocator` | heaps by block size, pages of free-block stacks, block headers | `Alloc`, `Free`, `Realloc` | memory hooks | headers say where a block returns to |
| **Heaps** `Memory/` | chosen backend, hooks, rpmalloc's granules | allocate, free, resize, size of | mimalloc, rpmalloc, vmm | blocks from before the hooks, other heaps' blocks |
| **Voltek** `src/Depends/vmm` | pools, thread caches, slots of large blocks, budget | allocate, free, resize | `Memory/` | frees without a lock, double frees, overwritten links |
| **Owned inflate** `Zlib/` | a state behind each stream: policy, mirror, held byte, tokens | init, inflate, reset, copy, end | zlib-ng, isal, libdeflate | output hidden in a decoder when the input is used up |
| **Plugin and modules** `AdPlugin`, `Core/AdModule*` | registered and active modules, outcomes, tallies, defender's snapshot | preload, init, messages, Papyrus listeners | F4SE, every module | two stages share a map; a failed install restores the image |
| **Dependent registry, effect lifetime** `Core/AdDependentRegistry.h`, `Modules/AdModuleShaderReferenceEffectLifetime` | two maps behind a mutex; hooks | link, unlink, release | game objects | destructors race; addresses are used again; hooks go in one by one |
| **Settings** `Core/Settings/`, `Menu/AdMenuSettings` | files, values in memory, committed values, draft | launch, refresh, draft, save | user's editor, REX stores, menu | atomic replacement, two files with priorities, values for now or the next launch |
| **Face exceptions** `Modules/AdModuleFacegen`, `Menu/AdMenuFacegenExceptions` | INI, published set, page draft | read, validate, save, reload, edit | user's editor, game threads | a draft older than what was read |
| **Co-save read buffer** `Modules/AdModuleCosaveIO` | import originals, enabled flag, map of buffered files | five hooked file calls | F4SE's threads, Windows | hooks go in while called; handle numbers are used again; 64-bit seeks |
| **Detours, imports** `Core/AdDetourBatch`, `Core/AdIAT` | suspended threads, saved bytes and protections | prepare, commit, publish, roll back | game code, other plugins | transactions over live code |
| **Archives, decals, handles** `Modules/AdModule{ArchiveLimits, FullPrecisionDecals, RefExtended}` | 16-bit index beside the game's byte, thread-local descriptors, a larger handle table | hooks and patches on every place that reads the old ones | the game's own tables | one place missed |
| **Form caches** `Modules/AdModule{CraftingMenuFix, FasterWorkshop}` | recipes and mods by attach point, recipes by keyword | swap the game's arrays, answer in its place | the game's menus | caches that outlive a change, exceptions in between |
| **Audio, input, culling** `Modules/AdModule{AudioSwitch, InputSwitch, BSPreCulledObjects}` | a second graph, the device in use, a map of 3D | notifications, events, cell loads | XAudio2, menus, renderer | state behind callbacks; contexts entered with one device and left with another |
| **Hash table** `src/Depends/unordered_dense` | dense values and a robin-hood array | insert, find, erase | the maps above | backward shifts, distances at their limit |
| **Log control** `Core/AdLogControl` | sixty buckets | count, read | all loggers | compare-exchange over a minute's ring |
| **Game patches** `Modules/` (~110) | mostly none beyond a hook | `DoQuery`, `DoInstall`, `DoListener` | game code | each is its own |
| **Menu** `Menu/` | drafts, lists | draw | settings, hub, manager | — |

What makes each correct is in the properties of section 4 and under `hazards` in
`PROJECT.json`.

How they interact at run time: F4SE loads the plugin and sends it messages on
one thread; `ModuleManager` installs modules, among them the telemetry start-up,
which registers all sources, freezes the hub and calls `TelemetryHub::Start`
once; the hub's worker drains profile sources and burst buffers at a cadence;
game threads call `Begin`/`End`, allocators, file hooks and effect hooks at any
time; the menu reads the capture's status and edits
settings; `TelemetryHub::Stop` is called at the safe exit and by the hub's destructor.

## 2. Modules

| Module | Models | Abstract counterpart | Run | Proved in |
|---|---|---|---|---|
| `OperationProfile` | profiling slots, shards, close barrier | — | `operation_profile`, `liveness` | `OperationProfileProofs` |
| `BurstSeries` | the ring, with the hub's Start, Stop and intervals | `BoundedFifo` | `liveness` | `BurstSeriesProofs` |
| `TelemetryCapture` | the capture in memory and on disk | — | `telemetry`, `liveness` | `TelemetryCaptureProofs` |
| `FrameTelemetry` | rows, deadlines, frames and their records | — | `core` | `CoreProofs` |
| `CounterLanes` | counts of every operation; a source's configuration | what was begun (ghost) | `core` | `CoreProofs` |
| `LogLines` | log levels; lines of the last minute | lines written (ghost) | `core` | `CoreProofs` |
| `HubTable` | the hub's table of sources and the rows they fill | — | `core` | `CoreProofs` |
| `ImageTelemetry` | images loaded and retired, their consumers; the table of large blocks; threads sampled | what is allocated, cycles run (ghosts) | `telemetry` | — |
| `PluginCallbacks` | timed plugin functions, thunks, handles | — | `hooks` | `PatchProofs` |
| `LoadTiming` | spans of a start and of loads | — | `patches` | `PatchProofs` |
| `ModuleManager` | life of modules, defender | — | `core` | `CoreProofs` |
| `SettingsStore` | files, memory, repository, draft | — | `core`, `settings_custom` | `CoreProofs` |
| `FacegenExceptions` | face exceptions and their page | — | `core`, `faces_unread` | `CoreProofs` |
| `EffectLifetime` | registry and its hooks | — | `game_fixes` | `GameFixProofs` |
| `ArchiveIndex` | more archives than a byte counts | — | `game_fixes` | — |
| `DecalPrecision` | full precision decals; half floats | nearest half | `game_fixes` | — |
| `ReferenceHandles` | the larger handle table | — | `game_fixes` | `GameFixProofs` |
| `FormCaches` | cached recipe lists of two menus | the game's own search | `game_fixes` | — |
| `OwnedInflate` | zlib streams on other decoders | a whole decode | `game_fixes` | `GameFixProofs` |
| `CosaveIO` | file hooks and buffers | `PlainFiles` | `hooks` | `CosaveIOProofs` |
| `DetourBatch` | several detours or none; patched pointers and their pages | — | `hooks` | `PatchProofs` |
| `VisperMemory` | heaps, pages, headers | — | `memory`, `visper_owner` | `MemoryProofs` |
| `HeapRouting` | which heap serves a call; what is rpmalloc's; names of profiled calls | — | `memory` | `MemoryProofs` |
| `VoltekPools` | small and large blocks of vmm; resizes and aligned blocks | — | `memory` | `MemoryProofs` |
| `AudioSwitch` | following the default device | — | `patches`, `audio_left_behind` | `PatchProofs` |
| `InputSwitch` | cursor and contexts of the Pipboy | — | `patches` | `PatchProofs` |
| `CullingMap` | form ids to loaded 3D | what is loaded (ghost) | `patches` | `PatchProofs` |
| `FlatTable` | the robin-hood hash table | a function (ghost) | `patches` | — |

`PROJECT.json` maps every definition to the lines it models. Definitions
commented as a mutant (`...Keeping`, `...Without...`) are not part of a
specification: each is a plausible bug put beside the definition it would
replace, and each makes one property fail.

Components that share no state share a run: the MC modules `MCMemory`, `MCCore`,
`MCGameFixes`, `MCHooks`, `MCTelemetry`, `MCPatches` and `MCLiveness` extend
several, choose one in the first state (`part`, `fix`, `side`, ...) and leave the
others as they start. A VIEW, where there is one, shows only that one. The properties of one
theme are conjunctions of named invariants (`StatusAgrees`,
`HooksAreWhole`, ...), with each module's type invariant among them; each part is a
definition with its own comment in the module it speaks of.

### OperationProfile

An element of `Ops` is one `Begin`..`End` pair: the thread in `Begin`, then
whoever holds the token, then the thread in `End`. Each shared access another
thread can tell apart is a step: load `m_currentCapture`; load `admissionOpen`
and the generation; decide to sample; add to `activeBegins`; re-read generation
and admission; `try_lock` a shard; re-check; admit; unpin — and in `Publish` the
same again with the token. `Owner` is the thread in `TelemetryHub::Start` and
`Stop`, `Worker` the hub's. The close clears `admissionOpen`, then takes *all*
shard mutexes one after the other and only then measures; a drain takes one
shard at a time.

Atomics are sequentially consistent in the model. The plugin runs on x86-64
only, where the one reordering is of a store with a later load. `Begin` pins
with a locked add before it reads generation and admission again; `StartCapture`
publishes the generation with a sequentially consistent store (an exchange on
x86) before it reads `activeBegins` again; the close clears `admissionOpen` with
an exchange before it takes the mutexes. No plain store of the protocol is
followed by a load that the other side's order depends on.

Kept as the code has it: a `StartCapture` that fails after bumping a slot's
generation leaves it bumped (`AdOperationProfile.cpp:763-767`); a second closer
returns before the first closer's barrier is through (`:803-806`); a token
whose outcome is already counted may still be counted unfinished (`:813`
against `:515`, `:545`); after `FailCapture` the drained series are not
written. The per-thread lanes behind `AllOperations` and the latency buckets
are `CounterLanes`. Left out: the hash that chooses the sample, `ClearIntervals` in `Start` before any capture (it finds
empty shards).

### BurstSeries and BoundedFifo

`Record` checks room, fills the entry (unreadable meanwhile), publishes;
`Drain` takes the overflow, loads the published index, copies entry by entry and
releases. A drain outside a session throws away. The promise is `BoundedFifo`:
a queue that accepts in order while there is room, counts what it refuses, and
gives out from the front. The hub's rule that one thread drains at a time
(Start before the worker, Stop after the join) is in the model as `phase`. The
product calls `Start` once (`AdTelemetryRuntime.cpp:158`) and `Stop` at the exit; the model allows several
sessions. `m_active` and `m_drainEnabled` are plain `bool`s read by another
thread: on x86 an aligned byte that is only ever set; the model reads the old or
the new value.

### TelemetryCapture

Two threads, `controller` and `worker`, and the steps both can take
(`FailCapture`, `FinalizeCapture`) written once with the thread as parameter.
Every file, directory, source and thread operation may fail. A source is what
`OperationProfile` proves of it: it accepts while its admission is open, and
nothing afterwards (`SealedCaptureIsFrozen`), so closing is one step here. `disk`
is what the directory holds at each moment: a crash is any moment, and the
properties of `disk` are invariants. The menu's `CopyCaptureStatus` reads state
and errors in two steps.

### FrameTelemetry

The worker waits for a deadline and drains the frames' source: count and total, the
longest frame and the shortest are taken by one exchange each, and the frame before is
forgotten while telemetry is off. What it took becomes a row of the ring, over the oldest
when that is full, and the deadline moves past those that were missed. The game's thread,
while telemetry is on, reads the clock, exchanges the time of the frame before, updates
longest and shortest and adds count and total in one compare-exchange (count in the low bits,
total above; a frame is left out when either is full); a frame above the threshold is put
in the second ring. `Start`, `Stop` and a worker that cannot be created are actions
around it, with the drains of `ClearIntervals`; time passes between two readings of the clock.
The widths `CountMask` and `TotalMask` are constants. A row holds the frames'
values alone, and of these not the shortest; what other sources write is `HubTable`'s. Left out:
failed rounds of the compare-exchange loops, the validity flags and the ordinary CSV
export.

### HubTable

Modules and heaps register sources in any order while the plugin is built, some twice;
`Telemetry::Initialize` adds the runtime's and freezes the table, which fails as a whole
when one is refused or there is no memory. A row is filled over cells of many rows ago, so a
cell is the source that wrote it, its place and its row; sources fill in turn, so of those
whose spans hold a cell the last decides. What is read from a source that fails
is no value; a series may have fewer samples than room. `ClearIntervals` drains the sources too, so the
page faults before a start are not in its first row. Threads, deadlines and the words behind a
source are `FrameTelemetry`'s; which of an equal key's sources comes first is free here.

### CounterLanes, LogLines

`CounterLanes`: a thread owns a lane for its life and counts its operations there with plain
stores (clear the generation, set the value, store the generation), while the hub reads
generation, value, generation again. A step is one store or load; a load and a store of the
owner's value are one, since nobody else writes it. The reader never runs while a capture is
started: the hub's worker, or `Start` before there is one, is the only reader.
`Begin` loads the generation before it takes a lane, so a thread delayed over a Stop and a
Start can take over a lane of the new capture and reset it, and counts are lost; several such
threads, one after the other between the reader's two looks at the generation, can leave it more
than was begun. `CountIsOfCapture` promises nothing after that (`overtaken`); the second case
came out of the proof, the run's three threads being too few for it. Operations are of one
descriptor. The same module has the source's construction: valid configurations, shards, buckets.

`LogLines`: sixty words of second and count, exchanged by compare-exchange by any thread
that logs, added up one at a time by the menu. A writer that reads its second and is delayed
for a whole minute puts the old second over a later one's count; no least sum is
promised after that (`overdue`).

### ImageTelemetry

Images: the loader notifies one thread at a time for an address (its
own lock); notifications are queued or, with the queue full, counted as dropped,
after which the worker lists the modules. Subscriptions replay what is loaded.
Left out: images that cannot be read, failed allocation of a snapshot; names and
overlapping ranges are abstract. `RegistrySettles` is claimed while nothing was
dropped: after an overflow whose listing fails the worker does not try again.

Large blocks: one stripe, which no block leaves; its lock makes insertion and
removal (with the backward shift of what follows the hole) each a step, between
which other threads allocate and free. Hooks see the calls of patched images
only. What a region belongs to is not claimed, and call counters are left out.

Sampling: the sampler's refresh takes over the cycles charged by thread id; an id
cannot be used again while a handle is held. Suspensions are
counted per thread, other tools suspend as well. Which image a stack is charged to
(`Walk`) and timers are left out. In the rows of an image (`SeriesNext`) one number
stands for calls, ticks and bytes.

### PluginCallbacks and LoadTiming

`PluginCallbacks`: F4SE (external) looks up Query and Load of one plugin after the
other; hooks know one pending plugin. Callbacks get thunks of a fixed table
while there are any and are passed on as they are, and counted, afterwards. The table of handles
always has room; plugin names and message types are left out.

`LoadTiming`: start-up spans and the spans of a load, with the game's two threads in
the order the game has them, and other threads calling the timed functions at any
time. `s_timedOriginals` is assigned after the detour goes in; at the load stage
no other thread calls the function yet, so that window is left out.

### ModuleManager

A registration is a module at a stage (`kLoad` or a message): Facegen and a few
others register at both. `Query`, `QueryModule`, `QueryDone`, `InstallModule`,
`AfterFailure` and the listeners follow the code; whether a module's `DoQuery`
and `DoInstall` succeed, fail, raise or `Skip` is free. The defender's snapshot
is the set of patches in the image when it was taken. As in the code: a module
whose load failed still installs at its message; listeners are kept by modules
whose installation failed and belong to load-stage modules only; modules of the
preload stage never listen. F4SE sends each message once (`kGameDataReady` and
`kPostLoadGame` once for each value of their data). Unregistering exists in the
code but is not called, and is not modelled.

### SettingsStore

Documents are abstracted to: the value of each setting, or none; whether entries
that are not the plugin's are there; whether the layout has the descriptions.
`Apply` is read, parse, build, compare, create the temporary, write, replace,
commit, with failure and the end of the game at every step. Numbers the menu's
controls return are out of range at times and are normalised as
`NormalizeSettingDraftValue` does. The REX stores (external) load
`Addictol.toml` and then `AddictolCustom.toml` over it. The user edits the file
any time but between the plugin's read and its replacement (such an edit is
lost; nothing in the code can see it). `SetValue`'s rejection after the write is
unreachable, since types were matched before; `MOVEFILE_COPY_ALLOWED` has no
effect within one directory; a temporary file left behind by a crash is never
removed, which harms nothing but the disk.

### FacegenExceptions

Reading the INI (at the message, or when the game reloads it), validation of entries
against the load order, publication of the set the game's threads look up, and the page: draft, editor, confirmations,
save and reload. Names are equal up to case and spaces; keys
that would read as comments or sections are excluded (saved as such, they are lost: the
code does not refuse them); the INI has the one section; the page's dialogs are modal; edits by the
user while a save runs are excluded.

### EffectLifetime

Hooks on the constructor and both destructors go in one after the other; on
NG/AE the owner's deleting destructor inlines the plain one, on OG it calls it
(`inlined`). Threads make and destroy effects from the start. The registry's
vectors are sets here (`Link` unlinks first, so there are no duplicates). One
race remains in the code and is exempt in the property: between
`Unlink` and the end of the original shader destructor, another thread may
destroy the owner (`AdModuleShaderReferenceEffectLifetime.cpp:83`).

### ArchiveIndex, DecalPrecision, ReferenceHandles

`ArchiveIndex`: archives are registered, files looked up, streams opened and
textures located, through the byte in the header, the 16-bit table beside it or
both, place by place. `ProcessPath` cuts at the first `data\` anywhere in a path, so
a path whose directory merely ends in "data" is cut too; `ArchiveAssumption` leaves such
paths out.

`DecalPrecision`: the thread's stack of descriptors through the hooks' calls,
early returns and nested calls; every call site is checked before the first is patched.
The half floats are checked apart (`fix = "halves"`) over a set of bit patterns around
every boundary, against the definition "nearest, and of two equally near the larger".

`ReferenceHandles`: the table made and torn down, the reference word with its
shared fields, handles taken and given back with their ages. `IncrementAge` and
`CreateHandle` of `AdModuleRefExtended` are never called: the model follows what the patched game does.

### OwnedInflate

Streams are routed by a tag and the owner's table; an owned state tries the whole
input first if a whole decoder is there, goes on streaming otherwise, and
corrects for the bytes a streaming decoder has taken ahead (the held byte). Inits,
resets, copies, dictionaries and ends are calls in any order. Left out: `inflateSync`,
flush values above 4, the values of checksums, recipients of headers, counters and
histograms, why a fallback was taken; streams copied by plain assignment are given up before
`End`; `Z_OK` and `Z_BUF_ERROR` are one answer. Decoders are libraries: an
answer is any that their documentation allows.

### CosaveIO and PlainFiles

The five imports are hooked one at a time, and the original stored after the
hook is callable, so calls may run into a hook that has nothing to call yet
(`WaitForOriginal` — `PassOn` and `Serving` wait for `stored`). Every hook, and
Windows' functions behind them, is an action; tracking a new co-save is a step
after the handle exists and before the caller has it. Bytes are known by their
offset, so an answer is file, offset and count. Each call that reads or moves a
buffer holds `s_filesLock` throughout: one step. `AddOffset` is translated with
its unsigned arithmetic, the largest signed position being a constant;
`kOverflow` is unreachable with cursors up to it. The abstraction `PlainFiles`
is Windows without hooks, seen by a caller that holds a handle from the return
of `CreateFile` to its call of `CloseHandle`.

Assumed of callers: one closes its handle once, through the import, with no
other call on it under way, does not read a tracked handle with an OVERLAPPED
and passes valid memory; of Windows: going back to the start of an open file
does not fail (were it to fail, the code would leave the handle at its end).

### DetourBatch

`DetourBatch`: the first bytes of a function are the chain of hooks on it. Other
plugins hook between any two steps while their threads run; a batch takes its snapshot of threads, begins a
transaction, suspends, compares, attaches and commits. Threads started after the
snapshot are not suspended. A thread that cannot be opened and no memory for its handle are
one failure, which gives the batch up; allocation of the library while threads are
suspended is not modelled. Pointer patches, in the same module: pages made writable, pointers read, checked,
exchanged, protections given back in reverse; the two users differ in what they accept. Restoring a protection
succeeds, other tools do not change protections meanwhile; `VisitImports` and `PatchImport` are left out.

### VisperMemory, HeapRouting

Visper: heaps of fixed-size blocks in pages; a page is a stack of free blocks; a block's
header says to which heap and page it returns. The single lock of `Alloc`, `Free`
and `Realloc` makes each an action. Header fields keep their four bits.

`HeapRouting`: the backend chosen by name, the hooks of every heap of the game, and each call through
`ProxyHeap`, with blocks that are older than the hooks or other heaps'; the name of
a profiled call is a function of site and size. A heap that is asked for nothing in a
resize frees the block (Voltek and Visper; the game's own is taken to). How large a block
is that a heap gives is not derived here: the game's heap, Voltek, mimalloc and rpmalloc
are taken to give what they are asked for, and Visper to give a block of any size, since it does
(`visper_owner`, section 3). So `BlocksHaveRoom` is about what the hooks and the adapter ask,
and says nothing of Visper's blocks; what can be said of those is `RoomFollowsHeader` in
`VisperMemory`. The map of what is rpmalloc's, in the same module: one bit for each granule wholly
inside a mapping, set and cleared with other threads' mappings in between.

### VoltekPools

Pools: pages of equal blocks under the pool's lock and a cache for each thread, filled and flushed
in batches; a block's flags are changed by compare-exchange. A second free is let race with the first but ends
before the block is handed out again. Links of blocks that are on no free list are
written as 0 (nobody reads them). Slots, in the same module: classes of large blocks with one shared budget for what is kept
committed; no double free of large blocks. Blocks: aligned blocks within others, resizes.
Bit searches, spin locks, dumps and statistics are abstracted.

### AudioSwitch, InputSwitch, CullingMap

`AudioSwitch`: requests, building, draining and swapping of a graph on the audio
thread, Windows' notifications, each engine's callback. Stopping an engine waits for its callback (external).
Model memory is sequentially consistent; the code's relaxed store of `s_requestForced` before the load of
`s_requestDue` may be seen late on x86, which delays a request by a
loop. Fading, reverb and the speed of sound are left out; a sound may end any time.

`InputSwitch`: the overlay's check and clear is one step; contexts of other menus are not
modelled; the game's destructor pops ThumbNav (external).

`CullingMap`: threads load and unload cells, the renderer walks with the mutex held;
an object lives while a cell, the map or an update holds it. `bUsePreCulledObjects` is
fixed; the lists of dynamic objects are left out.

### FlatTable

The robin-hood table of `ankerl::unordered_dense` as the patches use it: insert,
`try_emplace`, find, erase by key and iterator, clear, reserve, rehash, with the bucket
as one number of distance and fingerprint, compared as the code does. Left out: tables of 2^32 buckets,
other load factors, copies and moves of tables, the segmented vector, erasing a range.

### FormCaches

The crafting menu's lists by attach point and the workshop's map of recipes by
keyword, each against what the game would find without them. Menus run on the
game's main thread, so the mutex around the lists and the order of the single
stores of the swap (`size` first, which protects no concurrent reader) tell nothing
apart. Forms are appended or marked deleted. An exception in the game's
function leaves `t_inSwap` set for good (its reset is after the call), after which
nothing is swapped any more: slow, not wrong. `RecipesAssumption` leaves out
recipes of which none has a keyword: an empty map is taken for one that was never
built, and each question builds it again over the uncategorised ones it kept.
Deleted keywords are left out.

## 3. Findings

**Visper's headers name the wrong heap** (run `visper_owner`).
`Page::CreateBlock` (`Source/Memory/AdVisperMemoryAllocator.cpp:64`) stores
`heap = GetHeapId()` and `page = GetId()`, while `GetHeapId` returns `pageId` and
`GetId` returns `heapId` (`AdVisperMemoryAllocator.h:104-105`); the header says
"Index of the heap to which the block belongs" (`:58`). For heap 0, page 0 both
are zero and nothing shows. From a heap's second page on, freed blocks go to the
heap whose index is the page's: a 32-byte block of heap 0's second page ends up
among the 64-byte blocks; blocks of a page whose index names the first page of
another heap are pushed beyond a full stack and lost; `Realloc` of a block from
the fourth page on dereferences a heap that was not created. So a block can be shorter than
what its user asked for: `Alloc(60)` may return the 32-byte block from the 64-byte stack and
clears 64 bytes of it (`:171-173`). What holds (`RoomFollowsHeader`, proved) is
that only a block whose header names a larger heap can be too short, and then serves no
more than that heap's size. A block is still never handed out twice (`NoBlockTwice` holds).

**The custom settings file is not written** (run `settings_custom`).
`src/CONTRIBUTING.md:153-154`, `src/README.md:87` and `AdMenuHome.cpp:27` say
descriptions and overrides go to `AddictolCustom.toml` if present;
`AdSettingPersistence.cpp:818` sets the path to `Addictol.toml` whatever exists.
A setting that the custom file sets cannot be changed from the menu: the save
is reported as done, and the next launch loads the old value. Its values are
copied into `Addictol.toml` on the way.

**Face exceptions can be lost unseen** (run `faces_unread`).
`SaveExceptions` (`AdModuleFacegen.cpp:627`) removes every key of the section and
writes the page's draft, and the page offers Add and Save before the INI was read
(or with `bFacegen` off, when it never is). `AdMenuFacegenExceptions.cpp:640`
promises that the user's entries "will appear after the module reads the INI";
an entry added before that and saved takes them out of the file instead.

**A change of the audio device can be missed** (run `audio_left_behind`).
`Bind` (`AdModuleAudioSwitch.cpp:167`) stores, when the new graph is swapped in,
the default device of that moment. XAudio2 opened the one that was the default
when the graph was built. A device chosen in between is taken for the one
in use, the request for it is dropped, and the game plays on where the user left.
`AdPatchSettings.cpp:93` promises to switch "to a newly selected default audio device".

Seen while modelling, without a run (nothing in the repository says otherwise, or
the case is outside a model):

* `AdModuleReferenceHandleLimitWarning.cpp:53-62` publishes the tail of the free list
  as `references.handle_count`.
* `PrepareHeapOperationProfile` (`AdProfiledHeap.cpp`) labels `scaleform_backend` as voltek's.
* A face exception whose name starts with `;`, `#` or `[` is saved as a comment or a section.
* `NeedSkipNPC` (`AdModuleFacegen.cpp:460`) fills a static buffer that other threads may be reading.
* `OperationProfile`'s lanes: `Begin` loads the generation before it takes a lane
  (`AdOperationProfile.cpp:404-429`); delayed over a Stop and a Start, it resets the
  new capture's count in a lane that it takes over.

## 4. Runs

Distinct states and seconds are of two workers on a desktop machine.

| Run | What it asks | Properties | States | s |
|---|---|---|---|---|
| `operation_profile` | two operations across two captures, stop, recycling | `CountsBelongToCapture`, `RecycledSlotIsFree`, `AdmissionsConserved`, `RecordsAccountedFor`, `SealedCaptureIsFrozen` | 2,088,483 | 63 |
| `liveness` | do `Begin`, `End`, `Start` and `Stop` return; is the ring a bounded queue and what is published drained | `StartupRecordsKept`, `FifoImplemented`, `PublishedIsDrained`, `EveryCallReturns` | 116,777 | 210 |
| `telemetry` | captures with everything failing, and crashes; images, their blocks, samples and rows | `StatusAgrees`, `SealedForGood`, `ImagesAreAccounted` | 2,586,955 | 145 |
| `core` | settings through launches, drafts, failures, crashes; modules through all messages; face exceptions; sources, rows and frames of the hub; lanes of operations; log lines | `SavesAreAtomic`, `ForeignKept`, `ValuesFollowTiming`, `CommittedWillLoad`, `OutcomesAgree`, `RefusalIsFinal`, `ExceptionsAreWhole`, `UnsavedChangesKept`, `RowsAddUp` | 2,371,818 | 133 |
| `game_fixes` | effects, archives, decals, handles, inflated streams, form caches | `EffectsAreLive`, `LookupsFindAll`, `DecalsKeepTheirShapes`, `HandlesAreWhole`, `StreamsAreWhole` | 427,254 | 83 |
| `hooks` | co-save files, detours, patched pointers, plugin callbacks | `BuffersAreCurrent`, `PlainFilesImplemented`, `HooksAreWhole`, `CallbacksLeadHome` | 817,236 | 107 |
| `memory` | Visper, routing, rpmalloc's map, Voltek | `NoBlockHasTwoUsers`, `PoolsAreWhole`, `BlocksKeepTheirRoom`, `CallsAreNamed`, `BlocksComeHome` | 973,168 | 98 |
| `patches` | audio, input, culling, load timing, the hash table | `AudioGoesOn`, `InputFitsDevice`, `CullingFindsLoaded`, `TimesAreTrue`, `TableIsAMap` | 1,488,174 | 96 |
| `visper_owner` | finding | `FreeBlocksAtHome` (violated) | | 1 |
| `settings_custom` | finding | `OverridesReachActiveFile` (violated) | | 1 |
| `faces_unread` | finding | `NoEntryLostUnseen` (violated) | | 1 |
| `audio_left_behind` | finding | `DefaultIsFollowed` (violated) | | 1 |

### Bounds

* `operation_profile`: two operations, two slots (the code has eight), one shard
  of capacity one, two generations, three begins. A stale token needs one
  operation in the old capture and one in the new; a recycled slot needs a third
  start, which two generations per slot allow. More shards only repeat the
  try-locks; the proofs cover them. The VIEW leaves out locals that are not set
  yet or not read again.
* `liveness`: ring of 2, drain of 1, so a burst outgrows both and the ring wraps (4
  records); two sessions, so records before, between and after. (In the code rings of
  1024, 4608 and 256, drain of 256; refinement proved for all sizes.) One source, one
  capture, one timed interval; one slot, two operations contending for one shard.
* `telemetry`: two sources (one of two failing to start), two sessions (a second
  directory), one timed interval beside the last, one record for each source and
  session; two addresses and two images, a queue of two and three loads, so that a
  notification is dropped; two small blocks and a region on a stripe of three positions,
  so that probes wrap; two thread objects that may have each other's id.
* `core`: one immediate setting, one for the next launch, two values, one user edit;
  custom file absent or setting the later one. A preload module, one registered
  at two stages, one late, one disabled; two of them defended. One save or reload of the faces' page, with any number by the game; two names, a light
  plugin and one that is not loaded. A ring of two rows and of one record, words of
  one bit, so that counts and totals fill up. Sources: the process's memory, two modules' with a
  series each, one with a key that is taken and one with a key that is not valid; a ring of
  two rows and four collections, as the first row comes back at the fourth; a page fault count of one
  bit, which wraps. Three threads (new ones are alike: they begin in order) for two lanes, so that one is left without and one is
  taken over, two captures of two operations; configurations with records that do not divide by their
  shards. Two writers, a minute of two seconds, a mask of one bit.
* `game_fixes`: two threads, owners, shader effects, used again without bound; three
  archives for a byte of two values; three shapes; three references for two handles
  whose ages take four of their eight values and do not come round; two streams and two states over four bytes of input of which the
  third makes all the output; two attach points with three recipes and mods; four
  workshop recipes, among them one with a keyword twice, one with too many, one with none.
* `hooks`: two threads and two handle numbers used again without bound, one
  co-save and one other file of one byte, positions up to one past the end, every
  distance from the smallest to the largest; two detours, two other threads; three
  pointers, two on a page; two thunks for three callbacks.
* `memory`: two Visper heaps and three pages, so that a page's index names its own
  heap, the other or none; two addresses to route; a map of nine words;
  two Voltek pages of two blocks, caches flushed by half; two classes of slots
  of which the budget keeps two small ones or one large.
* `patches`: two graphs, two devices, one sound; two messages for the Pipboy; three
  objects; two loads by two threads; four keys of which two have one hash, in a
  table that grows twice.

### Deadlock

Deadlock is checked in every run. Where the system may rest — nothing to
profile, nobody starting telemetry again, a game ended by a null pointer, a bound
reached — the MC module adds a stuttering step for exactly that state (`Quiescent`), so any
other state without successor is reported; in the other models some call is
always possible.

### Fairness

Only `liveness` uses fairness, of each part for the behaviours that are of it:

* operations: weak fairness of each operation's steps and of the controllers'
  (a running thread goes on), strong fairness of taking a shard's mutex: Windows'
  mutex is not fair, but `Begin` and `Publish` only try once and hold it for a few
  instructions, and drains come at a cadence, so a closer that waits for it gets
  it at some time it is free. None of calling `Begin`, `End`, `Start` or `Stop`.
* the ring: weak fairness of the collecting thread and of the cadence's wake-up
  (`wait_until` with a deadline). None of the producer.
* captures: weak fairness of each thread's next step. None of calls,
  deadlines, operations or menu polls.

## 5. Proofs

Every leaf is checked by `tlapm` and no step is left out, in eight modules. All have the same shape:
an invariant made of named parts, a lemma that it holds initially, one lemma for
each part or action that every step keeps it, and the theorem by propositional
temporal logic. Constants are arbitrary: what is assumed of them are the named
`ASSUME`s of the modules, which every run evaluates. Where an argument needs induction
over numbers (the pool after each block of a flush), it is made first-order,
from the least number for which it fails (`LeastOf`, from the well-founded order of
finite sets).

**OperationProfileProofs** — for every number of operations, slots, shards and every
capacity: `TypeCorrect`, `NoForeignCounts` (what is counted in a slot belongs to
the capture the slot serves), `RecyclingIsSafe`, `Conservation` (admissions are
outcomes plus unresolved tokens), `CloseIsABarrier` (a sealed capture never changes
again). `IInv` = types, `PinsCounted` and `TokensCounted` (each counter is the
cardinality of the set of operations between pin and unpin — so a zero read
means nobody), `WorkerJoined`, `ShardsHeld` (who is past a lock owns it),
`ClosingACapture`, `Handshake` (from the invalidation of a slot on nobody has a
valid pin to it), `CountsBelongToCapture`, `LateWritersAwaited` (who is about
to write under a closed admission owns a mutex that the barrier has still to
take), `AdmissionsConserved`. The properties alone are not inductive: that no
valid pin is left when a slot is reset follows only from counting, and the
barrier only from who owns which mutex. `RecordsAreReported`: what is in a shard, a
thread's hands, the interval's calls and the report adds up to what was accepted
(`RecordsConserved`), with sums over shards by their partial sums.
Assumptions: finite `Ops`, distinct names (`ASSUME`s of the module).

**BurstSeriesProofs** — `ImplementsFifo`: the ring refines `BoundedFifo` for every
capacity. The invariant orders the indices; the argument is that two indices
less than a lap apart are different entries (`ModInjective`), so `Record` writes
only where no waiting record lies, and that what a drain copied so far is a
prefix of what waits. `TypeCorrect`, `StartupIsKept` (no Start clears what was recorded before).

**TelemetryCaptureProofs** — `StatusIsTrue`, `SealedStaysSealed` for any sources and
limits, with any file operation failing and a crash at any step. `CaptureInv` says where
each thread can be (`StagesFit`), which directory and state go with that, that a
source is closed on every way into a failed state (`SourcesFit`), that each record accepted is
in a ring, in the worker's hands or in the file unless an error was flagged (`RecordsFit`),
the same for rows, and what the metadata on disk says between its write and the
settled state (`SealFits`). That "complete" is true follows only from the counts.

**GameFixProofs** — the registry of shader effects: `RegistryIsLive`, `DetachIsSafe`,
`ControllersAreLive` for any number of threads and objects. `IInv` = types, the order of hooks,
what a thread in each hook has, at most one destructor for an object, the registry's
two maps being converses between live objects, and that every hooked shader
effect with a controller is tracked. The handle table: `HandlesAlwaysWhole` for any widths of
index, age and count. `HandleInv` keeps the free list as a sequence of slots that each name the
next, so that taking the head and appending at the tail are steps on a sequence; that a
reference's word is its slot, its bit and its count and nothing else; and that no age is
used twice for a slot, which is why a stale handle cannot lead to another reference. It holds
until an age has gone round (`MaxCreations` is below 2^`AgeBits`), as the game's own table does.
The streams: `StreamsAlwaysWhole` for any content, room, read-ahead and number of streams.
`InflateInv` ties a stream to its decoder (`Mirrored`: what the decoder has taken is what
the caller's view says, and the byte held back; when nothing is left to give, everything
made is delivered), and a state to its owner. `StreamedKeeps` is the heart: a byte is held
exactly when a caller that stops at the end of its input would leave output behind.

**CoreProofs** — `SettingsStore`: `AtomicSaves`, `UserDataSurvives`, `TimingRespected`,
`CommittedValuesLoad` for any settings, values and custom files. `IInv` says what
the file holds at each step of a save, that the output is what `Build` makes of
the file that was read, and that memory follows the timing of each setting.
`ModuleManager`: `OutcomesAlwaysAgree`, `RefusedForGood` for any modules, stages and
messages; `ManagerInv` adds which call can be where, that what has no outcome still waits
for its stage, and that a registration leaves one bucket of the tally as it enters
another. `FacegenExceptions`: `ExceptionsAlwaysWhole`, `DraftsAreKept`; `FacegenInv` adds
what each holder of the mutex is about to write or to publish.
`FrameTelemetry`: `FramesAlwaysAddUp`, the first part of `RowsAddUp`. `FrameInv` reads the
packed word as a count and a total whose sum of parts never carries (`FramePart`), keeps both
rings as the end of a sequence of all that was written (`InRing`), whatever their capacity,
and the next deadline as the start and so many whole periods, collected or skipped.
`CounterLanes`: `LanesAlwaysAddUp`, the second part. `LanesInv` has where each thread is with what
it has read of its lane, one owner to a lane, each tally as the number of threads that are past
its step and of lanes' values, and a function of partial sums over the lanes that bounds the
reader's count at each lane from above and from below. A shard ends where `EndOf` says, and a
duration falls into the bucket of the least bound that is not below it.
`LogLines`: `LinesAlwaysAddUp`, the third. `LogInv` says that a line is in its bucket
or with its writer, that a bucket has all lines of its second unless a later second took it, and
bounds the addition under way by two sums over the seconds whose buckets it has passed.
`HubTable`: `HubAlwaysAddsUp`, the fourth. Registration and layout go source by source, so
what they leave is proved of a run of steps (`StepsStay`, `RunOf`, by the least step that fails).
`HubInv` says that sources share no key, that their spans lie side by side and leave no
cell between them (`LaidOut`; only so is every cell of an old row written over), that row `j` is
at the place of `j` while it is one of the newest, and what the last reading of the
faults was. `RowsAlwaysAddUp` puts the four together: a step of the core is one of
each part or leaves it alone.

**PatchProofs** — one invariant for each patch. `InputAlwaysFits`. `TimesAreAlwaysTrue`:
where the spans of a start and of a load are, with one thread recording at a time.
`AudioAlwaysGoesOn`: how far a lost device has been followed at each step of the audio
thread. `CallbacksAlwaysLeadHome`: a thunk is one thread's until it is filled, for any number
of threads registering. `HooksAlwaysWhole`: what is suspended is what the batch holds
handles of, which are all threads of the snapshot when the first byte is compared again;
what a patch of pointers has prepared is what it gives back, page by page.
`CullingAlwaysFindsLoaded`: the two maps hold what is loaded, in order, through insertion and
removal at any place of a list and a walk that rests in its middle.

**MemoryProofs** — `BlocksAlwaysComeHome` (`HeapInv`; `GranuleInv`: rpmalloc's regions are
apart and its map holds their whole granules, for any granule size). `RoomIsAlwaysKept`
has three parts: what is asked of a heap leaves room, if the heap gives what it is asked for, for
every heap but Visper (`HeapInv`); a block's header of Voltek's says the size last asked for, and
a resize loses no byte (`VoltekInv`); and a block of Visper's was given from the stack of its
own heap or of the one its header names, for a size of that heap (`RoomInv`), so that it is too
short only if its header names a larger one.
`NoBlockIsShared`: `VisperInv` gives every free block its one place, although headers lie
about heap and page (the finding `visper_owner`); `PoolsInv` does the same for Voltek's
caches through an owner of each cached block, and says of the pool (`PoolGood`) that pages lie
in slots of their own, that a busy block is one its page gave out, that a page counts its
busy blocks, and, while nobody has written to a freed block, that the free list is a chain
through exactly the blocks that came back. `NoBlockHasTwoUsers` needs none of the
chain: a spoiled link can lose blocks, never share one, because a page checks a block's flags
before it gives it. `PoolsAreAlwaysWhole` says the rest:
there the chain is needed, for without it a page with room could not give, and `SlotsInv`
says that a slot of a large block is free, in use, in one thread's cache or on the free list and
that the two mappers' counts and the shared budget are sums over those slots. The
sums are folds; the section "Sums over finite sets" opens the fold once, by the least set on
which it could go wrong, and the rest cites what a sum becomes when one term changes.
`CallsAreAlwaysNamed` needs little of the state (`ProfileInv`: the flag is set while a call is
open) and much of the lists: what stands at a place of one of several sequences
stands in their concatenation behind the lengths of those before it (`FlatHolds`), used once for
each loop of `kNames`, against the sums that `HeapProfileDescriptor` forms.
Assumed: block sizes are numbers in ascending order, a batch is at most a cache, the size
classes have a bound.

**CosaveIOProofs** — `ImplementsPlainFiles`: the hooks refine plain file handles for
any number of threads, handles and files, every file length and every largest
position (so for 64 bits). `Inv` = types, what a thread in each step has
(`CallsInOrder`), that who tracks or closes a handle is alone on it (`Alone`),
that a tracked handle is a co-save at its start (`TracksFresh`), that no call on its
way to Windows has a buffer (`NoBypass`), that buffers match their handles
(`BuffersMatch`). The mapping gives a caller's view of a handle: the buffer's
cursor if there is one, else Windows' position, and nothing before `CreateFile`
returns or after `CloseHandle` is called. `NewPositionIsTarget` is the arithmetic:
the unsigned sums refuse exactly what Windows refuses. `BuffersCurrent`,
`TypeCorrect`.

Only model-checked: liveness (fairness and ENABLED are out of the prover's reach);
`LookupsFindAll` and `TableIsAMap`, whose tables are filled by folds, which induction
over data would have to open up;
`DecalsKeepTheirShapes`, the arithmetic of half floats; and
`ImagesAreAccounted`, which has not been tried.

## 6. What the properties are for

Each hazard in `PROJECT.json` names the line where it bites and the properties
that would catch it. The deepest:

* `CountsBelongToCapture`, `SealedCaptureIsFrozen` — the slot protocol: a `Begin`
  delayed across a Stop and a Start must not count in the next capture.
* `FifoImplemented` — an index compared wrongly loses, repeats or tears a record.
* `SealedIsWhole`, `SettledAgrees` (in `StatusAgrees`) — "complete" on disk means
  complete, at every moment and after every failure.
* `DefendedImage` (in `OutcomesAgree`) — what a restoration takes away was not
  somebody else's patch.
* `EffectsAreLive` — no link survives an object, in the middle of installing the
  hooks included.
* `SavesAreAtomic`, `CommittedWillLoad` — across crashes, failures, refreshes, edits.
* `PlainFilesImplemented` — hooks are invisible.
* `LiveBlocksAreKnown`, `ChainsAreUnbroken` (in `ImagesAreAccounted`) and `TableIsAMap` — hash
  tables that close their holes against the maps they stand for.
* `NoBlockHasTwoUsers` — blocks freed twice at once, written to after they were freed.
* `NothingIsStranded`, `FinishedIsWhole` (in `StreamsAreWhole`) — no output stays behind in a decoder.
* `FilesComeFromTheirArchive` (in `LookupsFindAll`) — sixteen bits of index through code made for eight.
* `HooksAreWhole` — all detours or none, every thread resumed, with other plugins hooking in between.
* `AudioGoesOn` — no lost device is forgotten and no voice is left on a graph that is gone.
* `CountAndTotalAgree`, `HistoryIsTheNewest` (in `RowsAddUp`) — two numbers in a word, two rings.

Hazards no property covers, because the code accepts them or nothing in it can
see them: an effect destroyed within its destructor
(`AdModuleShaderReferenceEffectLifetime.cpp:83`), what other threads write to the data
sections while the defender restores them (`AdModuleDefender.cpp:79`), an edit of the
settings file during a save (`AdSettingPersistence.cpp:724`), `m_modulesMutex` held while
modules are installed (`AdModuleManager.cpp:328`).

## 7. Not modelled, and why

* Most game patches: machine code of a program that is not in the repository;
  what each shares with the others is `ModuleManager`.
* Text: TOML syntax, layout, CSV formatting, log lines, names. No property is about them.
* The menu's drawing; screen state is not shared.
* Build files, tests, tools, data, vendored headers without protocols of their own (`xbyak`, `zlib-ng`'s configuration).
* Adapters to external allocators and decoders beyond the routing of calls.
* In each modelled component, what its paragraph in section 2 says is left out.

## 8. Plan

Done: everything in the table of section 2. Next, most important first:

1. **Proofs**: `ImagesAreAccounted`, `LiveBlocksAreKnown` first: what is left of the runs' invariants.
2. **Papyrus**: the limits and leaks the script patches repair.
3. **The rest of Voltek** (bit searches, the page map) and of the settings' layout.
4. **Abstract specifications** for `FlatTable` and the table of large blocks of their own, refined as
   `PlainFiles` is, in place of their ghosts.
