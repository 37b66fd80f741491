----------------------------- MODULE HeapRouting -----------------------------
(***************************************************************************)
(* Which heap serves the game's calls: the backend selected by name        *)
(* (AdAllocator), the hooks of the memory manager, the scrap and CRT heaps,*)
(* Havok, Scaleform and the small blocks, and the adapter every call goes  *)
(* through (ProxyHeap).  Blocks the game allocated before the hooks stay   *)
(* in use after them.  Sizes are below SizeMax, a block is an address.     *)
(* VoltekPools is one of the backends, behind the calls that reach it.     *)
(***************************************************************************)
EXTENDS VoltekPools, Integers, SequencesExt, FiniteSets

CONSTANTS
    Addresses,      \* addresses of blocks
    SizeMax         \* SIZE_MAX

Backends == {"voltek", "mimalloc", "rpmalloc"}
HeapKinds == {"stock"} \cup Backends
BlockHeaps == HeapKinds \cup {"visper"}
\* kOverreadPadding for the heaps that keep no header before a block.
TailPadding(heap) == IF heap \in {"mimalloc", "rpmalloc"} THEN 1 ELSE 0

\* HeapProfileSite: who calls.
Sites == {"memory_manager", "scrap", "havok", "crt", "small_block", "scaleform"}
ManagerSites == {"memory_manager", "scrap", "havok", "crt"}

ASSUME RoutingAssumption == SizeMax \in Nat /\ SizeMax > 1

NoHeapBlock == [heap |-> "none", site |-> "none", requested |-> 0, usable |-> 0]

VARIABLES
    initialized,        \* backends whose Initialize succeeds
    selectedHeapKind,   \* s_selectedHeapKind
    modulesLeft,        \* allocator modules still to be queried and installed
    hooked,             \* the heap each site's calls go to
    heapBlocks,         \* what is at each address
    outOfMemory,        \* CheckPtr has ended the game
    reached             \* history: the heap the last call reached

routingVars == <<initialized, selectedHeapKind, modulesLeft, hooked>>
routedVars == <<heapBlocks, outOfMemory, reached>>
heapVars == <<routingVars, routedVars>>

AllocatorModules == {"manager", "scaleform", "smallblock"}

HeapTypeOK ==
    /\ initialized \subseteq Backends
    /\ selectedHeapKind \in HeapKinds
    /\ modulesLeft \subseteq AllocatorModules
    /\ hooked \in [Sites -> BlockHeaps]
    /\ heapBlocks \in [Addresses -> {NoHeapBlock} \cup
          [heap : BlockHeaps, site : Sites, requested : 0 .. SizeMax, usable : 0 .. SizeMax]]
    /\ outOfMemory \in BOOLEAN
    /\ reached \in BlockHeaps

HeapStart(ready) ==
    /\ initialized = ready
    /\ selectedHeapKind = "voltek"
    /\ modulesLeft = AllocatorModules
    /\ hooked = [s \in Sites |-> "stock"]
    /\ heapBlocks = [a \in Addresses |-> NoHeapBlock]
    /\ outOfMemory = FALSE
    /\ reached = "stock"
HeapInit == \E ready \in SUBSET Backends : HeapStart(ready)
-----------------------------------------------------------------------------
(* Selection and installation, before the game runs.                       *)

Ready(kind) == kind = "stock" \/ kind \in initialized
HooksTo(sites, heap) == [s \in Sites |-> IF s \in sites THEN heap ELSE hooked[s]]

\* The memory manager's DoQuery resolves the name in the settings, and gives
\* the module up when it names no backend; its DoInstall falls back to stock.
InstallMemoryManagerAtOnce(name) ==     \* whatever Initialize returned
    /\ "manager" \in modulesLeft
    /\ modulesLeft' = modulesLeft \ {"manager"}
    /\ selectedHeapKind' = IF name \in HeapKinds THEN name ELSE selectedHeapKind
    /\ hooked' = IF name \in Backends THEN HooksTo(ManagerSites, name) ELSE hooked
    /\ UNCHANGED <<initialized, routedVars>>
InstallMemoryManager(name) ==
    LET kind == IF Ready(name) THEN name ELSE "stock" IN
    /\ "manager" \in modulesLeft
    /\ modulesLeft' = modulesLeft \ {"manager"}
    /\ IF name \in HeapKinds
       THEN /\ selectedHeapKind' = kind
            /\ hooked' = IF kind = "stock" THEN hooked ELSE HooksTo(ManagerSites, kind)
       ELSE UNCHANGED <<selectedHeapKind, hooked>>
    /\ UNCHANGED <<initialized, routedVars>>

\* The query of every module precedes the first installation, and the memory
\* manager is installed first; it may also be switched off.
ManagerSkipped ==
    /\ "manager" \in modulesLeft
    /\ modulesLeft' = modulesLeft \ {"manager"}
    /\ UNCHANGED <<initialized, selectedHeapKind, hooked, routedVars>>

InstallScaleform ==
    /\ "manager" \notin modulesLeft /\ "scaleform" \in modulesLeft
    /\ modulesLeft' = modulesLeft \ {"scaleform"}
    /\ hooked' = IF Ready(selectedHeapKind) THEN HooksTo({"scaleform"}, selectedHeapKind)
                 ELSE hooked
    /\ UNCHANGED <<initialized, selectedHeapKind, routedVars>>

InstallSmallBlock(useSelectedHeap) ==
    /\ "manager" \notin modulesLeft /\ "smallblock" \in modulesLeft
    /\ modulesLeft' = modulesLeft \ {"smallblock"}
    /\ hooked' = CASE ~useSelectedHeap -> HooksTo({"small_block"}, "visper")
                   [] useSelectedHeap /\ Ready(selectedHeapKind) ->
                        HooksTo({"small_block"}, selectedHeapKind)
                   [] OTHER -> hooked
    /\ UNCHANGED <<initialized, selectedHeapKind, routedVars>>
-----------------------------------------------------------------------------
(* ProxyHeap.  A backend may have no memory left, and rounds sizes up.     *)

\* A request too large for the padding is not made: the sum would wrap.
OverflowsNever(heap, size) == FALSE
Overflows(heap, size) == size > SizeMax - TailPadding(heap)
Fresh == {a \in Addresses : heapBlocks[a] = NoHeapBlock}

\* A block of "heap" where "request" was asked for and "size" was passed on.  That
\* it is at least as large as what the heap itself was asked for is the contract
\* of the game's heap, Voltek, mimalloc and rpmalloc.  Visper does not keep it: a
\* block that strayed to the stack of another heap may be of any size, and what
\* is so of its blocks is VisperMemory's RoomFollowsHeader.
HeapBlocks(site, heap, request, size) ==
    [heap : {heap}, site : {site}, requested : {request},
     usable : {n \in 0 .. SizeMax :
                  heap # "visper" => n >= (size + TailPadding(heap)) % (SizeMax + 1)}]

\* CheckPtr ends the game when a request of some size was not served, if it can
\* find out how much memory there is.
CheckPtr(served, size) ==
    outOfMemory' \in IF served \/ size = 0 THEN {outOfMemory} ELSE {outOfMemory, TRUE}

Serve(site, heap, a, request, size) ==
    \E block \in HeapBlocks(site, heap, request, size) :
        heapBlocks' = [heapBlocks EXCEPT ![a] = block]

AllocateFor(site, heap, request, size) ==
    /\ reached' = heap
    /\ \/ /\ ~Overflows(heap, size)
          /\ \E a \in Fresh : Serve(site, heap, a, request, size)
          /\ CheckPtr(TRUE, size)
       \/ CheckPtr(FALSE, size) /\ UNCHANGED heapBlocks
Allocate(site, heap, size) == AllocateFor(site, heap, size, size)

Mine(heap, a) == heapBlocks[a].heap = heap

\* Free ignores a pointer that the backend does not own: mimalloc is built to,
\* rpmalloc keeps a map of its memory, Voltek and Visper catch the fault.
HeapFreeUnchecked(heap, a) ==
    /\ heapBlocks' = [heapBlocks EXCEPT ![a] = NoHeapBlock]
    /\ reached' = heap
HeapFree(heap, a) ==
    /\ heapBlocks' = IF Mine(heap, a) THEN [heapBlocks EXCEPT ![a] = NoHeapBlock]
                     ELSE heapBlocks
    /\ reached' = heap

\* Reallocate resizes in place or moves, and leaves a foreign block alone.  A heap
\* without padding is asked for nothing where the caller wants nothing, and frees.
Reallocate(site, heap, a, size) ==
  IF size + TailPadding(heap) = 0
  THEN HeapFree(heap, a) /\ UNCHANGED outOfMemory
  ELSE
    /\ reached' = heap
    /\ \/ /\ Mine(heap, a) /\ ~Overflows(heap, size)
          /\ CheckPtr(TRUE, size)
          /\ \/ Serve(site, heap, a, size, size)
             \/ \E b \in Fresh, block \in HeapBlocks(site, heap, size, size) :
                   heapBlocks' = [heapBlocks EXCEPT ![a] = NoHeapBlock, ![b] = block]
       \/ CheckPtr(FALSE, size) /\ UNCHANGED heapBlocks
-----------------------------------------------------------------------------
(* The hooks.                                                              *)

Running == modulesLeft = {} /\ ~outOfMemory
Holds(site) == {a \in Addresses : heapBlocks[a].site = site}

\* Before the hooks the game allocates from its own heaps already.
AllocateEarly(site, size) ==
    /\ modulesLeft = AllocatorModules
    /\ \E a \in Fresh : Serve(site, "stock", a, size, size)
    /\ reached' = "stock"
    /\ UNCHANGED <<routingVars, outOfMemory>>

\* The memory manager and Scaleform answer a request for nothing with null.
Malloc(site, size) ==
    /\ Running
    /\ IF size = 0 /\ site \in {"memory_manager", "scaleform"} /\ hooked[site] # "stock"
       THEN UNCHANGED <<heapBlocks, outOfMemory>> /\ reached' = hooked[site]
       ELSE Allocate(site, hooked[site], size)
    /\ UNCHANGED routingVars

\* A product that overflows is refused; the game's own calloc does the same.
Calloc(count, size) ==
    /\ Running
    /\ IF count > 0 /\ size > SizeMax \div count
       THEN UNCHANGED <<heapBlocks, outOfMemory>> /\ reached' = hooked["crt"]
       ELSE AllocateFor("crt", hooked["crt"], count * size, (count * size) % (SizeMax + 1))
    /\ UNCHANGED routingVars

Dealloc(site, a) ==
    /\ Running /\ a \in Holds(site)
    /\ HeapFree(hooked[site], a)
    /\ UNCHANGED <<routingVars, outOfMemory>>

\* Resizing to nothing frees in the memory manager.
Realloc(site, a, size) ==
    /\ Running /\ a \in Holds(site)
    /\ IF size = 0 /\ site = "memory_manager"
       THEN HeapFree(hooked[site], a) /\ UNCHANGED outOfMemory
       ELSE Reallocate(site, hooked[site], a, size)
    /\ UNCHANGED routingVars

\* Havok's buffers are copied and the old one freed, served or not.
BufRealloc(a, size) ==
    LET heap == hooked["havok"]
        rest == IF Mine(heap, a) THEN [heapBlocks EXCEPT ![a] = NoHeapBlock] ELSE heapBlocks
    IN
    /\ Running /\ a \in Holds("havok") /\ heap # "stock"
    /\ reached' = heap
    /\ \/ /\ ~Overflows(heap, size)
          /\ CheckPtr(TRUE, size)
          /\ \E b \in Fresh, block \in HeapBlocks("havok", heap, size, size) :
                heapBlocks' = [rest EXCEPT ![b] = block]
       \/ CheckPtr(FALSE, size) /\ heapBlocks' = rest
    /\ UNCHANGED routingVars
-----------------------------------------------------------------------------
HeapNext ==
    \/ \E name \in HeapKinds \cup {"unknown"} : InstallMemoryManager(name)
    \/ ManagerSkipped
    \/ InstallScaleform
    \/ \E selected \in BOOLEAN : InstallSmallBlock(selected)
    \/ \E s \in Sites, size \in 0 .. SizeMax :
          \/ AllocateEarly(s, size)
          \/ Malloc(s, size)
          \/ \E a \in Addresses : Realloc(s, a, size)
    \/ \E count, size \in 0 .. SizeMax : Calloc(count, size)
    \/ \E s \in Sites, a \in Addresses : Dealloc(s, a)
    \/ \E a \in Addresses, size \in 0 .. SizeMax : BufRealloc(a, size)

HeapSpec == HeapInit /\ [][HeapNext]_heapVars
-----------------------------------------------------------------------------
\* A block ends only through the heap it came from: the blocks the game got
\* before the hooks went in, and those of a site that goes to another heap,
\* are ignored by the heap that is asked to free or resize them
\* (AdHeapBackend.h: "must ignore unowned pointers").
BlocksGoHome ==
    [][\A a \in Addresses :
          heapBlocks[a].heap \notin {"none", reached'} => heapBlocks'[a] = heapBlocks[a]]_heapVars

\* No call reaches a backend whose Initialize failed, whatever the settings
\* name and whichever of the three modules is switched off.
HooksAreReady == \A s \in Sites : hooked[s] \in {"stock", "visper"} \cup initialized

\* What the hooks and the adapter ask of a heap is enough: a block has room for
\* what the game asked for and for what it reads beyond it, also where the sum
\* or a product comes near SIZE_MAX, as long as the heap gives what it is asked
\* for.  Visper may not, and of its blocks this says nothing.
BlocksHaveRoom ==
    \A a \in Addresses : heapBlocks[a].heap \notin {"none", "visper"} =>
        heapBlocks[a].usable >= heapBlocks[a].requested + TailPadding(heapBlocks[a].heap)

----------------------------------------------------------------------------
(***************************************************************************)
(* Timing the calls of one thread to the heaps (AdProfiledHeap.h): which   *)
(* calls are timed, since the game's allocators call each other, and under *)
(* which of some thousand descriptors, whose index is computed while their *)
(* names come from four nested loops.                                      *)
(***************************************************************************)

CONSTANTS
    ProfileSites,   \* HeapProfileDetail::kSites, in order
    SizeBounds,     \* kSizeBounds: the largest size of each class but the last
    MaxDepth        \* bound: calls inside calls

ASSUME ProfileAssumption ==
    /\ ProfileSites \in Seq(STRING)
    /\ SizeBounds \in Seq(Nat) /\ SizeBounds # <<>>

Ops == <<"malloc", "aligned_malloc", "realloc", "aligned_realloc",
         "free", "aligned_free", "msize", "aligned_msize">>
Allocates == {"malloc", "aligned_malloc", "realloc", "aligned_realloc"}
Results == <<"requested", "succeeded", "failed", "in_place", "moved">>
ProfileThreads == <<"render", "other">>

\* kOperations
SizeClasses(op) == IF op \in Allocates THEN Len(SizeBounds) + 1 ELSE 1
ResultsOf(op) == IF op \in {"realloc", "aligned_realloc"} THEN 5
                 ELSE IF op \in Allocates THEN 3 ELSE 1

\* kNames: what each descriptor is called.
NamesOf(site, thread, op) ==
    [i \in 1 .. SizeClasses(op) * ResultsOf(op) |->
        [site |-> site, thread |-> thread, op |-> op,
         size |-> (i - 1) \div ResultsOf(op),
         result |-> Results[((i - 1) % ResultsOf(op)) + 1]]]
Concat(f(_), s) == FlattenSeq([i \in DOMAIN s |-> f(s[i])])
kNames ==
    LET OfThread(site, thread) == LET N(op) == NamesOf(site, thread, op) IN Concat(N, Ops)
        OfSite(site) == LET N(thread) == OfThread(site, thread) IN Concat(N, ProfileThreads)
    IN  Concat(OfSite, ProfileSites)

IndexIn(s, x) == CHOOSE i \in DOMAIN s : s[i] = x
SizeClass(size) ==
    IF \E i \in DOMAIN SizeBounds : size <= SizeBounds[i]
    THEN (CHOOSE i \in DOMAIN SizeBounds :
            size <= SizeBounds[i] /\ \A j \in 1 .. i - 1 : size > SizeBounds[j]) - 1
    ELSE Len(SizeBounds)

\* HeapProfileDescriptor, from zero.
DescriptorsBefore[n \in 0 .. Len(Ops)] ==
    IF n = 0 THEN 0 ELSE DescriptorsBefore[n - 1] + SizeClasses(Ops[n]) * ResultsOf(Ops[n])
DescriptorsPerThread == DescriptorsBefore[Len(Ops)]
HeapProfileDescriptorUnsized(site, thread, op, size) ==     \* every operation sized
    (IndexIn(ProfileSites, site) - 1) * 2 * DescriptorsPerThread
        + (IndexIn(ProfileThreads, thread) - 1) * DescriptorsPerThread
        + DescriptorsBefore[IndexIn(Ops, op) - 1]
        + SizeClass(size) * ResultsOf(op)
HeapProfileDescriptor(site, thread, op, size) ==
    (IndexIn(ProfileSites, site) - 1) * 2 * DescriptorsPerThread
        + (IndexIn(ProfileThreads, thread) - 1) * DescriptorsPerThread
        + DescriptorsBefore[IndexIn(Ops, op) - 1]
        + (IF SizeClasses(op) > 1 THEN SizeClass(size) * ResultsOf(op) ELSE 0)
-----------------------------------------------------------------------------
VARIABLES
    calls,              \* the calls the thread is in, the innermost last
    inProfiledCall,     \* t_inProfiledCall
    timed               \* history: the call that has just ended, and its descriptor

profileVars == <<calls, inProfiledCall, timed>>

ProfileStart == calls = <<>> /\ inProfiledCall = FALSE /\ timed = <<>>

\* OutermostCall, and Begin if it is.  The render thread is known from its
\* first frame on.
EnterCall(site, op, size) ==
    /\ Len(calls) < MaxDepth
    /\ \E thread \in ToSet(ProfileThreads) :
          calls' = Append(calls, [site |-> site, op |-> op, size |-> size,
                                  thread |-> thread, outermost |-> ~inProfiledCall])
    /\ inProfiledCall' = TRUE
    /\ timed' = <<>>

\* What the call did, by what came back: "null", "same", the block given, or
\* "other".
Classification(op, size, back) ==
    CASE op \notin Allocates -> "requested"
      [] op \in Allocates /\ back = "null" /\ size > 0 -> "failed"
      [] back # "null" /\ ResultsOf(op) = 5 -> IF back = "same" THEN "in_place" ELSE "moved"
      [] OTHER -> "succeeded"

\* ~OutermostCall puts the flag back to what it found.
FlagAfterClears(call) == FALSE
FlagAfter(call) == ~call.outermost

LeaveCall(back) ==
    /\ calls # <<>>
    /\ LET call == Last(calls)
           result == Classification(call.op, call.size, back)
       IN
       /\ back = "same" => ResultsOf(call.op) = 5
       /\ inProfiledCall' = FlagAfter(call)
       /\ IF call.outermost
          THEN timed' = <<[call |-> call, back |-> back,
                  descriptor |-> HeapProfileDescriptor(call.site, call.thread, call.op, call.size)
                      + IndexIn(Results, result) - 1]>>
          ELSE UNCHANGED timed
    /\ calls' = Front(calls)

ProfileNext ==
    \/ \E site \in ToSet(ProfileSites), op \in ToSet(Ops) :
          \E size \in 0 .. SizeBounds[Len(SizeBounds)] + 1 : EnterCall(site, op, size)
    \/ \E back \in {"null", "same", "other"} : LeaveCall(back)

ProfileSpec == ProfileStart /\ [][ProfileNext]_profileVars
-----------------------------------------------------------------------------
\* A call is timed if and only if no other encloses it, and its descriptor's
\* name says where it was, on which thread, what, how large, and how it ended.
CallsAreNamed ==
    /\ \A i \in DOMAIN calls : calls[i].outermost <=> i = 1
    /\ \A i \in DOMAIN timed :
          LET name == kNames[timed[i].descriptor + 1]
              call == timed[i].call
          IN  /\ <<name.site, name.thread, name.op>> = <<call.site, call.thread, call.op>>
              /\ name.size = IF call.op \in Allocates THEN SizeClass(call.size) ELSE 0
              /\ name.result = Classification(call.op, call.size, timed[i].back)

----------------------------------------------------------------------------
(***************************************************************************)
(* The map of rpmalloc's memory (AdRpmallocHeap.cpp): one bit for every    *)
(* granule of the address space, set for the granules that lie wholly in a *)
(* mapping of rpmalloc.  Free, Size and Reallocate ask it whether a block  *)
(* is rpmalloc's, while other threads map and unmap memory.                *)
(***************************************************************************)

CONSTANTS
    GranuleSize,    \* kGranuleSize, in units the system allocates in
    Space,          \* units of the address space
    MaxRegions      \* bound: regions reserved at a time

ASSUME GranuleAssumption == GranuleSize \in Nat \ {0} /\ Space \in Nat

Units == 0 .. Space - 1

VARIABLES
    virtualAlloc2,  \* the system can align a reservation itself
    regions,        \* what is reserved
    ownedGranules   \* s_ownedGranules: the granules whose bit is set

granuleVars == <<virtualAlloc2, regions, ownedGranules>>

\* A region ends before "to"; its blocks begin at "block", as many units of
\* them as rpmalloc hands out.
Regions == [from : Units, to : 1 .. Space, block : Units, blocks : 0 .. Space,
            state : {"foreign", "reserved", "mapped", "unmapping"}]

GranuleTypeOK ==
    /\ virtualAlloc2 \in BOOLEAN
    /\ regions \subseteq Regions
    /\ ownedGranules \subseteq 0 .. Space \div GranuleSize

GranuleStart(aligns) == virtualAlloc2 = aligns /\ regions = {} /\ ownedGranules = {}
GranuleInit == \E aligns \in BOOLEAN : GranuleStart(aligns)

RoundUp(value, alignment) == ((value + alignment - 1) \div alignment) * alignment

\* The granules MarkGranules goes through.
GranulesTouched(from, to) ==     \* not only the whole ones
    (from \div GranuleSize) .. ((to - 1) \div GranuleSize)
WholeGranules(from, to) ==
    {g \in 0 .. Space \div GranuleSize :
        g * GranuleSize >= RoundUp(from, GranuleSize) /\ (g + 1) * GranuleSize <= to}

Owns(unit) == unit \div GranuleSize \in ownedGranules

Unreserved(from, to) ==
    /\ to <= Space
    /\ \A r \in regions : to <= r.from \/ r.to <= from
Reserve(from, to, block, blocks, state) ==
    /\ Unreserved(from, to) /\ Cardinality(regions) < MaxRegions
    /\ regions' = regions \cup
          {[from |-> from, to |-> to, block |-> block, blocks |-> blocks, state |-> state]}

\* Spans and huge blocks are mapped with a granule's alignment and for whole
\* granules; rpmalloc's own structures without alignment.
MapReserve(from, request, alignment) ==
    LET size == IF alignment >= GranuleSize THEN RoundUp(request, GranuleSize) ELSE request IN
    /\ IF alignment > 0 /\ virtualAlloc2
       THEN from % alignment = 0 /\ Reserve(from, from + size, from, size, "reserved")
       ELSE Reserve(from, from + size + alignment,
                    RoundUp(from, IF alignment > 0 THEN alignment ELSE 1),
                    IF alignment > 0 THEN size ELSE 0, "reserved")
    /\ UNCHANGED <<virtualAlloc2, ownedGranules>>
Moves(r, state) == regions' = (regions \ {r}) \cup {[r EXCEPT !.state = state]}

\* The granules are marked before Map returns the block.
MapMark(r) ==
    /\ r.state = "reserved"
    /\ ownedGranules' = ownedGranules \cup WholeGranules(r.from, r.to)
    /\ Moves(r, "mapped")
    /\ UNCHANGED virtualAlloc2

\* They are unmarked before the region is given back.
UnmapMark(r) ==
    /\ r.state = "mapped"
    /\ ownedGranules' = ownedGranules \ WholeGranules(r.from, r.to)
    /\ Moves(r, "unmapping")
    /\ UNCHANGED virtualAlloc2
UnmapRelease(r) ==
    /\ r.state \in {"unmapping", "foreign"}
    /\ regions' = regions \ {r}
    /\ UNCHANGED <<virtualAlloc2, ownedGranules>>

\* Anybody else's memory, anywhere.
ForeignReserve(from, to) ==
    /\ Reserve(from, to, from, 0, "foreign")
    /\ UNCHANGED <<virtualAlloc2, ownedGranules>>

GranuleNext ==
    \/ \E from \in Units, request \in 1 .. GranuleSize + 1, alignment \in {0, GranuleSize} :
          MapReserve(from, request, alignment)
    \/ \E r \in regions : MapMark(r) \/ UnmapMark(r) \/ UnmapRelease(r)
    \/ \E from \in Units, to \in 1 .. Space : from < to /\ ForeignReserve(from, to)

GranuleSpec == GranuleInit /\ [][GranuleNext]_granuleVars
-----------------------------------------------------------------------------
\* rpmalloc owns every block that it has handed out, and no address of anybody
\* else's memory, also where one maps what another has just given back.
OnlyRpmallocBlocksOwned ==
    \A r \in regions :
        /\ r.state = "mapped" =>
              \A unit \in r.block .. r.block + r.blocks - 1 : Owns(unit)
        /\ r.state = "foreign" => \A unit \in r.from .. r.to - 1 : ~Owns(unit)

\* The calls of the game reach a heap that is ready and a block ends in the heap
\* it came from; rpmalloc takes for its own only what it mapped.
BlocksComeHome == []HooksAreReady /\ BlocksGoHome /\ []OnlyRpmallocBlocksOwned
=============================================================================
