------------------------------- MODULE MCMemory -------------------------------
(***************************************************************************)
(* The allocators, checked one beside the other: a behaviour is one of the *)
(* Visper heaps, of the routing of calls to a heap, of rpmalloc's map, of  *)
(* the calls of a profiled thread, or of Voltek's pools, slots or calls,   *)
(* chosen in its first state.  Visper has two heaps, so that a heap's page *)
(* index can name the other heap, and a third page, whose index names      *)
(* none; routing has two addresses.  Voltek has two pages of two blocks,   *)
(* a cache that is flushed in part, and slots of two classes of which the  *)
(* shared budget can keep one of each but not two large ones.              *)
(***************************************************************************)
EXTENDS VisperMemory, HeapRouting

CONSTANTS Allocators, a1, a2

MCBlockSizes == <<2, 4>>
MCAddresses == {a1, a2}
MCProfileSites == <<"crt", "scrap">>
MCSizeBounds == <<1, 2>>
MCSlotPages == <<2, 4>>
MCClassLimits == {2, 4}

VARIABLE allocator      \* the part this behaviour is one of

MCInit ==
    /\ allocator \in Allocators
    /\ Init
    /\ HeapInit /\ (allocator # "routing" => initialized = {})
    /\ GranuleInit /\ (allocator # "granules" => virtualAlloc2)
    /\ ProfileStart
    /\ PoolStart /\ (allocator # "pools" => counting)
    /\ SlotStart
    /\ VoltekStart

allVars == <<allocator, vars, heapVars, granuleVars, profileVars, poolVars, slotVars, voltekVars>>
Others(chosen) ==
    /\ allocator = chosen
    /\ UNCHANGED allocator
    /\ IF chosen = "visper" THEN TRUE ELSE UNCHANGED vars
    /\ IF chosen = "routing" THEN TRUE ELSE UNCHANGED heapVars
    /\ IF chosen = "granules" THEN TRUE ELSE UNCHANGED granuleVars
    /\ IF chosen = "profile" THEN TRUE ELSE UNCHANGED profileVars
    /\ IF chosen = "pools" THEN TRUE ELSE UNCHANGED poolVars
    /\ IF chosen = "slots" THEN TRUE ELSE UNCHANGED slotVars
    /\ IF chosen = "blocks" THEN TRUE ELSE UNCHANGED voltekVars

\* A dereferenced null pointer or a refused request ends the game, and threads
\* that have all ended leave the pools alone.
GameOver == (faulted \/ outOfMemory \/ exited = PoolThreads) /\ UNCHANGED allVars

MCNext ==
    \/ Others("visper") /\ Next
    \/ Others("routing") /\ HeapNext
    \/ Others("granules") /\ GranuleNext
    \/ Others("profile") /\ ProfileNext
    \/ Others("pools") /\ PoolNext
    \/ Others("slots") /\ SlotNext
    \/ Others("blocks") /\ VoltekNext
    \/ GameOver

MCSpec == MCInit /\ [][MCNext]_allVars

\* The state of every allocator is well-typed.
MemoryTypeOK == TypeOK /\ HeapTypeOK /\ GranuleTypeOK

\* No block has two users, whatever is freed twice, freed into the wrong heap or
\* written to after it was freed: neither in Visper's stacks nor among Voltek's
\* threads and their caches.
NoBlockHasTwoUsers == NoBlockTwice /\ BlocksHaveOneUser

\* A block has the room its user asked for, where the code sees to it.  The hooks
\* and the adapter ask the heap they reach for enough, and that heap keeps its
\* contract, unless it is Visper.  Voltek's resizes, in place or by a move, lose
\* no byte that was written and fits.  And a block of Visper's is short only if
\* its header names a larger heap, by no more than that heap's size.
BlocksKeepTheirRoom == BlocksHaveRoom /\ ResizesLoseNothing /\ RoomFollowsHeader

\* What the allocators believe of their memory is so: Visper's stacks fit their
\* pages, Voltek's pages and indices are counted as they are, and so are its
\* slots with what the shared budget was charged for them.
PoolsAreWhole == MemoryTypeOK /\ PoolIsWhole /\ SlotsAreWhole

Symmetry == Permutations(MCAddresses)
=============================================================================
