----------------------------- MODULE VisperMemory -----------------------------
(***************************************************************************)
(* Visper::TMemoryManager (Memory/AdVisperMemoryAllocator): heaps of fixed  *)
(* block sizes, each a growing list of pages, each page a stack of free     *)
(* blocks.  Every call locks one heap for each change it makes, and a block *)
(* in use is touched by its user only, so a call is one step; the block a   *)
(* growing Realloc allocates and the one it frees are separate changes, but *)
(* no other call can tell.  Sizes are in units of the smallest request.     *)
(*                                                                         *)
(* A block's header is written once, when its page is created, and is how   *)
(* Free and Realloc find the heap and the page again.                       *)
(***************************************************************************)
EXTENDS Integers, SequencesExt, FiniteSetsExt, Functions

CONSTANTS
  BlockSizes,    \* g_mmVisperBlockSizes, of the heaps that are created
  BlocksPerPage, \* Heap::size
  MaxPages,      \* the limit of pages of a heap, 127
  MaxSize        \* bound: largest size requested

Heaps == 0 .. Len(BlockSizes) - 1
Sizes == 0 .. MaxSize

ASSUME SizesAssumption ==
  /\ BlockSizes \in Seq(Nat)
  /\ BlocksPerPage \in Nat \ {0} /\ MaxPages \in Nat \ {0} /\ MaxSize \in Nat
  /\ \A i, j \in 1 .. Len(BlockSizes) : i < j => BlockSizes[i] < BlockSizes[j]

VARIABLES
  stacks,   \* of every heap, the free blocks of every page, topmost last
  held,     \* of every block in use, the size that was requested
  faulted   \* a heap that does not exist has been dereferenced

vars == <<stacks, held, faulted>>

BlockSize(h) == BlockSizes[h + 1]
Block(h, p, i) == [heap |-> h, page |-> p, index |-> i]
Blocks == [heap : Heaps, page : 0 .. MaxPages - 1, index : 1 .. BlocksPerPage]
NoBlock == Block(-1, -1, -1)

NewPage(h, p) == [i \in 1 .. BlocksPerPage |-> Block(h, p, i)]

(* GetHeapIdByBlockSize; NoHeap also where no heap of that size is created.  *)
NoHeap == Len(BlockSizes)
HeapFor(size) == Min({h \in Heaps : size <= BlockSize(h)} \cup {NoHeap})

(* CreateBlock: the heap field (four bits) gets Page::GetHeapId(), which is  *)
(* the page's index, and the page field Page::GetId(), which is the heap's.  *)
Header(b) == [heap |-> b.page % 16, page |-> b.heap % 16]

Init ==
  /\ stacks = [h \in Heaps |-> <<NewPage(h, 0)>>]
  /\ held = <<>>
  /\ faulted = FALSE

-----------------------------------------------------------------------------
(* Heap::Alloc.                                                              *)

RoomyPages(h, st) == {p \in DOMAIN st[h] : st[h][p] # <<>>}

Popped(h, p, st) ==
  [block |-> Last(st[h][p]), stacks |-> [st EXCEPT ![h][p] = Front(@)]]

Grown(h, st) == [st EXCEPT ![h] = Append(@, NewPage(h, Len(@)))]

(* The outcomes of an allocation: a block of the first page that has one; if *)
(* none has, one of a new page, or none when the limit is reached or the     *)
(* system refuses the memory.                                                *)
Allocations(size) ==
  LET h == HeapFor(size)
      none == [block |-> NoBlock, stacks |-> stacks]
  IN  IF h = NoHeap THEN {none}
      ELSE IF RoomyPages(h, stacks) # {}
        THEN {Popped(h, Min(RoomyPages(h, stacks)), stacks)}
      ELSE IF Len(stacks[h]) < MaxPages
        THEN {none, Popped(h, Len(stacks[h]) + 1, Grown(h, stacks))}
      ELSE {none}

\* "users" with "b" among them.
With(b, size, users) == [c \in DOMAIN users \cup {b} |-> IF c = b THEN size ELSE users[c]]

Alloc(size) ==
  /\ ~faulted /\ size > 0
  /\ \E a \in Allocations(size) :
       /\ stacks' = a.stacks
       /\ held' = IF a.block = NoBlock THEN held ELSE With(a.block, size, held)
  /\ UNCHANGED faulted

-----------------------------------------------------------------------------
(* TMemoryManager::Free, Heap::Free and Page::Free: the stack of the page    *)
(* that the header names gets the block; without such a page, or with its    *)
(* stack full, the block is lost.                                            *)

(* Mutant: a full stack is pushed on.                                        *)
FreedUnbounded(b, st) ==
  LET id == Header(b)
  IN  IF id.heap \in Heaps /\ id.page < Len(st[id.heap])
        THEN [st EXCEPT ![id.heap][id.page + 1] = Append(@, b)]
        ELSE st

Freed(b, st) ==
  LET id == Header(b)
  IN  IF /\ id.heap \in Heaps /\ id.page < Len(st[id.heap])
         /\ Len(st[id.heap][id.page + 1]) < BlocksPerPage
        THEN [st EXCEPT ![id.heap][id.page + 1] = Append(@, b)]
        ELSE st

Without(b) == Restrict(held, DOMAIN held \ {b})

Free(b) ==
  /\ ~faulted
  /\ stacks' = Freed(b, stacks)
  /\ held' = Without(b)
  /\ UNCHANGED faulted

-----------------------------------------------------------------------------
(* TMemoryManager::Realloc of a block in use, by what it finds; the size it  *)
(* already has changes nothing.                                              *)

ReallocHeap(b) == Header(b).heap

ReallocFault(b, size) ==
  /\ ~faulted /\ size # held[b] /\ ReallocHeap(b) \notin Heaps
  /\ faulted' = TRUE
  /\ UNCHANGED <<stacks, held>>

Reallocates(b, size) == ~faulted /\ size # held[b] /\ ReallocHeap(b) \in Heaps

ReallocToNothing(b) ==
  /\ Reallocates(b, 0)
  /\ Free(b)

Fits(b, size) == size < BlockSize(ReallocHeap(b)) /\ HeapFor(size) = ReallocHeap(b)

ReallocInPlace(b, size) ==
  /\ Reallocates(b, size) /\ size > 0 /\ Fits(b, size)
  /\ held' = [held EXCEPT ![b] = size]
  /\ UNCHANGED <<stacks, faulted>>

(* Mutant: the old block is freed and still returned.                        *)
ReallocMoveKeeping(b, size) ==
  /\ Reallocates(b, size) /\ size > 0 /\ ~Fits(b, size)
  /\ \E a \in Allocations(size) :
       IF a.block = NoBlock
         THEN stacks' = a.stacks /\ UNCHANGED held
         ELSE stacks' = Freed(b, a.stacks) /\ held' = With(a.block, size, held)
  /\ UNCHANGED faulted

ReallocMove(b, size) ==
  /\ Reallocates(b, size) /\ size > 0 /\ ~Fits(b, size)
  /\ \E a \in Allocations(size) :
       IF a.block = NoBlock
         THEN stacks' = a.stacks /\ UNCHANGED held
         ELSE stacks' = Freed(b, a.stacks) /\ held' = With(a.block, size, Without(b))
  /\ UNCHANGED faulted

Next ==
  \/ \E size \in Sizes : Alloc(size)
  \/ \E b \in DOMAIN held :
       \/ Free(b)
       \/ ReallocToNothing(b)
       \/ \E size \in Sizes :
            ReallocFault(b, size) \/ ReallocInPlace(b, size) \/ ReallocMove(b, size)

Spec == Init /\ [][Next]_vars

-----------------------------------------------------------------------------
(* Types; no stack holds more blocks than the vector of its page has room    *)
(* for, even when blocks of other pages are freed into it.                   *)
TypeOK ==
  /\ DOMAIN held \subseteq Blocks /\ \A b \in DOMAIN held : held[b] \in 1 .. MaxSize
  /\ \A h \in Heaps : Len(stacks[h]) \in 1 .. MaxPages
  /\ \A h \in Heaps : \A p \in DOMAIN stacks[h] :
       /\ ToSet(stacks[h][p]) \subseteq Blocks
       /\ Len(stacks[h][p]) <= BlocksPerPage
  /\ faulted \in BOOLEAN

(* No block is given to two users: a block in use is on no stack, and a free *)
(* one is on one stack, once.                                                *)
Places(b) ==
  {at \in Heaps \X (1 .. MaxPages) \X (1 .. BlocksPerPage) :
     /\ at[2] \in DOMAIN stacks[at[1]] /\ at[3] \in DOMAIN stacks[at[1]][at[2]]
     /\ stacks[at[1]][at[2]][at[3]] = b}

NoBlockTwice ==
  \A b \in Blocks : Cardinality(Places(b)) <= IF b \in DOMAIN held THEN 0 ELSE 1

(* What the header's comment says, "Index of the heap to which the block     *)
(* belongs": a freed block returns to a stack of its own heap.  It does not: *)
(* CreateBlock stores the page's index as the heap and the heap's as the     *)
(* page.                                                                     *)
FreeBlocksAtHome ==
  \A h \in Heaps : \A p \in DOMAIN stacks[h] :
    \A b \in ToSet(stacks[h][p]) : b.heap = h

(* What a block that strays can cost its next user: it was requested with a  *)
(* size of its own heap, or it came from the stack of the larger heap that   *)
(* its header names, and then of a size of that heap.  So only a block whose *)
(* page's index is that of a larger heap may be too short for its user.      *)
RoomFollowsHeader ==
  \A b \in DOMAIN held :
    \/ held[b] <= BlockSize(b.heap)
    \/ Header(b).heap \in Heaps /\ Header(b).heap > b.heap /\ held[b] <= BlockSize(Header(b).heap)
=============================================================================
