----------------------------- MODULE MemoryProofs -----------------------------
(***************************************************************************)
(* Proofs about the allocators: the routing of the game's calls to a heap, *)
(* rpmalloc's map of its memory, the names of the profiled calls, the      *)
(* calls of Voltek as one caller sees them, Visper's heaps and Voltek's    *)
(* pools and large slots.  Calls and addresses are told to every block's   *)
(* own heap, a timed call is told to its own descriptor, what a block is   *)
(* given room for it keeps room for, no block ever has two users, and      *)
(* pools and slots are what the allocators believe they are.               *)
(***************************************************************************)
EXTENDS MCMemory, FiniteSetTheorems, WellFoundedInduction, TLAPS

-----------------------------------------------------------------------------
(* The routing of calls.  A block that is there has room for what was asked  *)
(* for, unless it is of Visper's, which may be of any size: what the map of  *)
(* the blocks holds says so for every address.                               *)

RoomyBlocks ==
    {b \in [heap : BlockHeaps, site : Sites, requested : 0..SizeMax, usable : 0..SizeMax] :
        b.heap # "visper" => b.usable >= b.requested + TailPadding(b.heap)}
BlockMaps == [Addresses -> {NoHeapBlock} \cup RoomyBlocks]

HeapInv ==
    /\ initialized \subseteq Backends /\ selectedHeapKind \in HeapKinds
    /\ modulesLeft \subseteq AllocatorModules
    /\ hooked \in [Sites -> BlockHeaps] /\ HooksAreReady
    /\ heapBlocks \in BlockMaps /\ outOfMemory \in BOOLEAN /\ reached \in BlockHeaps

(* What a call may do to the blocks: those of the heap it reaches change,    *)
(* and addresses where there is none.                                        *)
CallChanges ==
    /\ heapBlocks' \in BlockMaps /\ outOfMemory' \in BOOLEAN /\ reached' \in BlockHeaps
    /\ \A a \in Addresses :
          heapBlocks[a].heap \notin {"none", reached'} => heapBlocks'[a] = heapBlocks[a]

(* A padding is zero or one.                                                 *)
LEMMA PaddingIsSmall == \A heap : TailPadding(heap) \in {0, 1}
  BY DEF TailPadding

(* A block that is made for a size that does not overflow has room for it.   *)
LEMMA MadeWithRoom ==
    ASSUME NEW site \in Sites, NEW heap \in BlockHeaps, NEW size \in 0..SizeMax,
           ~Overflows(heap, size), NEW block \in HeapBlocks(site, heap, size, size)
    PROVE  block \in RoomyBlocks
  BY RoutingAssumption, PaddingIsSmall DEF Overflows, HeapBlocks, RoomyBlocks

(* A product that is not refused is what it is.                              *)
LEMMA ProductFits ==
    ASSUME NEW count \in 0..SizeMax, NEW size \in 0..SizeMax,
           ~(count > 0 /\ size > SizeMax \div count)
    PROVE  count * size \in 0..SizeMax /\ (count * size) % (SizeMax + 1) = count * size
<1>1. count * size \in 0..SizeMax
  BY RoutingAssumption
<1>2. \A x \in 0..SizeMax : x % (SizeMax + 1) = x
  BY RoutingAssumption
<1> QED
  BY <1>1, <1>2

(* CheckPtr may end the game, and nothing else.                              *)
LEMMA CheckedIsBoolean ==
    ASSUME outOfMemory \in BOOLEAN, NEW served, NEW size, CheckPtr(served, size)
    PROVE  outOfMemory' \in BOOLEAN
  BY DEF CheckPtr

(* An allocation fills an address where there is no block.                   *)
LEMMA AllocationChanges ==
    ASSUME heapBlocks \in BlockMaps, outOfMemory \in BOOLEAN,
           NEW site \in Sites, NEW heap \in BlockHeaps, NEW size \in 0..SizeMax,
           AllocateFor(site, heap, size, size)
    PROVE  CallChanges
<1>1. reached' = heap /\ outOfMemory' \in BOOLEAN
  BY CheckedIsBoolean DEF AllocateFor
<1>2. CASE UNCHANGED heapBlocks
  BY <1>1, <1>2 DEF CallChanges
<1>3. CASE ~Overflows(heap, size) /\ \E a \in Fresh : Serve(site, heap, a, size, size)
  <2>1. PICK a \in Fresh, block \in HeapBlocks(site, heap, size, size) :
            heapBlocks' = [heapBlocks EXCEPT ![a] = block]
    BY <1>3 DEF Serve
  <2>2. block \in RoomyBlocks
    BY <1>3, MadeWithRoom
  <2>3. a \in Addresses /\ heapBlocks[a].heap = "none"
    BY DEF Fresh, NoHeapBlock
  <2> QED
    BY <1>1, <2>1, <2>2, <2>3 DEF CallChanges, BlockMaps
<1> QED
  BY <1>2, <1>3 DEF AllocateFor

(* A free empties the address of a block of the heap it reaches.             *)
LEMMA FreeChanges ==
    ASSUME heapBlocks \in BlockMaps, outOfMemory \in BOOLEAN, UNCHANGED outOfMemory,
           NEW heap \in BlockHeaps, NEW a \in Addresses, HeapFree(heap, a)
    PROVE  CallChanges
  BY DEF HeapFree, Mine, CallChanges, BlockMaps

(* A resize does both, or makes the block anew where it is.                  *)
LEMMA ResizeChanges ==
    ASSUME heapBlocks \in BlockMaps, outOfMemory \in BOOLEAN,
           NEW site \in Sites, NEW heap \in BlockHeaps, NEW a \in Addresses,
           NEW size \in 0..SizeMax, Reallocate(site, heap, a, size)
    PROVE  CallChanges
<1>0. CASE HeapFree(heap, a) /\ UNCHANGED outOfMemory
  BY <1>0, FreeChanges
<1>1. reached' = heap /\ outOfMemory' \in BOOLEAN
  BY CheckedIsBoolean DEF Reallocate, HeapFree
<1>2. CASE UNCHANGED heapBlocks
  BY <1>1, <1>2 DEF CallChanges
<1>3. CASE Mine(heap, a) /\ ~Overflows(heap, size) /\ Serve(site, heap, a, size, size)
  BY <1>1, <1>3, MadeWithRoom DEF Serve, Mine, CallChanges, BlockMaps
<1>4. ASSUME Mine(heap, a), ~Overflows(heap, size), NEW b \in Fresh,
             NEW block \in HeapBlocks(site, heap, size, size),
             heapBlocks' = [heapBlocks EXCEPT ![a] = NoHeapBlock, ![b] = block]
      PROVE  CallChanges
  BY <1>1, <1>4, MadeWithRoom DEF Fresh, NoHeapBlock, Mine, CallChanges, BlockMaps
<1> QED
  BY <1>0, <1>2, <1>3, <1>4 DEF Reallocate

(* So does a buffer of Havok's, whose old block is freed also when the new   *)
(* one was not served.                                                       *)
LEMMA BufferChanges ==
    ASSUME HeapInv, NEW a \in Addresses, NEW size \in 0..SizeMax, BufRealloc(a, size)
    PROVE  CallChanges
<1> DEFINE heap == hooked["havok"]
           rest == IF Mine(heap, a) THEN [heapBlocks EXCEPT ![a] = NoHeapBlock]
                   ELSE heapBlocks
<1>1. reached' = heap /\ outOfMemory' \in BOOLEAN /\ heap \in BlockHeaps
  BY CheckedIsBoolean DEF BufRealloc, HeapInv, Sites
<1>2. /\ rest \in BlockMaps
      /\ \A x \in Addresses : heapBlocks[x].heap \notin {"none", heap} => rest[x] = heapBlocks[x]
  BY DEF Mine, HeapInv, BlockMaps
<1>3. CASE heapBlocks' = rest
  BY <1>1, <1>2, <1>3 DEF CallChanges
<1>4. ASSUME ~Overflows(heap, size), NEW b \in Fresh,
             NEW block \in HeapBlocks("havok", heap, size, size),
             heapBlocks' = [rest EXCEPT ![b] = block]
      PROVE  CallChanges
  <2>1. b \in Addresses /\ heapBlocks[b].heap = "none"
    BY DEF Fresh, NoHeapBlock
  <2>2. block \in RoomyBlocks
    BY <1>1, <1>4, MadeWithRoom DEF Sites
  <2> HIDE DEF rest, heap
  <2> QED
    BY <1>1, <1>2, <1>4, <2>1, <2>2 DEF CallChanges, BlockMaps
<1> QED
  BY <1>3, <1>4 DEF BufRealloc

(* Hooks are laid to heaps that are ready, before the game calls.            *)
LEMMA InstallationsKeep ==
    ASSUME HeapInv,
           \/ \E name \in HeapKinds \cup {"unknown"} : InstallMemoryManager(name)
           \/ ManagerSkipped \/ InstallScaleform
           \/ \E selected \in BOOLEAN : InstallSmallBlock(selected)
    PROVE  HeapInv' /\ UNCHANGED routedVars
<1> USE DEF HeapInv, HooksAreReady, routedVars
<1>1. ASSUME NEW name \in HeapKinds \cup {"unknown"}, InstallMemoryManager(name)
      PROVE  HeapInv' /\ UNCHANGED routedVars
  BY <1>1 DEF InstallMemoryManager, Ready, HooksTo, HeapKinds, Backends, BlockHeaps
<1>2. CASE ManagerSkipped
  BY <1>2 DEF ManagerSkipped
<1>3. CASE InstallScaleform
  BY <1>3 DEF InstallScaleform, Ready, HooksTo, HeapKinds, BlockHeaps
<1>4. ASSUME NEW selected \in BOOLEAN, InstallSmallBlock(selected)
      PROVE  HeapInv' /\ UNCHANGED routedVars
  BY <1>4 DEF InstallSmallBlock, Ready, HooksTo, HeapKinds, BlockHeaps
<1> QED
  BY <1>1, <1>2, <1>3, <1>4

(* A call of the game's changes the blocks only.                             *)
LEMMA CallsChange ==
    ASSUME HeapInv, NEW s \in Sites, NEW size \in 0..SizeMax,
           \/ AllocateEarly(s, size) \/ Malloc(s, size)
           \/ \E a \in Addresses : Realloc(s, a, size) \/ BufRealloc(a, size) \/ Dealloc(s, a)
           \/ \E count \in 0..SizeMax : Calloc(count, size)
    PROVE  CallChanges /\ UNCHANGED routingVars
<1>0. /\ hooked[s] \in BlockHeaps /\ hooked["crt"] \in BlockHeaps /\ "crt" \in Sites
      /\ heapBlocks \in BlockMaps /\ outOfMemory \in BOOLEAN
  BY DEF HeapInv, Sites
<1>1. CASE AllocateEarly(s, size)
  <2>1. PICK a \in Fresh, block \in HeapBlocks(s, "stock", size, size) :
            heapBlocks' = [heapBlocks EXCEPT ![a] = block]
    BY <1>1 DEF AllocateEarly, Serve
  <2>2. block \in RoomyBlocks
    BY MadeWithRoom, RoutingAssumption DEF BlockHeaps, HeapKinds, Overflows, TailPadding
  <2>3. a \in Addresses /\ heapBlocks[a].heap = "none"
    BY DEF Fresh, NoHeapBlock
  <2> QED
    BY <1>0, <1>1, <2>1, <2>2, <2>3
    DEF AllocateEarly, CallChanges, BlockMaps, BlockHeaps, HeapKinds
<1>2. CASE Malloc(s, size)
  BY <1>0, <1>2, AllocationChanges DEF Malloc, Allocate, CallChanges
<1>3. ASSUME NEW a \in Addresses, Realloc(s, a, size) PROVE CallChanges /\ UNCHANGED routingVars
  BY <1>0, <1>3, FreeChanges, ResizeChanges DEF Realloc
<1>4. ASSUME NEW a \in Addresses, BufRealloc(a, size) PROVE CallChanges /\ UNCHANGED routingVars
  BY <1>4, BufferChanges DEF BufRealloc
<1>5. ASSUME NEW a \in Addresses, Dealloc(s, a) PROVE CallChanges /\ UNCHANGED routingVars
  BY <1>0, <1>5, FreeChanges DEF Dealloc
<1>6. ASSUME NEW count \in 0..SizeMax, Calloc(count, size)
      PROVE  CallChanges /\ UNCHANGED routingVars
  BY <1>0, <1>6, ProductFits, AllocationChanges DEF Calloc, CallChanges
<1> QED
  BY <1>1, <1>2, <1>3, <1>4, <1>5, <1>6

(* The invariant holds at first.                                             *)
LEMMA HeapStarts == HeapInit => HeapInv
  BY DEF HeapInit, HeapStart, HeapInv, HooksAreReady, HeapKinds, Backends, BlockHeaps,
      BlockMaps

(* A step keeps the invariant and the blocks of every heap it does not reach. *)
LEMMA HeapStepKeeps ==
    HeapInv /\ [HeapNext]_heapVars =>
        /\ HeapInv'
        /\ \A a \in Addresses :
              heapBlocks[a].heap \notin {"none", reached'} => heapBlocks'[a] = heapBlocks[a]
<1> SUFFICES ASSUME HeapInv, [HeapNext]_heapVars
             PROVE  /\ HeapInv'
                    /\ \A a \in Addresses :
                          heapBlocks[a].heap \notin {"none", reached'}
                              => heapBlocks'[a] = heapBlocks[a]
  OBVIOUS
<1>1. CASE CallChanges /\ UNCHANGED routingVars
  BY <1>1 DEF CallChanges, routingVars, HeapInv, HooksAreReady
<1>2. CASE HeapInv' /\ UNCHANGED routedVars
  BY <1>2 DEF routedVars
<1>3. CASE UNCHANGED heapVars
  BY <1>3 DEF heapVars, routingVars, routedVars, HeapInv, HooksAreReady
<1>4. ASSUME HeapNext
      PROVE  (CallChanges /\ UNCHANGED routingVars) \/ (HeapInv' /\ UNCHANGED routedVars)
  BY RoutingAssumption, <1>4, InstallationsKeep, CallsChange DEF Sites, HeapNext
<1> QED
  BY <1>1, <1>2, <1>3, <1>4

-----------------------------------------------------------------------------
(* rpmalloc's map of its memory: a granule's bit is set exactly while it     *)
(* lies in a mapped region, and regions do not overlap.                      *)

(* A region is somewhere, and the blocks in it are whole granules.           *)
RegionFits(r) ==
    /\ r.from < r.to /\ r.from <= r.block /\ r.block + r.blocks <= r.to
    /\ \/ r.blocks = 0
       \/ \E m, n \in Nat : r.block = m * GranuleSize /\ r.blocks = n * GranuleSize

Apart(r, q) == r.to <= q.from \/ q.to <= r.from

GranuleInv ==
    /\ virtualAlloc2 \in BOOLEAN /\ regions \subseteq Regions
    /\ \A r \in regions : RegionFits(r)
    /\ \A r, q \in regions : r # q => Apart(r, q)
    /\ \A g : g \in ownedGranules <=>
          \E r \in regions : r.state = "mapped" /\ g \in WholeGranules(r.from, r.to)

(* A quotient is between its number's multiples.                             *)
LEMMA Quotient ==
    ASSUME NEW a \in Nat
    PROVE  /\ a \div GranuleSize \in Nat
           /\ (a \div GranuleSize) * GranuleSize <= a
           /\ a < (a \div GranuleSize + 1) * GranuleSize
  BY GranuleAssumption

(* Of two quotients the larger has the larger multiple.                      *)
LEMMA MultiplesOrdered ==
    ASSUME NEW m \in Nat, NEW n \in Nat
    PROVE  /\ m * GranuleSize \in Nat
           /\ m <= n => m * GranuleSize <= n * GranuleSize
           /\ m * GranuleSize < (n + 1) * GranuleSize => m <= n
  BY GranuleAssumption

(* Rounding up gives the least multiple that is not below.                   *)
LEMMA RoundedUp ==
    ASSUME NEW a \in Nat
    PROVE  /\ \E n \in Nat : RoundUp(a, GranuleSize) = n * GranuleSize
           /\ RoundUp(a, GranuleSize) \in Nat
           /\ a <= RoundUp(a, GranuleSize) /\ RoundUp(a, GranuleSize) < a + GranuleSize
           /\ \A g \in Nat : RoundUp(a, GranuleSize) <= g * GranuleSize <=> a <= g * GranuleSize
<1> DEFINE up == a + GranuleSize - 1
           n == up \div GranuleSize
<1>1. up \in Nat /\ GranuleSize \in Nat \ {0}
  BY GranuleAssumption
<1>2. n \in Nat /\ n * GranuleSize <= up /\ up < (n + 1) * GranuleSize
  BY <1>1, Quotient
<1>3. RoundUp(a, GranuleSize) = n * GranuleSize
  BY DEF RoundUp
<1>4. (n + 1) * GranuleSize = n * GranuleSize + GranuleSize /\ n * GranuleSize \in Nat
  BY <1>1, <1>2
<1>5. a <= n * GranuleSize /\ n * GranuleSize < a + GranuleSize
  <2> DEFINE x == n * GranuleSize
  <2>1. x \in Nat /\ x <= a + GranuleSize - 1 /\ a + GranuleSize - 1 < x + GranuleSize
    BY <1>2, <1>4
  <2> HIDE DEF x, n
  <2>2. a <= x /\ x < a + GranuleSize
    BY <1>1, <2>1
  <2> QED
    BY <2>2 DEF x
<1>6. ASSUME NEW g \in Nat PROVE n * GranuleSize <= g * GranuleSize <=> a <= g * GranuleSize
  <2> HIDE DEF n
  <2>1. g * GranuleSize \in Nat /\ (g + 1) * GranuleSize = g * GranuleSize + GranuleSize
    BY <1>1
  <2>2. ASSUME a <= g * GranuleSize PROVE n * GranuleSize <= g * GranuleSize
    BY <1>1, <1>4, <1>5, <2>1, <2>2, <1>2, MultiplesOrdered
  <2> QED
    BY <1>4, <1>5, <2>1, <2>2
<1> QED
  BY <1>2, <1>3, <1>4, <1>5, <1>6

(* The granules that lie wholly in a region.                                 *)
LEMMA WholeAre ==
    ASSUME NEW from \in Nat, NEW to \in Nat, to <= Space, NEW g
    PROVE  g \in WholeGranules(from, to) <=>
               g \in Nat /\ from <= g * GranuleSize /\ (g + 1) * GranuleSize <= to
<1>1. ASSUME g \in Nat, (g + 1) * GranuleSize <= to PROVE g \in 0..Space \div GranuleSize
  BY Quotient, GranuleAssumption, <1>1, MultiplesOrdered
<1>2. g \in 0..Space \div GranuleSize => g \in Nat
  OBVIOUS
<1> QED
  BY <1>1, <1>2, RoundedUp DEF WholeGranules

(* A unit of a region is in none of the granules of a region apart from it.  *)
LEMMA NotInGranules ==
    ASSUME NEW r \in Regions, NEW q \in Regions, Apart(r, q),
           NEW unit \in r.from..r.to - 1
    PROVE  unit \div GranuleSize \notin WholeGranules(q.from, q.to)
<1> DEFINE g == unit \div GranuleSize
<1>1. /\ r.from \in Nat /\ r.to \in Nat /\ r.to <= Space
      /\ q.from \in Nat /\ q.to \in Nat /\ q.to <= Space /\ unit \in Nat
  BY GranuleAssumption DEF Regions, Units
<1>2. g \in Nat /\ g * GranuleSize <= unit /\ unit < (g + 1) * GranuleSize
  BY <1>1, Quotient
<1>3. g * GranuleSize \in Nat /\ (g + 1) * GranuleSize \in Nat
  BY <1>2, GranuleAssumption
<1> HIDE DEF g
<1>4. ~(q.from <= g * GranuleSize /\ (g + 1) * GranuleSize <= q.to)
  BY <1>1, <1>2, <1>3 DEF Apart
<1>5. g \notin WholeGranules(q.from, q.to)
  BY <1>1, <1>4, WholeAre
<1> QED
  BY <1>5 DEF g

(* Regions apart share no granule.                                           *)
LEMMA GranulesApart ==
    ASSUME NEW r \in Regions, NEW q \in Regions, Apart(r, q)
    PROVE  WholeGranules(r.from, r.to) \cap WholeGranules(q.from, q.to) = {}
  BY GranuleAssumption, WholeAre DEF Regions, Units, Apart

(* The blocks of a region are in its whole granules.                         *)
LEMMA BlocksInGranules ==
    ASSUME NEW r \in Regions, RegionFits(r), NEW unit \in r.block..r.block + r.blocks - 1
    PROVE  unit \div GranuleSize \in WholeGranules(r.from, r.to)
<1> DEFINE g == unit \div GranuleSize
<1>1. /\ r.from \in Nat /\ r.to \in Nat /\ r.to <= Space
      /\ r.block \in Nat /\ r.blocks \in Nat /\ unit \in Nat
  BY GranuleAssumption DEF Regions, Units
<1>2. g \in Nat /\ g * GranuleSize <= unit /\ unit < (g + 1) * GranuleSize
  BY <1>1, Quotient
<1>3. PICK m \in Nat, n \in Nat : r.block = m * GranuleSize /\ r.blocks = n * GranuleSize
  BY <1>1 DEF RegionFits
<1>4. r.block + r.blocks = (m + n) * GranuleSize /\ m + n \in Nat
  BY <1>3, GranuleAssumption
<1>5. g * GranuleSize \in Nat /\ (g + 1) * GranuleSize \in Nat
  BY <1>2, GranuleAssumption
<1> HIDE DEF g
<1>6. m * GranuleSize < (g + 1) * GranuleSize
  BY <1>1, <1>2, <1>3, <1>5
<1>7. m <= g
  BY <1>2, <1>3, <1>6, MultiplesOrdered
<1>8. g * GranuleSize < (m + n) * GranuleSize
  BY <1>1, <1>2, <1>4, <1>5
<1>9. g < m + n
  BY <1>2, <1>4, MultiplesOrdered, <1>1, <1>5, <1>8
<1>10. m * GranuleSize <= g * GranuleSize
  BY <1>2, <1>3, <1>7, MultiplesOrdered
<1>11. (g + 1) * GranuleSize <= (m + n) * GranuleSize
  BY <1>2, <1>4, <1>9, MultiplesOrdered
<1>12. r.from <= g * GranuleSize /\ (g + 1) * GranuleSize <= r.to
  BY <1>1, <1>3, <1>4, <1>5, <1>10, <1>11 DEF RegionFits
<1>13. g \in WholeGranules(r.from, r.to)
  BY <1>1, <1>2, <1>12, WholeAre
<1> QED
  BY <1>13 DEF g

(* What the property says follows from the invariant.                        *)
LEMMA OwnedInvariantly == GranuleInv => OnlyRpmallocBlocksOwned
<1> SUFFICES ASSUME GranuleInv, NEW r \in regions
             PROVE  /\ r.state = "mapped" =>
                          \A unit \in r.block..r.block + r.blocks - 1 : Owns(unit)
                    /\ r.state = "foreign" => \A unit \in r.from..r.to - 1 : ~Owns(unit)
  BY DEF OnlyRpmallocBlocksOwned
<1>1. r \in Regions /\ RegionFits(r)
  BY DEF GranuleInv
<1>2. ASSUME r.state = "mapped", NEW unit \in r.block..r.block + r.blocks - 1 PROVE Owns(unit)
  BY <1>1, <1>2, BlocksInGranules DEF GranuleInv, Owns
<1>3. ASSUME r.state = "foreign", NEW unit \in r.from..r.to - 1 PROVE ~Owns(unit)
  BY <1>3, <1>1, NotInGranules DEF GranuleInv, Owns
<1> QED
  BY <1>2, <1>3

(* The address space is empty at first.                                      *)
LEMMA GranulesStart == GranuleInit => GranuleInv
  BY DEF GranuleInit, GranuleStart, GranuleInv

(* A region that fits and is not mapped is reserved where there is none.     *)
LEMMA ReserveKeeps ==
    ASSUME GranuleInv, NEW from \in Units, NEW to \in 1..Space, NEW block \in Units,
           NEW blocks \in 0..Space, NEW state \in {"foreign", "reserved"},
           from < to, from <= block, block + blocks <= to,
           \/ blocks = 0
           \/ \E m, n \in Nat : block = m * GranuleSize /\ blocks = n * GranuleSize,
           Reserve(from, to, block, blocks, state), UNCHANGED <<virtualAlloc2, ownedGranules>>
    PROVE  GranuleInv'
<1> DEFINE new == [from |-> from, to |-> to, block |-> block, blocks |-> blocks, state |-> state]
<1>1. new \in Regions /\ RegionFits(new) /\ new.state # "mapped"
  BY DEF Regions, RegionFits
<1>2. \A r \in regions : Apart(r, new) /\ Apart(new, r)
  BY DEF Reserve, Unreserved, Apart
<1>3. regions' = regions \cup {new}
  BY DEF Reserve
<1> HIDE DEF new
<1> QED
  BY <1>1, <1>2, <1>3 DEF GranuleInv

(* MapReserve reserves such a region.                                        *)
LEMMA MapReserveKeeps ==
    ASSUME GranuleInv, NEW from \in Units, NEW request \in 1..GranuleSize + 1,
           NEW alignment \in {0, GranuleSize}, MapReserve(from, request, alignment)
    PROVE  GranuleInv'
<1> DEFINE size == IF alignment >= GranuleSize THEN RoundUp(request, GranuleSize) ELSE request
<1>1. /\ from \in Nat /\ Space \in Nat /\ GranuleSize \in Nat \ {0} /\ request \in Nat \ {0}
      /\ from < Space
  BY GranuleAssumption DEF Units
<1>2. CASE alignment = 0
  BY <1>1, <1>2, ReserveKeeps DEF RoundUp, MapReserve, Reserve, Unreserved
<1>3. CASE alignment = GranuleSize
  <2>1. PICK n \in Nat : RoundUp(request, GranuleSize) = n * GranuleSize
    BY <1>1, RoundedUp
  <2>2. size = n * GranuleSize /\ size \in Nat \ {0}
    BY <1>1, <1>3, <2>1, RoundedUp
  <2>3. CASE virtualAlloc2
    <3>1. /\ from % GranuleSize = 0
          /\ Reserve(from, from + size, from, size, "reserved")
          /\ UNCHANGED <<virtualAlloc2, ownedGranules>>
      BY <1>1, <1>3, <2>3 DEF MapReserve
    <3>2. \E m \in Nat : from = m * GranuleSize
      BY <1>1, <3>1
    <3>3. from + size <= Space
      BY <3>1 DEF Reserve, Unreserved
    <3> HIDE DEF size
    <3>4. from + size \in 1..Space /\ size \in 0..Space /\ from < from + size /\ from <= from
          /\ from + size <= from + size
      BY <1>1, <2>2, <3>3
    <3> QED
      BY <2>2, <3>1, <3>2, <3>4, ReserveKeeps
  <2>4. CASE ~virtualAlloc2
    <3> DEFINE block == RoundUp(from, GranuleSize)
    <3>1. /\ Reserve(from, from + size + GranuleSize, block, size, "reserved")
          /\ UNCHANGED <<virtualAlloc2, ownedGranules>>
      BY <1>1, <1>3, <2>4 DEF MapReserve
    <3>2. /\ block \in Nat /\ from <= block /\ block < from + GranuleSize
          /\ \E m \in Nat : block = m * GranuleSize
      BY <1>1, RoundedUp
    <3>3. from + size + GranuleSize <= Space
      BY <3>1 DEF Reserve, Unreserved
    <3> HIDE DEF size, block
    <3>4. /\ from + size + GranuleSize \in 1..Space /\ size \in 0..Space /\ block \in Units
          /\ from < from + size + GranuleSize /\ block + size <= from + size + GranuleSize
      BY <1>1, <2>2, <3>2, <3>3 DEF Units
    <3> QED
      BY <2>2, <3>1, <3>2, <3>4, ReserveKeeps
  <2> QED
    BY <2>3, <2>4
<1> QED
  BY <1>2, <1>3

(* Where one region changes its state, the others stay apart from it.        *)
LEMMA MoveKeeps ==
    ASSUME GranuleInv, NEW r \in regions, NEW state \in {"mapped", "unmapping"}, Moves(r, state),
           NEW moved, moved = [r EXCEPT !.state = state]
    PROVE  /\ regions' = (regions \ {r}) \cup {moved}
           /\ moved \in Regions /\ moved.state = state
           /\ moved.from = r.from /\ moved.to = r.to
           /\ regions' \subseteq Regions
           /\ \A q \in regions' : RegionFits(q)
           /\ \A q, p \in regions' : q # p => Apart(q, p)
  BY DEF GranuleInv, Regions, RegionFits, Apart, Moves

(* A step keeps the map of the granules.                                     *)
LEMMA GranuleStepKeeps == GranuleInv /\ [GranuleNext]_granuleVars => GranuleInv'
<1> SUFFICES ASSUME GranuleInv, [GranuleNext]_granuleVars PROVE GranuleInv'
  OBVIOUS
<1>1. ASSUME NEW from \in Units, NEW request \in 1..GranuleSize + 1,
             NEW alignment \in {0, GranuleSize}, MapReserve(from, request, alignment)
      PROVE  GranuleInv'
  BY <1>1, MapReserveKeeps
<1>2. ASSUME NEW r \in regions, MapMark(r) PROVE GranuleInv'
  <2> DEFINE moved == [r EXCEPT !.state = "mapped"]
  <2>1. /\ regions' = (regions \ {r}) \cup {moved}
        /\ moved \in Regions /\ moved.state = "mapped"
        /\ moved.from = r.from /\ moved.to = r.to
        /\ regions' \subseteq Regions
        /\ \A q \in regions' : RegionFits(q)
        /\ \A q, p \in regions' : q # p => Apart(q, p)
    BY <1>2, MoveKeeps DEF MapMark
  <2> HIDE DEF moved
  <2>2. /\ r.state # "mapped" /\ UNCHANGED virtualAlloc2
        /\ ownedGranules' = ownedGranules \cup WholeGranules(r.from, r.to)
    BY <1>2 DEF MapMark
  <2>3. \A g : g \in ownedGranules' <=>
           \E q \in regions' : q.state = "mapped" /\ g \in WholeGranules(q.from, q.to)
    BY <2>1, <2>2 DEF GranuleInv
  <2> QED
    BY <2>1, <2>2, <2>3 DEF GranuleInv
<1>3. ASSUME NEW r \in regions, UnmapMark(r) PROVE GranuleInv'
  <2> DEFINE moved == [r EXCEPT !.state = "unmapping"]
  <2>1. /\ regions' = (regions \ {r}) \cup {moved}
        /\ moved \in Regions /\ moved.state = "unmapping"
        /\ moved.from = r.from /\ moved.to = r.to
        /\ regions' \subseteq Regions
        /\ \A q \in regions' : RegionFits(q)
        /\ \A q, p \in regions' : q # p => Apart(q, p)
    BY <1>3, MoveKeeps DEF UnmapMark
  <2> HIDE DEF moved
  <2>2. /\ r.state = "mapped" /\ UNCHANGED virtualAlloc2
        /\ ownedGranules' = ownedGranules \ WholeGranules(r.from, r.to)
    BY <1>3 DEF UnmapMark
  <2>3. \A q \in regions \ {r} :
           WholeGranules(q.from, q.to) \cap WholeGranules(r.from, r.to) = {}
    BY GranulesApart DEF GranuleInv
  <2>4. \A g : g \in ownedGranules' <=>
           \E q \in regions' : q.state = "mapped" /\ g \in WholeGranules(q.from, q.to)
    BY <2>1, <2>2, <2>3 DEF GranuleInv
  <2> QED
    BY <2>1, <2>2, <2>4 DEF GranuleInv
<1>4. ASSUME NEW r \in regions, UnmapRelease(r) PROVE GranuleInv'
  BY <1>4 DEF UnmapRelease, GranuleInv
<1>5. ASSUME NEW from \in Units, NEW to \in 1..Space, from < to, ForeignReserve(from, to)
      PROVE  GranuleInv'
  BY <1>5, GranuleAssumption, ReserveKeeps DEF Units, ForeignReserve
<1>6. CASE UNCHANGED granuleVars
  BY <1>6 DEF granuleVars, GranuleInv
<1> QED
  BY <1>1, <1>2, <1>3, <1>4, <1>5, <1>6 DEF GranuleNext

-----------------------------------------------------------------------------
(* The calls of Voltek's caller: a block's header says the size that was     *)
(* last asked for, and its room is not less.                                 *)

HandedBlocks ==
    [kind : {"none", "default", "pool"}, room : Nat, size : Nat, aligned : BOOLEAN, outer : Nat]

VoltekInv ==
    /\ handed \in [Handles -> HandedBlocks] /\ wanted \in [Handles -> Nat]
    /\ written \in [Handles -> Nat] /\ preserved \in [Handles -> Nat]
    /\ \A h \in Handles :
          /\ handed[h].size = wanted[h] /\ wanted[h] <= handed[h].room
          /\ written[h] <= wanted[h] /\ preserved[h] = written[h]
    /\ unreleased = Cardinality({h \in Handles : IsFresh(handed[h])})

(* Every nonempty set of natural numbers has a least element.                *)
LEMMA LeastOf ==
    ASSUME NEW T, T \subseteq Nat, T # {}
    PROVE  \E x \in T : \A y \in T : x <= y
<1> DEFINE D == {0..n : n \in T}
<1>1. D \subseteq FiniteSubsetsOf(Nat) /\ D # {}
  <2>1. ASSUME NEW n \in T PROVE 0..n \in FiniteSubsetsOf(Nat)
    BY FS_Interval DEF FiniteSubsetsOf
  <2> QED
    BY <2>1
<1>2. PICK I \in D : \A J \in D : ~ (<<J, I>> \in StrictSubsetOrdering(Nat))
  <2> HIDE DEF D
  <2> QED
    BY <1>1, WFMin, FS_StrictSubsetOrderingWellFounded
<1>3. PICK x \in T : I = 0..x
  OBVIOUS
<1>4. ASSUME NEW y \in T PROVE x <= y
  <2>1. SUFFICES ASSUME y < x PROVE FALSE
    OBVIOUS
  <2>2. 0..y \in D
    OBVIOUS
  <2>3. <<0..y, 0..x>> \in StrictSubsetOrdering(Nat)
    <3> DEFINE Y == 0..y  X == 0..x
    <3>1. Y \subseteq X /\ x \notin Y /\ x \in X
      BY <2>1
    <3>2. Y \in SUBSET Nat /\ X \in SUBSET Nat
      OBVIOUS
    <3> HIDE DEF X, Y
    <3>3. Y # X
      BY <3>1
    <3>4. <<Y, X>> \in StrictSubsetOrdering(Nat)
      BY <3>1, <3>2, <3>3 DEF StrictSubsetOrdering
    <3> QED
      BY <3>4 DEF X, Y
  <2> QED
    BY <1>2, <1>3, <2>2, <2>3
<1> QED
  BY <1>4

(* The class of a size that fits one is one, and not smaller.                *)
LEMMA ClassHasRoom ==
    ASSUME NEW size \in Nat, FitsClass(size)
    PROVE  ClassOf(size) \in Nat /\ size <= ClassOf(size)
<1> DEFINE T == {c \in ClassLimits : c >= size}
<1>1. T \subseteq Nat /\ T # {}
  BY VoltekAssumption DEF FitsClass
<1>2. PICK c \in T : \A d \in T : c <= d
  <2> HIDE DEF T
  <2> QED
    BY <1>1, LeastOf
<1>3. c \in ClassLimits /\ c >= size /\ \A d \in ClassLimits : d >= size => c <= d
  BY <1>2
<1>4. ClassOf(size) \in ClassLimits /\ ClassOf(size) >= size
  BY <1>3 DEF ClassOf
<1> QED
  BY <1>4, VoltekAssumption

(* What alloc answers is nothing, or has room for the size it says.          *)
LEMMA GotHasRoom ==
    ASSUME NEW size \in Nat, NEW b \in Got(size)
    PROVE  /\ b \in HandedBlocks
           /\ b # NoHanded => b.size = size /\ size <= b.room
           /\ b = ZeroBlock => size = 0
<1>0. NoHanded \in HandedBlocks
  BY DEF NoHanded, HandedBlocks
<1>1. ZeroBlock \in HandedBlocks /\ ZeroBlock.size = 0 /\ ZeroBlock.room = 0
  BY <1>0 DEF ZeroBlock, NoHanded, HandedBlocks
<1>2. CASE size = 0
  BY <1>2, <1>1 DEF Got
<1>3. CASE size # 0 /\ b = NoHanded
  BY <1>0, <1>3 DEF ZeroBlock, NoHanded
<1>4. CASE size # 0 /\ b = [NoHanded EXCEPT !.kind = "default", !.room = size, !.size = size]
  <2>1. b.room = size /\ b.size = size
    BY <1>4 DEF NoHanded
  <2>2. b \in HandedBlocks
    BY <1>0, <1>4 DEF HandedBlocks
  <2>3. size # 0 /\ size <= size
    BY <1>4
  <2>4. b # ZeroBlock
    BY <1>1, <2>1, <2>3
  <2> QED
    BY <2>1, <2>2, <2>3, <2>4
<1>5. CASE
        /\ FitsClass(size)
        /\ b = [NoHanded EXCEPT !.kind = "pool", !.room = ClassOf(size), !.size = size]
  BY <1>5, ClassHasRoom DEF ZeroBlock, NoHanded, HandedBlocks
<1> QED
  BY <1>2, <1>3, <1>4, <1>5 DEF Got

(* So is what aligned_alloc answers, inside a block with room for both.      *)
LEMMA AlignedHasRoom ==
    ASSUME NEW size \in Nat, NEW b \in GotAligned(size)
    PROVE  b \in HandedBlocks /\ (b # NoHanded => b.size = size /\ size <= b.room)
<1>1. PICK o \in Got(size + Overhead) :
         b = IF o = NoHanded THEN NoHanded
             ELSE [kind |-> "default", room |-> o.room - Overhead, size |-> size,
                   aligned |-> TRUE, outer |-> o.size]
  BY DEF GotAligned
<1>2. size + Overhead \in Nat /\ Overhead \in Nat
  BY VoltekAssumption
<1>3. CASE o = NoHanded
  BY <1>1, <1>3 DEF NoHanded, HandedBlocks
<1>4. CASE o # NoHanded
  BY <1>2, <1>4, GotHasRoom, <1>1 DEF HandedBlocks
<1> QED
  BY <1>3, <1>4

(* One pointer's block is exchanged for another: the blocks handed out are   *)
(* one more, one less or as many.                                            *)
LEMMA Recounted ==
    ASSUME NEW f \in [Handles -> HandedBlocks], NEW h \in Handles, NEW b
    PROVE  Cardinality({x \in Handles : IsFresh([f EXCEPT ![h] = b][x])})
               = Cardinality({x \in Handles : IsFresh(f[x])}) + Gained(b) - Gained(f[h])
<1> DEFINE g == [f EXCEPT ![h] = b]
           rest == {x \in Handles \ {h} : IsFresh(f[x])}
           before == {x \in Handles : IsFresh(f[x])}
           after == {x \in Handles : IsFresh(g[x])}
<1>1. IsFiniteSet(rest) /\ h \notin rest /\ Cardinality(rest) \in Nat
  BY VoltekAssumption, FS_Subset, FS_CardinalityType
<1>2. before = IF IsFresh(f[h]) THEN rest \cup {h} ELSE rest
  OBVIOUS
<1>3. after = IF IsFresh(b) THEN rest \cup {h} ELSE rest
  OBVIOUS
<1> HIDE DEF rest, before, after
<1>4. Cardinality(rest \cup {h}) = Cardinality(rest) + 1
  BY <1>1, FS_AddElement
<1>5. Cardinality(before) = Cardinality(rest) + Gained(f[h])
  BY <1>1, <1>2, <1>4 DEF Gained
<1>6. Cardinality(after) = Cardinality(rest) + Gained(b)
  BY <1>1, <1>3, <1>4 DEF Gained
<1>7. Gained(b) \in Nat /\ Gained(f[h]) \in Nat
  BY DEF Gained
<1>8. Cardinality(after) = Cardinality(before) + Gained(b) - Gained(f[h])
  BY <1>1, <1>5, <1>6, <1>7
<1> QED
  BY <1>8 DEF before, after

(* A pointer gets another block, with what its user has in it.               *)
LEMMA ExchangeKeeps ==
    ASSUME VoltekInv, NEW h \in Handles, NEW b \in HandedBlocks, NEW n \in Nat, NEW k \in Nat,
           b.size = n, n <= b.room, k <= n,
           handed' = [handed EXCEPT ![h] = b], wanted' = [wanted EXCEPT ![h] = n],
           written' = [written EXCEPT ![h] = k], preserved' = [preserved EXCEPT ![h] = k],
           unreleased' = unreleased + Gained(b) - Gained(handed[h])
    PROVE  VoltekInv'
  BY Recounted DEF VoltekInv

(* The lesser of two sizes.                                                  *)
LEMMA LesserIs ==
    \A x, y \in Nat : Lesser(x, y) \in Nat /\ Lesser(x, y) <= x /\ Lesser(x, y) <= y
                      /\ (x <= y => Lesser(x, y) = x)
  BY DEF Lesser

(* A resize that moves the block copies what the header says is in it, which *)
(* is not less than what its user wrote.                                     *)
LEMMA MoveKeepsBytes ==
    ASSUME VoltekInv, NEW h \in Handles, NEW size \in Nat, NEW candidates,
           \A b \in candidates :
               b \in HandedBlocks /\ (b # NoHanded => b.size = size /\ size <= b.room),
           Moved(h, size, candidates)
    PROVE  VoltekInv'
<1>1. CASE UNCHANGED voltekVars
  BY <1>1 DEF voltekVars, VoltekInv
<1>2. ASSUME NEW b \in candidates, b # NoHanded,
             handed' = [handed EXCEPT ![h] = b], wanted' = [wanted EXCEPT ![h] = size],
             written' = [written EXCEPT ![h] = Lesser(@, size)],
             preserved' = [preserved EXCEPT ![h] = Lesser(@, Lesser(handed[h].size, size))],
             unreleased' = unreleased + Gained(b) - Gained(handed[h])
      PROVE  VoltekInv'
  <2> DEFINE k == Lesser(written[h], size)
  <2>1. /\ written[h] \in Nat /\ wanted[h] \in Nat /\ handed[h].size = wanted[h]
        /\ preserved[h] = written[h] /\ written[h] <= wanted[h]
    BY DEF VoltekInv
  <2>2. k \in Nat /\ k <= size /\ Lesser(preserved[h], Lesser(handed[h].size, size)) = k
    BY <2>1 DEF Lesser
  <2>3. b \in HandedBlocks /\ b.size = size /\ size <= b.room
    BY <1>2
  <2>4. /\ written' = [written EXCEPT ![h] = k]
        /\ preserved' = [preserved EXCEPT ![h] = k]
    BY <1>2, <2>2
  <2> HIDE DEF k
  <2> QED
    BY <1>2, <2>2, <2>3, <2>4, ExchangeKeeps
<1> QED
  BY <1>1, <1>2 DEF Moved

(* Giving a block up leaves nothing of it.                                   *)
LEMMA ReleaseKeeps ==
    ASSUME VoltekInv, NEW h \in Handles, ReleasePtr(h) PROVE VoltekInv'
<1>1. NoHanded \in HandedBlocks /\ NoHanded.size = 0 /\ 0 <= NoHanded.room /\ Gained(NoHanded) = 0
  BY DEF NoHanded, HandedBlocks, Gained, IsFresh
<1>2. unreleased \in Int /\ Gained(handed[h]) \in Int
  BY VoltekAssumption, FS_Subset, FS_CardinalityType DEF VoltekInv, Gained
<1>3. unreleased' = unreleased + Gained(NoHanded) - Gained(handed[h])
  BY <1>1, <1>2 DEF ReleasePtr
<1>4. /\ handed' = [handed EXCEPT ![h] = NoHanded] /\ wanted' = [wanted EXCEPT ![h] = 0]
      /\ written' = [written EXCEPT ![h] = 0] /\ preserved' = [preserved EXCEPT ![h] = 0]
  BY DEF ReleasePtr
<1>5. 0 \in Nat /\ 0 <= 0
  OBVIOUS
<1> QED
  BY <1>1, <1>3, <1>4, <1>5, ExchangeKeeps

(* So does every call.                                                       *)
LEMMA VoltekStepKeeps == VoltekInv /\ [VoltekNext]_voltekVars => VoltekInv'
<1> SUFFICES ASSUME VoltekInv, [VoltekNext]_voltekVars PROVE VoltekInv'
  OBVIOUS
<1>0. /\ \A size \in BlockRange : size \in Nat
      /\ unreleased \in Int /\ \A b : Gained(b) \in Int
  BY VoltekAssumption, FS_Subset, FS_CardinalityType DEF VoltekInv, Gained, BlockRange
<1>1. ASSUME NEW h \in Handles, NEW size \in BlockRange, NEW aligned \in BOOLEAN,
             ScalableAlloc(h, size, aligned)
      PROVE  VoltekInv'
  <2>1. PICK b \in (IF aligned THEN GotAligned(size) ELSE Got(size)) :
           /\ handed' = [handed EXCEPT ![h] = b]
           /\ wanted' = [wanted EXCEPT ![h] = IF b = NoHanded THEN 0 ELSE size]
           /\ unreleased' = unreleased + Gained(b)
    BY <1>1 DEF ScalableAlloc
  <2>2. b \in HandedBlocks /\ (b # NoHanded => b.size = size /\ size <= b.room)
    BY <1>0, GotHasRoom, AlignedHasRoom
  <2>3. NoHanded.size = 0 /\ NoHanded.room = 0 /\ Gained(NoHanded) = 0
    BY DEF NoHanded, Gained, IsFresh
  <2>4. written[h] = 0 /\ preserved[h] = 0
    BY <1>1, <2>3 DEF ScalableAlloc, VoltekInv
  <2>5. /\ written' = [written EXCEPT ![h] = 0] /\ preserved' = [preserved EXCEPT ![h] = 0]
    BY <1>1, <2>4 DEF ScalableAlloc, VoltekInv
  <2>6. unreleased' = unreleased + Gained(b) - Gained(handed[h])
    BY <1>0, <1>1, <2>1, <2>3 DEF ScalableAlloc
  <2> DEFINE n == IF b = NoHanded THEN 0 ELSE size
  <2>7. n \in Nat /\ b.size = n /\ n <= b.room /\ 0 <= n /\ 0 \in Nat
    BY <1>0, <2>2, <2>3
  <2>8. wanted' = [wanted EXCEPT ![h] = n]
    BY <2>1
  <2> HIDE DEF n
  <2> QED
    BY <2>1, <2>2, <2>5, <2>6, <2>7, <2>8, ExchangeKeeps
<1>2. ASSUME NEW h \in Handles, NEW size \in BlockRange, NEW aligned \in BOOLEAN,
             ScalableRealloc(h, size, aligned)
      PROVE  VoltekInv'
  <2>1. CASE ReleasePtr(h)
    BY <2>1, ReleaseKeeps
  <2>2. CASE Moved(h, size, GotAligned(size) \cup Got(size))
    BY <1>0, <2>2, GotHasRoom, AlignedHasRoom, MoveKeepsBytes
  <2>3. CASE Moved(h, size, GotAligned(size))
    BY <1>0, <2>3, AlignedHasRoom, MoveKeepsBytes
  <2>4. CASE Moved(h, size, Got(size))
    BY <1>0, <2>4, GotHasRoom, MoveKeepsBytes
  <2>5. CASE /\ InPlace(handed[h], size)
             /\ handed' = [handed EXCEPT ![h] = Resized(@, size)]
             /\ wanted' = [wanted EXCEPT ![h] = size]
             /\ written' = [written EXCEPT ![h] = Lesser(@, size)]
             /\ preserved' = [preserved EXCEPT ![h] = Lesser(@, size)]
             /\ UNCHANGED unreleased
    <3> DEFINE k == Lesser(written[h], size)
               b == Resized(handed[h], size)
    <3>1. /\ written[h] \in Nat /\ preserved[h] = written[h] /\ handed[h] \in HandedBlocks
      BY DEF VoltekInv
    <3>2. size \in Nat /\ k \in Nat /\ k <= size
      BY <1>0, <3>1, LesserIs
    <3>3. /\ b \in HandedBlocks /\ b.size = size /\ b.room = handed[h].room /\ b.kind = "pool"
          /\ handed[h].kind = "pool" /\ size <= b.room
      BY <2>5, <3>1, <3>2 DEF InPlace, Resized, HandedBlocks
    <3>4. Gained(b) = 1 /\ Gained(handed[h]) = 1
      BY <3>3 DEF Gained, IsFresh, NoHanded, ZeroBlock
    <3>5. /\ handed' = [handed EXCEPT ![h] = b]
          /\ written' = [written EXCEPT ![h] = k] /\ preserved' = [preserved EXCEPT ![h] = k]
      BY <2>5, <3>1
    <3> HIDE DEF b, k
    <3>6. unreleased' = unreleased + Gained(b) - Gained(handed[h])
      BY <1>0, <2>5, <3>4
    <3>7. wanted' = [wanted EXCEPT ![h] = size]
      BY <2>5
    <3> QED
      BY <3>2, <3>3, <3>5, <3>6, <3>7, ExchangeKeeps
  <2> QED
    BY <1>2, <2>1, <2>2, <2>3, <2>4, <2>5 DEF ScalableRealloc
<1>3. ASSUME NEW h \in Handles, ScalableFree(h) PROVE VoltekInv'
  BY <1>3, ReleaseKeeps DEF ScalableFree
<1>4. ASSUME NEW h \in Handles, Fill(h) PROVE VoltekInv'
  BY <1>4 DEF Fill, VoltekInv
<1>5. CASE UNCHANGED voltekVars
  BY <1>5 DEF voltekVars, VoltekInv
<1> QED
  BY <1>1, <1>2, <1>3, <1>4, <1>5 DEF VoltekNext

(* Nothing is handed out at first.                                           *)
LEMMA VoltekStarts == VoltekStart => VoltekInv
<1> SUFFICES ASSUME VoltekStart PROVE VoltekInv
  OBVIOUS
<1>1. {h \in Handles : IsFresh(handed[h])} = {}
  BY DEF VoltekStart, IsFresh
<1>2. Cardinality({h \in Handles : IsFresh(handed[h])}) = 0
  BY <1>1, FS_EmptySet
<1> QED
  BY <1>2 DEF VoltekStart, VoltekInv, NoHanded, HandedBlocks

-----------------------------------------------------------------------------
(* Visper.  A block is at one place of one stack or in use, never both, and  *)
(* every block is of a page that its heap has.                               *)

StacksFit(st) ==
    /\ st \in [Heaps -> Seq(Seq(Blocks))]
    /\ \A h \in Heaps : Len(st[h]) \in 1..MaxPages
    /\ \A h \in Heaps : \A p \in 1..Len(st[h]) : Len(st[h][p]) <= BlocksPerPage

PlacedAt(st, at) ==
    \A h \in Heaps : \A p \in 1..Len(st[h]) : \A i \in 1..Len(st[h][p]) :
        at[st[h][p][i]] = <<h, p, i>>
PlacesDiffer(st) == \E at : PlacedAt(st, at)

Known(st, b) == b.page < Len(st[b.heap])

FreeOrUsed(st, used) ==
    /\ StacksFit(st) /\ used \subseteq Blocks /\ PlacesDiffer(st)
    /\ \A h \in Heaps : \A p \in 1..Len(st[h]) : \A i \in 1..Len(st[h][p]) :
          st[h][p][i] \notin used /\ Known(st, st[h][p][i])
    /\ \A b \in used : Known(st, b)

VisperInv ==
    /\ FreeOrUsed(stacks, DOMAIN held)
    /\ \A b \in DOMAIN held : held[b] \in 1..MaxSize
    /\ faulted \in BOOLEAN

(* What a sequence is without its last element, and with one more.           *)
LEMMA FrontIs ==
    ASSUME NEW S, NEW s \in Seq(S), s # <<>>
    PROVE  /\ Front(s) \in Seq(S) /\ Len(Front(s)) = Len(s) - 1 /\ Len(s) \in Nat \ {0}
           /\ \A i \in 1..Len(Front(s)) : Front(s)[i] = s[i]
           /\ Last(s) = s[Len(s)] /\ Last(s) \in S
<1>1. Len(s) \in Nat \ {0} /\ DOMAIN s = 1..Len(s)
  OBVIOUS
<1>2. Front(s) = SubSeq(s, 1, Len(s) - 1)
  BY DEF Front
<1>3. Front(s) = [i \in 1..(Len(s) - 1) |-> s[i]]
  BY <1>1, <1>2
<1>4. Len(Front(s)) = Len(s) - 1 /\ Front(s) \in Seq(S)
  BY <1>1, <1>3
<1> QED
  BY <1>1, <1>3, <1>4 DEF Last

(* What a sequence with one more element is.                                 *)
LEMMA AppendIs ==
    ASSUME NEW S, NEW s \in Seq(S), NEW e \in S
    PROVE  /\ Append(s, e) \in Seq(S) /\ Len(Append(s, e)) = Len(s) + 1 /\ Len(s) \in Nat
           /\ \A i \in 1..Len(s) : Append(s, e)[i] = s[i]
           /\ Append(s, e)[Len(s) + 1] = e
  OBVIOUS

(* What a change of one stack changes.                                       *)
StackIsNow(st, after, h, p, s) ==
    /\ StacksFit(after)
    /\ \A g \in Heaps : Len(after[g]) = Len(st[g])
    /\ \A g \in Heaps : \A q \in 1..Len(st[g]) : g # h \/ q # p => after[g][q] = st[g][q]
    /\ after[h][p] = s

(* One stack changes, and the others do not.                                 *)
LEMMA StackChanged ==
    ASSUME NEW st, StacksFit(st), NEW h \in Heaps, NEW p \in 1..Len(st[h]),
           NEW s \in Seq(Blocks), Len(s) <= BlocksPerPage
    PROVE  StackIsNow(st, [st EXCEPT ![h][p] = s], h, p, s)
<1> DEFINE after == [st EXCEPT ![h][p] = s]
<1>1. st[h] \in Seq(Seq(Blocks)) /\ st \in [Heaps -> Seq(Seq(Blocks))]
  BY DEF StacksFit
<1> DEFINE row == [st[h] EXCEPT ![p] = s]
<1>2. row \in Seq(Seq(Blocks)) /\ Len(row) = Len(st[h]) /\ row[p] = s
      /\ \A q \in 1..Len(st[h]) : q # p => row[q] = st[h][q]
  BY <1>1
<1>3. after = [st EXCEPT ![h] = row]
  BY <1>1
<1> HIDE DEF row, after
<1>4. /\ after \in [Heaps -> Seq(Seq(Blocks))] /\ after[h] = row
      /\ \A g \in Heaps : g # h => after[g] = st[g]
  BY <1>1, <1>2, <1>3
<1>5. /\ \A g \in Heaps : Len(after[g]) = Len(st[g])
      /\ \A g \in Heaps : \A q \in 1..Len(st[g]) : g # h \/ q # p => after[g][q] = st[g][q]
      /\ after[h][p] = s
  BY <1>2, <1>4
<1>6. StacksFit(after)
  <2>1. \A g \in Heaps : Len(after[g]) \in 1..MaxPages
    BY <1>5 DEF StacksFit
  <2>2. ASSUME NEW g \in Heaps, NEW q \in 1..Len(after[g]) PROVE Len(after[g][q]) <= BlocksPerPage
    BY <1>5 DEF StacksFit
  <2> QED
    BY <1>4, <2>1, <2>2 DEF StacksFit
<1> QED
  BY <1>5, <1>6 DEF after, StackIsNow

(* What a place of a stack holds is a block, and known.                      *)
LEMMA PlaceHolds ==
    ASSUME NEW st, NEW used, FreeOrUsed(st, used),
           NEW h \in Heaps, NEW p \in 1..Len(st[h])
    PROVE  /\ st[h][p] \in Seq(Blocks) /\ Len(st[h][p]) \in 0..BlocksPerPage
           /\ \A i \in 1..Len(st[h][p]) :
                 st[h][p][i] \in Blocks \ used /\ Known(st, st[h][p][i])
<1>1. st[h] \in Seq(Seq(Blocks)) /\ StacksFit(st)
  BY DEF FreeOrUsed, StacksFit
<1>2. st[h][p] \in Seq(Blocks)
  BY <1>1
<1>3. Len(st[h][p]) \in Nat /\ Len(st[h][p]) <= BlocksPerPage
  <2>1. Len(st[h][p]) \in Nat
    BY <1>2
  <2> QED
    BY <1>1, <2>1 DEF StacksFit
<1>4. ASSUME NEW i \in 1..Len(st[h][p]) PROVE st[h][p][i] \in Blocks
  BY <1>2
<1>5. \A i \in 1..Len(st[h][p]) : st[h][p][i] \notin used /\ Known(st, st[h][p][i])
  BY DEF FreeOrUsed
<1> QED
  BY <1>2, <1>3, <1>4, <1>5, SizesAssumption

(* A block that is taken from the top of a stack is in use.                  *)
LEMMA TakenFromTop ==
    ASSUME NEW st, NEW used, FreeOrUsed(st, used),
           NEW h \in Heaps, NEW p \in 1..Len(st[h]), st[h][p] # <<>>
    PROVE  /\ FreeOrUsed([st EXCEPT ![h][p] = Front(st[h][p])],
                         used \cup {st[h][p][Len(st[h][p])]})
           /\ st[h][p][Len(st[h][p])] \in Blocks \ used
<1>13. PICK s : s = st[h][p]
  OBVIOUS
<1>14. PICK top, less : top = s[Len(s)] /\ less = Front(s)
  OBVIOUS
<1>15. PICK after : after = [st EXCEPT ![h][p] = less]
  OBVIOUS
<1>1. s \in Seq(Blocks) /\ Len(s) <= BlocksPerPage /\ BlocksPerPage \in Nat
  <2>1. st[h][p] \in Seq(Blocks) /\ Len(st[h][p]) \in 0..BlocksPerPage
    BY PlaceHolds
  <2> QED
    BY <1>13, <2>1, SizesAssumption
<1>2. /\ Len(s) \in Nat \ {0} /\ less \in Seq(Blocks) /\ Len(less) = Len(s) - 1
      /\ \A i \in 1..Len(less) : less[i] = s[i]
  BY <1>1, <1>13, <1>14, FrontIs
<1>3. StacksFit(st) /\ Len(less) <= BlocksPerPage
  BY <1>1, <1>2 DEF FreeOrUsed
<1>4. /\ StacksFit(after)
      /\ \A g \in Heaps : Len(after[g]) = Len(st[g])
      /\ \A g \in Heaps : \A q \in 1..Len(st[g]) : g # h \/ q # p => after[g][q] = st[g][q]
      /\ after[h][p] = less
  <2>1. StackIsNow(st, [st EXCEPT ![h][p] = less], h, p, less)
    BY <1>2, <1>3, StackChanged
  <2> QED
    BY <1>15, <2>1 DEF StackIsNow
<1>5. top \in Blocks /\ top \notin used /\ Known(st, top)
  <2>1. Len(s) \in 1..Len(st[h][p])
    BY <1>2, <1>13
  <2>2. st[h][p][Len(s)] \in Blocks \ used /\ Known(st, st[h][p][Len(s)])
    BY <2>1, PlaceHolds
  <2> QED
    BY <1>13, <1>14, <2>2
<1>6. \A c \in Blocks : Known(st, c) => Known(after, c)
  BY <1>4 DEF Known, Blocks
<1>7. ASSUME NEW g \in Heaps, NEW q \in 1..Len(after[g]), NEW i \in 1..Len(after[g][q])
      PROVE  /\ q \in 1..Len(st[g]) /\ i \in 1..Len(st[g][q])
             /\ after[g][q][i] = st[g][q][i]
             /\ ~(g = h /\ q = p /\ i = Len(s))
  <2>1. q \in 1..Len(st[g])
    BY <1>4
  <2>2. CASE g = h /\ q = p
    BY <1>2, <1>4, <1>13, <2>1, <2>2
  <2>3. CASE g # h \/ q # p
    BY <1>4, <2>1, <2>3
  <2> QED
    BY <2>2, <2>3
<1>8. PICK at : PlacedAt(st, at)
  BY DEF FreeOrUsed, PlacesDiffer
<1>12. PlacesDiffer(after)
  <2>1. ASSUME NEW g \in Heaps, NEW q \in 1..Len(after[g]), NEW i \in 1..Len(after[g][q])
        PROVE  at[after[g][q][i]] = <<g, q, i>>
    <3>1. q \in 1..Len(st[g]) /\ i \in 1..Len(st[g][q]) /\ after[g][q][i] = st[g][q][i]
      BY ZenonT(40), <1>7
    <3> QED
      BY <1>8, <3>1 DEF PlacedAt
  <2>2. PlacedAt(after, at)
    BY <2>1 DEF PlacedAt
  <2> QED
    BY <2>2 DEF PlacesDiffer
<1>9. ASSUME NEW g \in Heaps, NEW q \in 1..Len(after[g]), NEW i \in 1..Len(after[g][q])
      PROVE  after[g][q][i] \notin used \cup {top} /\ Known(after, after[g][q][i])
  <2>1. /\ q \in 1..Len(st[g]) /\ i \in 1..Len(st[g][q]) /\ after[g][q][i] = st[g][q][i]
        /\ ~(g = h /\ q = p /\ i = Len(s))
    BY ZenonT(40), <1>7
  <2>2. st[g][q][i] \in Blocks \ used /\ Known(st, st[g][q][i])
    BY <2>1, PlaceHolds
  <2>3. st[g][q][i] # top
    <3>1. SUFFICES ASSUME st[g][q][i] = st[h][p][Len(s)] PROVE FALSE
      BY <1>13, <1>14
    <3>2. Len(s) \in 1..Len(st[h][p])
      BY <1>2, <1>13
    <3>3. <<g, q, i>> = <<h, p, Len(s)>>
      BY <1>8, <2>1, <3>1, <3>2 DEF PlacedAt
    <3> QED
      BY <2>1, <3>3
  <2> QED
    BY <1>6, <2>1, <2>2, <2>3
<1>10. \A b \in used \cup {top} : b \in Blocks /\ Known(after, b)
  BY <1>5, <1>6 DEF FreeOrUsed
<1>11. FreeOrUsed(after, used \cup {top})
  BY <1>4, <1>9, <1>10, <1>12 DEF FreeOrUsed
<1> QED
  BY <1>5, <1>11, <1>13, <1>14, <1>15

(* Taking a block from a page that has one keeps every block in one place.   *)
LEMMA PopKeeps ==
    ASSUME NEW st, NEW used, FreeOrUsed(st, used),
           NEW h \in Heaps, NEW p \in 1..Len(st[h]), st[h][p] # <<>>,
           NEW a, a = Popped(h, p, st)
    PROVE  a.block \in Blocks \ used /\ FreeOrUsed(a.stacks, used \cup {a.block})
  BY TakenFromTop DEF Popped, Last

(* A block in use that goes on a stack is in use no more.                    *)
LEMMA PutOnTop ==
    ASSUME NEW st, NEW used, FreeOrUsed(st, used), NEW b \in used,
           NEW h \in Heaps, NEW p \in 1..Len(st[h]), Len(st[h][p]) < BlocksPerPage
    PROVE  FreeOrUsed([st EXCEPT ![h][p] = Append(st[h][p], b)], used \ {b})
<1>11. PICK s : s = st[h][p]
  OBVIOUS
<1>12. PICK more : more = Append(s, b)
  OBVIOUS
<1>13. PICK after : after = [st EXCEPT ![h][p] = more]
  OBVIOUS
<1>1. s \in Seq(Blocks) /\ b \in Blocks /\ BlocksPerPage \in Nat
  BY <1>11, PlaceHolds, SizesAssumption DEF FreeOrUsed
<1>2. /\ Len(s) \in Nat /\ more \in Seq(Blocks) /\ Len(more) = Len(s) + 1
      /\ \A i \in 1..Len(s) : more[i] = s[i]
      /\ more[Len(s) + 1] = b
  BY <1>1, <1>12, AppendIs
<1>3. StacksFit(st) /\ Len(more) <= BlocksPerPage
  BY <1>1, <1>2, <1>11 DEF FreeOrUsed
<1>4. /\ StacksFit(after)
      /\ \A g \in Heaps : Len(after[g]) = Len(st[g])
      /\ \A g \in Heaps : \A q \in 1..Len(st[g]) : g # h \/ q # p => after[g][q] = st[g][q]
      /\ after[h][p] = more
  <2>1. StackIsNow(st, [st EXCEPT ![h][p] = more], h, p, more)
    BY <1>2, <1>3, StackChanged
  <2> QED
    BY <1>13, <2>1 DEF StackIsNow
<1>5. \A c \in Blocks : Known(st, c) => Known(after, c)
  BY <1>4 DEF Known, Blocks
<1>6. ASSUME NEW g \in Heaps, NEW q \in 1..Len(after[g]), NEW i \in 1..Len(after[g][q])
      PROVE  /\ q \in 1..Len(st[g])
             /\ \/ i \in 1..Len(st[g][q]) /\ after[g][q][i] = st[g][q][i]
                \/ g = h /\ q = p /\ i = Len(s) + 1 /\ after[g][q][i] = b
  <2>1. q \in 1..Len(st[g])
    BY <1>4
  <2>2. CASE g = h /\ q = p
    BY <1>2, <1>4, <1>11, <2>1, <2>2
  <2>3. CASE g # h \/ q # p
    BY <1>4, <2>1, <2>3
  <2> QED
    BY <2>1, <2>2, <2>3
<1>7. ASSUME NEW g \in Heaps, NEW q \in 1..Len(st[g]), NEW i \in 1..Len(st[g][q])
      PROVE  st[g][q][i] # b /\ st[g][q][i] \notin used \ {b} /\ Known(after, st[g][q][i])
  <2>1. st[g][q][i] \in Blocks \ used /\ Known(st, st[g][q][i])
    BY PlaceHolds
  <2> QED
    BY <1>5, <2>1
<1>8. PlacesDiffer(after)
  <2>1. PICK at : PlacedAt(st, at)
    BY DEF FreeOrUsed, PlacesDiffer
  <2> DEFINE now == [c \in Blocks |-> IF c = b THEN <<h, p, Len(s) + 1>> ELSE at[c]]
  <2>2. ASSUME NEW g \in Heaps, NEW q \in 1..Len(after[g]), NEW i \in 1..Len(after[g][q])
        PROVE  now[after[g][q][i]] = <<g, q, i>>
    <3>1. CASE i \in 1..Len(st[g][q]) /\ after[g][q][i] = st[g][q][i]
      <4>1. q \in 1..Len(st[g])
        BY <1>6
      <4>5. st[g][q][i] # b
        BY ZenonT(40), <1>7, <3>1, <4>1
      <4>6. st[g][q][i] \in Blocks \ used
        BY <4>1, PlaceHolds, <3>1
      <4>2. st[g][q][i] \in Blocks /\ st[g][q][i] # b
        BY <4>5, <4>6
      <4>3. now[st[g][q][i]] = at[st[g][q][i]]
        BY <4>2
      <4> QED
        BY <2>1, <3>1, <4>1, <4>3 DEF PlacedAt
    <3>2. CASE g = h /\ q = p /\ i = Len(s) + 1 /\ after[g][q][i] = b
      BY <1>1, <3>2
    <3>3. \/ i \in 1..Len(st[g][q]) /\ after[g][q][i] = st[g][q][i]
          \/ g = h /\ q = p /\ i = Len(s) + 1 /\ after[g][q][i] = b
      BY <1>6
    <3> HIDE DEF now
    <3> QED
      BY <3>1, <3>2, <3>3
  <2> HIDE DEF now
  <2>3. PlacedAt(after, now)
    BY <2>2 DEF PlacedAt
  <2> QED
    BY <2>3 DEF PlacesDiffer
<1>9. ASSUME NEW g \in Heaps, NEW q \in 1..Len(after[g]), NEW i \in 1..Len(after[g][q])
      PROVE  after[g][q][i] \notin used \ {b} /\ Known(after, after[g][q][i])
  <2>1. Known(after, b)
    BY <1>1, <1>5 DEF FreeOrUsed
  <2>2. CASE i \in 1..Len(st[g][q]) /\ after[g][q][i] = st[g][q][i]
    BY <1>6, <1>7, <2>2
  <2>3. CASE after[g][q][i] = b
    BY <2>1, <2>3
  <2> QED
    BY <1>6, <2>2, <2>3
<1>10. \A c \in used \ {b} : c \in Blocks /\ Known(after, c)
  BY <1>5 DEF FreeOrUsed
<1> QED
  BY <1>4, <1>8, <1>9, <1>10, <1>11, <1>12, <1>13 DEF FreeOrUsed

(* A new page's blocks are known to be on no stack and with no user.         *)
LEMMA GrowKeeps ==
    ASSUME NEW st, NEW used, FreeOrUsed(st, used), NEW h \in Heaps,
           Len(st[h]) < MaxPages, NEW after, after = Grown(h, st)
    PROVE  /\ FreeOrUsed(after, used)
           /\ Len(st[h]) + 1 \in 1..Len(after[h]) /\ after[h][Len(st[h]) + 1] # <<>>
<1> DEFINE n == Len(st[h])
           page == NewPage(h, n)
<1>1. /\ st \in [Heaps -> Seq(Seq(Blocks))] /\ st[h] \in Seq(Seq(Blocks)) /\ StacksFit(st)
      /\ n \in 1..MaxPages /\ n \in 0..MaxPages - 1
      /\ MaxPages \in Nat /\ BlocksPerPage \in Nat \ {0}
  <2>1. StacksFit(st)
    BY DEF FreeOrUsed
  <2>2. st \in [Heaps -> Seq(Seq(Blocks))] /\ st[h] \in Seq(Seq(Blocks)) /\ n \in 1..MaxPages
    BY <2>1 DEF StacksFit
  <2> QED
    BY <2>1, <2>2, SizesAssumption
<1>2. /\ page \in Seq(Blocks) /\ Len(page) = BlocksPerPage
      /\ \A i \in 1..BlocksPerPage : page[i] = [heap |-> h, page |-> n, index |-> i]
  <2>1. page = [i \in 1..BlocksPerPage |-> [heap |-> h, page |-> n, index |-> i]]
    BY DEF NewPage, Block
  <2>2. \A i \in 1..BlocksPerPage : [heap |-> h, page |-> n, index |-> i] \in Blocks
    BY <1>1 DEF Blocks
  <2> HIDE DEF page, n
  <2>3. page \in [1..BlocksPerPage -> Blocks]
    BY <2>1, <2>2
  <2> QED
    BY <1>1, <2>1, <2>3
<1>3. after = [st EXCEPT ![h] = Append(st[h], page)]
  BY DEF Grown
<1> HIDE DEF page
<1>4. /\ Append(st[h], page) \in Seq(Seq(Blocks)) /\ Len(Append(st[h], page)) = n + 1
      /\ \A p \in 1..n : Append(st[h], page)[p] = st[h][p]
      /\ Append(st[h], page)[n + 1] = page
  BY <1>1, <1>2, AppendIs
<1>5. /\ after \in [Heaps -> Seq(Seq(Blocks))] /\ after[h] = Append(st[h], page)
      /\ \A g \in Heaps : g # h => after[g] = st[g]
  BY <1>1, <1>3, <1>4
<1>6. ASSUME NEW g \in Heaps, NEW q \in 1..Len(after[g])
      PROVE  \/ q \in 1..Len(st[g]) /\ after[g][q] = st[g][q]
             \/ g = h /\ q = n + 1 /\ after[g][q] = page
  <2>1. CASE g = h
    <3>1. q \in 1..n \/ q = n + 1
      BY <1>1, <1>4, <1>5, <2>1
    <3> QED
      BY <1>4, <1>5, <2>1, <3>1
  <2>2. CASE g # h
    BY <1>5, <2>2
  <2> QED
    BY <2>1, <2>2
<1>7. \A c \in Blocks : Known(st, c) => Known(after, c)
  <2> SUFFICES ASSUME NEW c \in Blocks, Known(st, c) PROVE Known(after, c)
    OBVIOUS
  <2>1. c.page \in Nat /\ c.heap \in Heaps
    BY DEF Blocks
  <2>2. CASE c.heap = h
    BY <1>1, <1>4, <1>5, <2>1, <2>2 DEF Known
  <2>3. CASE c.heap # h
    BY <1>5, <2>1, <2>3 DEF Known
  <2> QED
    BY <2>2, <2>3
<1>8. StacksFit(after)
  <2>1. ASSUME NEW g \in Heaps PROVE Len(after[g]) \in 1..MaxPages
    <3>1. CASE g = h
      <4>1. Len(after[g]) = n + 1
        BY <1>4, <1>5, <3>1
      <4> HIDE DEF n
      <4> QED
        BY <1>1, <4>1
    <3>2. CASE g # h
      BY <1>1, <1>5, <3>2 DEF StacksFit
    <3> QED
      BY <3>1, <3>2
  <2>2. ASSUME NEW g \in Heaps, NEW q \in 1..Len(after[g]) PROVE Len(after[g][q]) <= BlocksPerPage
    <3>1. CASE q \in 1..Len(st[g]) /\ after[g][q] = st[g][q]
      BY <1>1, <3>1 DEF StacksFit
    <3>2. CASE after[g][q] = page
      BY <1>1, <1>2, <3>2
    <3> QED
      BY <1>6, <3>1, <3>2
  <2> QED
    BY <1>5, <2>1, <2>2 DEF StacksFit
<1>9. \A i \in 1..BlocksPerPage :
         /\ page[i] \in Blocks /\ ~Known(st, page[i]) /\ page[i].heap = h /\ page[i].page = n
         /\ page[i].index = i /\ Known(after, page[i])
  <2> SUFFICES ASSUME NEW i \in 1..BlocksPerPage
               PROVE  /\ page[i] \in Blocks /\ ~Known(st, page[i])
                      /\ page[i].heap = h /\ page[i].page = n
                      /\ page[i].index = i /\ Known(after, page[i])
    OBVIOUS
  <2>1. page[i] = [heap |-> h, page |-> n, index |-> i]
    BY <1>2
  <2>2. page[i].heap = h /\ page[i].page = n /\ page[i].index = i
    BY <2>1
  <2>3. page[i] \in Blocks
    BY <1>1, <2>1 DEF Blocks
  <2>4. ~Known(st, page[i])
    BY <1>1, <2>2 DEF Known
  <2>5. Known(after, page[i])
    BY <1>1, <1>4, <1>5, <2>2 DEF Known
  <2> QED
    BY <2>2, <2>3, <2>4, <2>5
<1>10. ASSUME NEW g \in Heaps, NEW q \in 1..Len(after[g]), NEW i \in 1..Len(after[g][q])
       PROVE  after[g][q][i] \notin used /\ Known(after, after[g][q][i])
  <2>1. CASE q \in 1..Len(st[g]) /\ after[g][q] = st[g][q]
    BY <2>1, PlaceHolds, <1>7
  <2>2. CASE after[g][q] = page
    BY <1>2, <2>2, <1>9 DEF FreeOrUsed
  <2> QED
    BY <1>6, <2>1, <2>2
<1>11. PlacesDiffer(after)
  <2>1. PICK at : PlacedAt(st, at)
    BY DEF FreeOrUsed, PlacesDiffer
  <2> DEFINE now == [c \in Blocks |-> IF Known(st, c) THEN at[c] ELSE <<h, n + 1, c.index>>]
  <2>2. ASSUME NEW g \in Heaps, NEW q \in 1..Len(after[g]), NEW i \in 1..Len(after[g][q])
        PROVE  now[after[g][q][i]] = <<g, q, i>>
    <3>1. CASE q \in 1..Len(st[g]) /\ after[g][q] = st[g][q]
      <4>1. st[g][q][i] \in Blocks /\ Known(st, st[g][q][i])
        BY <3>1, PlaceHolds
      <4>2. now[st[g][q][i]] = at[st[g][q][i]]
        BY <4>1
      <4> QED
        BY <2>1, <3>1, <4>2 DEF PlacedAt
    <3>2. CASE g = h /\ q = n + 1 /\ after[g][q] = page
      BY <1>2, <3>2, <1>9
    <3> QED
      BY <1>6, <3>1, <3>2
  <2> HIDE DEF now
  <2>3. PlacedAt(after, now)
    BY <2>2 DEF PlacedAt
  <2> QED
    BY <2>3 DEF PlacesDiffer
<1>12. used \subseteq Blocks /\ \A b \in used : Known(after, b)
  BY <1>7 DEF FreeOrUsed
<1>13. FreeOrUsed(after, used)
  BY <1>8, <1>10, <1>11, <1>12 DEF FreeOrUsed
<1>14. n + 1 \in 1..Len(after[h]) /\ after[h][n + 1] # <<>>
  BY <1>1, <1>2, <1>4, <1>5
<1> QED
  BY <1>13, <1>14

(* A block that is freed is in use no more, wherever its header sends it.    *)
LEMMA FreeKeeps ==
    ASSUME NEW st, NEW used, FreeOrUsed(st, used), NEW b \in used
    PROVE  FreeOrUsed(Freed(b, st), used \ {b})
<1> DEFINE id == Header(b)
<1>1. CASE /\ id.heap \in Heaps /\ id.page < Len(st[id.heap])
           /\ Len(st[id.heap][id.page + 1]) < BlocksPerPage
  <2>1. id.page \in Nat
    BY SizesAssumption DEF FreeOrUsed, Blocks, Heaps, Header
  <2>2. Len(st[id.heap]) \in Nat
    BY <1>1 DEF FreeOrUsed, StacksFit
  <2>3. id.page + 1 \in 1..Len(st[id.heap])
    BY <1>1, <2>1, <2>2
  <2>4. Freed(b, st) = [st EXCEPT ![id.heap][id.page + 1] = Append(st[id.heap][id.page + 1], b)]
    BY <1>1 DEF Freed
  <2> HIDE DEF id
  <2> QED
    <3> DEFINE g == id.heap
               q == id.page + 1
    <3>1. g \in Heaps /\ q \in 1..Len(st[g]) /\ Len(st[g][q]) < BlocksPerPage
      BY <1>1, <2>3
    <3>2. Freed(b, st) = [st EXCEPT ![g][q] = Append(st[g][q], b)]
      BY <2>4
    <3> HIDE DEF g, q
    <3>3. FreeOrUsed([st EXCEPT ![g][q] = Append(st[g][q], b)], used \ {b})
      BY <3>1, PutOnTop
    <3> QED
      BY <3>2, <3>3
<1>2. CASE ~(/\ id.heap \in Heaps /\ id.page < Len(st[id.heap])
             /\ Len(st[id.heap][id.page + 1]) < BlocksPerPage)
  BY <1>2 DEF Freed, FreeOrUsed
<1> QED
  BY <1>1, <1>2

(* A heap for a size is one, or none.                                        *)
LEMMA HeapForIs == ASSUME NEW size PROVE HeapFor(size) \in Heaps \cup {NoHeap}
<1> DEFINE T == {h \in Heaps : size <= BlockSize(h)} \cup {NoHeap}
<1>1. T \subseteq Nat /\ T # {} /\ T \subseteq Heaps \cup {NoHeap}
  BY SizesAssumption DEF Heaps, NoHeap
<1> HIDE DEF T
<1>2. PICK x \in T : \A y \in T : x <= y
  BY <1>1, LeastOf
<1>3. Min(T) \in T
  BY <1>2 DEF Min
<1> QED
  BY <1>1, <1>3 DEF HeapFor, T

(* Whatever an allocation does, the block it gives had no user, and now has. *)
LEMMA AllocationKeeps ==
    ASSUME NEW used, FreeOrUsed(stacks, used), NEW size, NEW a \in Allocations(size)
    PROVE  \/ a.block = NoBlock /\ FreeOrUsed(a.stacks, used)
           \/ a.block \in Blocks \ used /\ FreeOrUsed(a.stacks, used \cup {a.block})
<1> DEFINE h == HeapFor(size)
<1>1. CASE a = [block |-> NoBlock, stacks |-> stacks]
  BY <1>1
<1>2. CASE h # NoHeap /\ RoomyPages(h, stacks) # {}
           /\ a = Popped(h, Min(RoomyPages(h, stacks)), stacks)
  <2>1. h \in Heaps
    BY <1>2, HeapForIs
  <2> HIDE DEF h
  <2> DEFINE T == RoomyPages(h, stacks)
  <2>2. T \subseteq 1..Len(stacks[h]) /\ T \subseteq Nat /\ T # {}
    BY <2>1, <1>2 DEF FreeOrUsed, StacksFit, RoomyPages
  <2>3. \A p \in T : stacks[h][p] # <<>>
    BY DEF RoomyPages
  <2>4. a = Popped(h, Min(T), stacks)
    BY <1>2
  <2> HIDE DEF T
  <2>5. PICK x \in T : \A y \in T : x <= y
    BY <2>2, LeastOf
  <2>6. Min(T) \in T
    BY <2>5 DEF Min
  <2>7. Min(T) \in 1..Len(stacks[h]) /\ stacks[h][Min(T)] # <<>>
    BY <2>2, <2>3, <2>6
  <2> DEFINE p == Min(T)
  <2> HIDE DEF p
  <2>8. p \in 1..Len(stacks[h]) /\ stacks[h][p] # <<>> /\ a = Popped(h, p, stacks)
    BY <2>4, <2>7 DEF p
  <2> QED
    BY <2>1, <2>8, PopKeeps
<1>3. CASE h # NoHeap /\ Len(stacks[h]) < MaxPages
           /\ a = Popped(h, Len(stacks[h]) + 1, Grown(h, stacks))
  <2>1. h \in Heaps
    BY <1>3, HeapForIs
  <2> DEFINE st == Grown(h, stacks)
             p == Len(stacks[h]) + 1
  <2>2. a = Popped(h, p, st)
    BY <1>3
  <2>3. FreeOrUsed(st, used) /\ p \in 1..Len(st[h]) /\ st[h][p] # <<>>
    <3> HIDE DEF h
    <3> QED
      BY <1>3, <2>1, GrowKeeps
  <2> HIDE DEF h, st, p
  <2> QED
    BY <2>1, <2>2, <2>3, PopKeeps
<1> QED
  BY <1>1, <1>2, <1>3 DEF Allocations

(* The first page of every heap.                                             *)
LEMMA VisperStarts == Init => VisperInv
<1> SUFFICES ASSUME Init PROVE VisperInv
  OBVIOUS
<1> DEFINE page(h) == NewPage(h, 0)
<1>1. ASSUME NEW h \in Heaps
      PROVE  /\ page(h) \in Seq(Blocks) /\ Len(page(h)) = BlocksPerPage
             /\ \A i \in 1..BlocksPerPage : page(h)[i] = [heap |-> h, page |-> 0, index |-> i]
  <2>1. page(h) = [i \in 1..BlocksPerPage |-> [heap |-> h, page |-> 0, index |-> i]]
    BY DEF NewPage, Block
  <2>2. \A i \in 1..BlocksPerPage : [heap |-> h, page |-> 0, index |-> i] \in Blocks
    BY SizesAssumption DEF Blocks
  <2>3. page(h) \in [1..BlocksPerPage -> Blocks]
    BY <2>1, <2>2
  <2> HIDE DEF page
  <2> QED
    BY <2>1, <2>3, SizesAssumption
<1> HIDE DEF page
<1>2. stacks = [h \in Heaps |-> <<page(h)>>]
  BY DEF Init, page
<1>3. \A h \in Heaps : stacks[h] \in Seq(Seq(Blocks)) /\ Len(stacks[h]) = 1 /\ stacks[h][1] = page(h)
  BY <1>1, <1>2
<1>10. \A h \in Heaps : Len(stacks[h]) = 1 /\ stacks[h] \in Seq(Seq(Blocks))
  BY <1>3
<1>11. ASSUME NEW h \in Heaps PROVE 1..Len(stacks[h]) = 1..1 /\ Len(stacks[h]) \in 1..MaxPages
  <2>1. Len(stacks[h]) = 1
    BY <1>10
  <2> QED
    BY <2>1, SizesAssumption
<1>4. StacksFit(stacks)
  BY <1>3, <1>11, <1>1, SizesAssumption, <1>2 DEF StacksFit
<1>5. ASSUME NEW h \in Heaps, NEW p \in 1..Len(stacks[h]), NEW i \in 1..Len(stacks[h][p])
      PROVE  /\ p = 1 /\ stacks[h][p][i] = [heap |-> h, page |-> 0, index |-> i]
             /\ stacks[h][p][i] \in Blocks
  <2>1. p = 1 /\ stacks[h][p] = page(h)
    BY <1>3
  <2>2. i \in 1..BlocksPerPage /\ page(h) \in Seq(Blocks) /\ Len(page(h)) = BlocksPerPage
    BY <1>1, <2>1
  <2>3. page(h)[i] = [heap |-> h, page |-> 0, index |-> i] /\ page(h)[i] \in Blocks
    <3>1. page(h)[i] = [heap |-> h, page |-> 0, index |-> i]
      BY <1>1, <2>2
    <3>2. page(h)[i] \in Blocks
      BY <2>2
    <3> QED
      BY <3>1, <3>2
  <2> QED
    BY <2>1, <2>3
<1>6. PlacesDiffer(stacks)
  <2> DEFINE at == [b \in Blocks |-> <<b.heap, 1, b.index>>]
  <2>1. ASSUME NEW h \in Heaps, NEW p \in 1..Len(stacks[h]), NEW i \in 1..Len(stacks[h][p])
        PROVE  at[stacks[h][p][i]] = <<h, p, i>>
    <3>1. /\ p = 1 /\ stacks[h][p][i] = [heap |-> h, page |-> 0, index |-> i]
          /\ stacks[h][p][i] \in Blocks
      BY <1>5
    <3> DEFINE b == stacks[h][p][i]
    <3>2. b.heap = h /\ b.index = i /\ b \in Blocks
      BY <3>1
    <3> HIDE DEF b
    <3>3. at[b] = <<h, 1, i>>
      BY <3>2
    <3> QED
      BY <3>1, <3>3 DEF b
  <2> HIDE DEF at
  <2>2. PlacedAt(stacks, at)
    BY <2>1 DEF PlacedAt
  <2> QED
    BY <2>2 DEF PlacesDiffer
<1>7. ASSUME NEW h \in Heaps, NEW p \in 1..Len(stacks[h]), NEW i \in 1..Len(stacks[h][p])
      PROVE  Known(stacks, stacks[h][p][i])
  <2>1. stacks[h][p][i] = [heap |-> h, page |-> 0, index |-> i]
    BY ZenonT(40), <1>5
  <2>2. stacks[h][p][i].page = 0 /\ stacks[h][p][i].heap = h
    BY <2>1
  <2> QED
    BY <1>3, <2>2 DEF Known
<1>8. DOMAIN held = {} /\ faulted = FALSE
  BY DEF Init
<1>9. FreeOrUsed(stacks, DOMAIN held)
  BY <1>4, <1>6, <1>7, <1>8 DEF FreeOrUsed
<1> QED
  BY <1>8, <1>9 DEF VisperInv

(* No block is the one that stands for none.                                 *)
LEMMA NoBlockIsNone == NoBlock \notin Blocks
  BY SizesAssumption DEF NoBlock, Block, Blocks, Heaps

(* What the sizes of the blocks in use are with one less.                    *)
LEMMA HeldLess ==
    ASSUME NEW b
    PROVE  /\ DOMAIN Without(b) = DOMAIN held \ {b}
           /\ \A c \in DOMAIN held \ {b} : Without(b)[c] = held[c]
  BY DEF Without, Restrict

(* A free puts its block on a stack, or loses it.                            *)
LEMMA FreeStep == ASSUME VisperInv, NEW b \in DOMAIN held, Free(b) PROVE VisperInv'
<1>1. FreeOrUsed(Freed(b, stacks), DOMAIN held \ {b})
  BY FreeKeeps DEF VisperInv
<1>2. /\ stacks' = Freed(b, stacks) /\ held' = Without(b) /\ faulted' = faulted
  BY DEF Free
<1>3. FreeOrUsed(stacks', DOMAIN held')
  BY <1>1, <1>2, HeldLess
<1>4. \A c \in DOMAIN held' : held'[c] \in 1..MaxSize
  BY <1>2, HeldLess DEF VisperInv
<1> QED
  BY <1>2, <1>3, <1>4 DEF VisperInv

(* Every call keeps each block free or in use.                               *)
LEMMA VisperStepKeeps == VisperInv /\ [Next]_vars => VisperInv'
<1> SUFFICES ASSUME VisperInv, [Next]_vars PROVE VisperInv'
  OBVIOUS
<1>0. FreeOrUsed(stacks, DOMAIN held) /\ (\A b \in DOMAIN held : held[b] \in 1..MaxSize)
  BY DEF VisperInv
<1>1. ASSUME NEW size \in Sizes, Alloc(size) PROVE VisperInv'
  <2>1. PICK a \in Allocations(size) :
            /\ stacks' = a.stacks
            /\ held' = IF a.block = NoBlock THEN held ELSE With(a.block, size, held)
    BY <1>1 DEF Alloc
  <2>2. faulted' = faulted /\ size \in 1..MaxSize
    BY <1>1, SizesAssumption DEF Alloc, Sizes
  <2>3. \/ a.block = NoBlock /\ FreeOrUsed(a.stacks, DOMAIN held)
        \/ a.block \in Blocks \ DOMAIN held /\ FreeOrUsed(a.stacks, DOMAIN held \cup {a.block})
    BY <1>0, AllocationKeeps
  <2>4. CASE a.block = NoBlock /\ FreeOrUsed(a.stacks, DOMAIN held)
    BY <1>0, <2>1, <2>2, <2>4 DEF VisperInv
  <2>5. CASE /\ a.block \in Blocks \ DOMAIN held
             /\ FreeOrUsed(a.stacks, DOMAIN held \cup {a.block})
    BY <2>1, <2>5, NoBlockIsNone, <1>0, <2>2 DEF With, VisperInv
  <2> QED
    BY <2>3, <2>4, <2>5
<1>2. ASSUME NEW b \in DOMAIN held, Free(b) PROVE VisperInv'
  BY <1>2, FreeStep
<1>3. ASSUME NEW b \in DOMAIN held, ReallocToNothing(b) PROVE VisperInv'
  BY <1>3, FreeStep DEF ReallocToNothing
<1>4. ASSUME NEW b \in DOMAIN held, NEW size \in Sizes, ReallocFault(b, size) PROVE VisperInv'
  BY <1>0, <1>4 DEF ReallocFault, VisperInv
<1>5. ASSUME NEW b \in DOMAIN held, NEW size \in Sizes, ReallocInPlace(b, size) PROVE VisperInv'
  BY <1>5, SizesAssumption, <1>0 DEF ReallocInPlace, Sizes, VisperInv
<1>6. ASSUME NEW b \in DOMAIN held, NEW size \in Sizes, ReallocMove(b, size) PROVE VisperInv'
  <2>1. PICK a \in Allocations(size) :
            IF a.block = NoBlock
              THEN stacks' = a.stacks /\ UNCHANGED held
              ELSE stacks' = Freed(b, a.stacks) /\ held' = With(a.block, size, Without(b))
    BY <1>6 DEF ReallocMove
  <2>2. faulted' = faulted /\ size \in 1..MaxSize
    BY <1>6, SizesAssumption DEF ReallocMove, Sizes
  <2>3. \/ a.block = NoBlock /\ FreeOrUsed(a.stacks, DOMAIN held)
        \/ a.block \in Blocks \ DOMAIN held /\ FreeOrUsed(a.stacks, DOMAIN held \cup {a.block})
    BY <1>0, AllocationKeeps
  <2>4. CASE a.block = NoBlock /\ FreeOrUsed(a.stacks, DOMAIN held)
    BY <1>0, <2>1, <2>2, <2>4 DEF VisperInv
  <2>5. CASE /\ a.block \in Blocks \ DOMAIN held
             /\ FreeOrUsed(a.stacks, DOMAIN held \cup {a.block})
    <3>1. stacks' = Freed(b, a.stacks) /\ held' = With(a.block, size, Without(b))
      BY <2>1, <2>5, NoBlockIsNone
    <3>2. FreeOrUsed(Freed(b, a.stacks), (DOMAIN held \cup {a.block}) \ {b})
      BY <2>5, FreeKeeps
    <3>3. DOMAIN held' = (DOMAIN held \ {b}) \cup {a.block}
      BY <3>1, HeldLess DEF With
    <3>4. DOMAIN held' = (DOMAIN held \cup {a.block}) \ {b}
      BY <2>5, <3>3
    <3>5. \A c \in DOMAIN held' : held'[c] \in 1..MaxSize
      BY <2>2, <3>1, HeldLess, <3>3, <1>0 DEF With
    <3> QED
      BY <2>2, <3>1, <3>2, <3>4, <3>5 DEF VisperInv
  <2> QED
    BY <2>3, <2>4, <2>5
<1>7. CASE UNCHANGED vars
  BY <1>0, <1>7 DEF vars, VisperInv
<1> QED
  BY <1>1, <1>2, <1>3, <1>4, <1>5, <1>6, <1>7 DEF Next

(* The room of Visper's blocks.  A block goes on stacks of its own heap or   *)
(* of the heap its header names, and is given from there for a size that     *)
(* this heap's blocks have.                                                  *)

GoesTo(b, h) == h = b.heap \/ h = Header(b).heap

StraysByHeader(st) ==
    \A h \in Heaps : \A p \in 1..Len(st[h]) : \A i \in 1..Len(st[h][p]) : GoesTo(st[h][p][i], h)

GivenFor(b, size) == \E h \in Heaps : GoesTo(b, h) /\ size <= BlockSize(h)

RoomInv ==
    /\ StraysByHeader(stacks)
    /\ \A b \in DOMAIN held : GivenFor(b, held[b])

(* A size fits the blocks of its heap.                                       *)
LEMMA HeapForFits ==
    ASSUME NEW size, HeapFor(size) \in Heaps
    PROVE  size <= BlockSize(HeapFor(size))
<1> DEFINE T == {h \in Heaps : size <= BlockSize(h)} \cup {NoHeap}
<1>1. T \subseteq Nat /\ T # {}
  BY SizesAssumption DEF Heaps, NoHeap
<1>2. HeapFor(size) = Min(T)
  BY DEF HeapFor
<1>3. NoHeap \notin Heaps
  BY SizesAssumption DEF Heaps, NoHeap
<1>4. Min(T) \in T
  <2> HIDE DEF T
  <2>1. PICK x \in T : \A y \in T : x <= y
    BY <1>1, LeastOf
  <2> QED
    BY <2>1 DEF Min
<1>5. HeapFor(size) \in {h \in Heaps : size <= BlockSize(h)}
  BY <1>2, <1>3, <1>4
<1> QED
  BY <1>5

(* The block that is popped was on that stack, and the others stay.          *)
LEMMA PopStrays ==
    ASSUME NEW st, NEW used, FreeOrUsed(st, used), StraysByHeader(st),
           NEW h \in Heaps, NEW p \in 1..Len(st[h]), st[h][p] # <<>>,
           NEW a, a = Popped(h, p, st)
    PROVE  StraysByHeader(a.stacks) /\ GoesTo(a.block, h)
<1>1. PICK s, less : s = st[h][p] /\ less = Front(s)
  OBVIOUS
<1>2. /\ s \in Seq(Blocks) /\ Len(s) <= BlocksPerPage /\ s # <<>>
      /\ BlocksPerPage \in Nat
  <2>1. st[h][p] \in Seq(Blocks) /\ Len(st[h][p]) \in 0..BlocksPerPage
    BY PlaceHolds
  <2> QED
    BY <1>1, <2>1, SizesAssumption
<1>3. /\ Len(s) \in Nat \ {0} /\ less \in Seq(Blocks) /\ Len(less) = Len(s) - 1
      /\ \A i \in 1..Len(less) : less[i] = s[i]
      /\ Last(s) = s[Len(s)]
  BY <1>1, <1>2, FrontIs
<1>4. a.stacks = [st EXCEPT ![h][p] = less] /\ a.block = s[Len(s)]
  BY <1>1, <1>3 DEF Popped
<1>5. GoesTo(a.block, h)
  BY <1>1, <1>3, <1>4 DEF StraysByHeader
<1>6. StackIsNow(st, a.stacks, h, p, less)
  <2>1. StacksFit(st) /\ Len(less) <= BlocksPerPage
    BY <1>2, <1>3 DEF FreeOrUsed
  <2>2. StackIsNow(st, [st EXCEPT ![h][p] = less], h, p, less)
    BY <1>3, <2>1, StackChanged
  <2> QED
    BY <1>4, <2>2
<1> DEFINE after == a.stacks
<1> HIDE DEF after
<1>7. /\ \A g \in Heaps : Len(after[g]) = Len(st[g])
      /\ \A g \in Heaps : \A q \in 1..Len(st[g]) : g # h \/ q # p => after[g][q] = st[g][q]
      /\ after[h][p] = less
  BY <1>6 DEF StackIsNow, after
<1>8. ASSUME NEW g \in Heaps, NEW q \in 1..Len(after[g]), NEW i \in 1..Len(after[g][q])
      PROVE  GoesTo(after[g][q][i], g)
  <2>1. q \in 1..Len(st[g])
    BY <1>7
  <2>2. CASE g = h /\ q = p
    <3>1. i \in 1..Len(less) /\ after[g][q][i] = less[i]
      BY <1>7, <2>2
    <3>2. i \in 1..Len(s) /\ less[i] = s[i]
      BY <1>3, <3>1
    <3> QED
      BY <1>1, <2>2, <3>1, <3>2 DEF StraysByHeader
  <2>3. CASE g # h \/ q # p
    BY <1>7, <2>1, <2>3 DEF StraysByHeader
  <2> QED
    BY <2>2, <2>3
<1>9. StraysByHeader(after)
  BY <1>8 DEF StraysByHeader
<1> QED
  BY <1>5, <1>9 DEF after

(* A new page has blocks of its own heap.                                    *)
LEMMA GrowStrays ==
    ASSUME NEW st, NEW used, FreeOrUsed(st, used), StraysByHeader(st), NEW h \in Heaps
    PROVE  StraysByHeader(Grown(h, st))
<1> DEFINE n == Len(st[h])
           page == NewPage(h, n)
           after == Grown(h, st)
<1>1. st \in [Heaps -> Seq(Seq(Blocks))] /\ st[h] \in Seq(Seq(Blocks)) /\ n \in Nat
  BY DEF FreeOrUsed, StacksFit
<1>2. \A i \in 1..BlocksPerPage : page[i].heap = h
  BY DEF NewPage, Block
<1>3. Len(page) = BlocksPerPage
  <2>1. page = [i \in 1..BlocksPerPage |-> [heap |-> h, page |-> n, index |-> i]]
    BY DEF NewPage, Block
  <2> HIDE DEF n
  <2> QED
    BY <2>1, SizesAssumption
<1>4. after = [st EXCEPT ![h] = Append(st[h], page)]
  BY DEF Grown
<1> HIDE DEF page, after
<1>5. /\ Len(Append(st[h], page)) = n + 1 /\ Append(st[h], page)[n + 1] = page
      /\ \A q \in 1..n : Append(st[h], page)[q] = st[h][q]
  BY <1>1
<1>6. after[h] = Append(st[h], page) /\ \A g \in Heaps : g # h => after[g] = st[g]
  BY <1>1, <1>4
<1>7. ASSUME NEW g \in Heaps, NEW q \in 1..Len(after[g]), NEW i \in 1..Len(after[g][q])
      PROVE  GoesTo(after[g][q][i], g)
  <2>1. CASE g # h
    BY <1>6, <2>1 DEF StraysByHeader
  <2>2. CASE g = h /\ q \in 1..n
    BY <1>5, <1>6, <2>2 DEF StraysByHeader
  <2>3. CASE g = h /\ q = n + 1
    BY <1>2, <1>3, <1>5, <1>6, <2>3 DEF GoesTo
  <2>4. g = h => q \in 1..n \/ q = n + 1
    <3>1. g = h => q \in 1..n + 1
      BY <1>5, <1>6
    <3> QED
      BY <1>1, <3>1
  <2> QED
    BY <2>1, <2>2, <2>3, <2>4
<1> QED
  BY <1>7 DEF StraysByHeader, after

(* A block that is freed goes where its header sends it, or is lost.         *)
LEMMA FreeStrays ==
    ASSUME NEW st, NEW used, FreeOrUsed(st, used), StraysByHeader(st), NEW b \in used
    PROVE  StraysByHeader(Freed(b, st))
<1> DEFINE h == Header(b).heap
           p == Header(b).page + 1
<1>1. CASE ~(h \in Heaps /\ Header(b).page < Len(st[h]) /\ Len(st[h][p]) < BlocksPerPage)
  BY <1>1 DEF Freed
<1>2. CASE h \in Heaps /\ Header(b).page < Len(st[h]) /\ Len(st[h][p]) < BlocksPerPage
  <2>1. b \in Blocks /\ GoesTo(b, h) /\ Header(b).page \in Nat
    BY SizesAssumption DEF FreeOrUsed, GoesTo, Blocks, Heaps, Header
  <2>2. Len(st[h]) \in Nat
    BY <1>2 DEF FreeOrUsed, StacksFit
  <2>3. h \in Heaps /\ p \in 1..Len(st[h]) /\ Len(st[h][p]) < BlocksPerPage
    BY <1>2, <2>1, <2>2
  <2>4. Freed(b, st) = [st EXCEPT ![h][p] = Append(st[h][p], b)]
    BY <1>2 DEF Freed
  <2> HIDE DEF h, p
  <2>5. PICK s, more : s = st[h][p] /\ more = Append(s, b)
    OBVIOUS
  <2>6. /\ s \in Seq(Blocks) /\ Len(s) \in Nat
        /\ more \in Seq(Blocks) /\ Len(more) = Len(s) + 1
        /\ \A i \in 1..Len(s) : more[i] = s[i]
        /\ more[Len(s) + 1] = b
    BY <2>1, <2>3, <2>5, PlaceHolds, AppendIs
  <2>7. PICK after : after = Freed(b, st)
    OBVIOUS
  <2>8. StackIsNow(st, after, h, p, more)
    <3>1. StacksFit(st) /\ Len(more) <= BlocksPerPage
      BY <2>3, <2>5, <2>6, SizesAssumption DEF FreeOrUsed
    <3>2. StackIsNow(st, [st EXCEPT ![h][p] = more], h, p, more)
      BY <2>3, <2>6, <3>1, StackChanged
    <3> QED
      BY <2>4, <2>5, <2>7, <3>2
  <2>9. ASSUME NEW g \in Heaps, NEW q \in 1..Len(after[g]), NEW i \in 1..Len(after[g][q])
        PROVE  GoesTo(after[g][q][i], g)
    <3>1. q \in 1..Len(st[g])
      BY <2>8 DEF StackIsNow
    <3>2. CASE g # h \/ q # p
      BY <2>8, <3>1, <3>2 DEF StackIsNow, StraysByHeader
    <3>3. CASE g = h /\ q = p
      <4>1. i \in 1..Len(more) /\ after[g][q][i] = more[i]
        BY <2>8, <3>3 DEF StackIsNow
      <4>2. i \in 1..Len(s) \/ i = Len(s) + 1
        BY <2>6, <4>1
      <4>3. CASE i \in 1..Len(s)
        BY <2>3, <2>5, <2>6, <3>3, <4>1, <4>3 DEF StraysByHeader
      <4>4. CASE i = Len(s) + 1
        BY <2>1, <2>6, <3>3, <4>1, <4>4
      <4> QED
        BY <4>2, <4>3, <4>4
    <3> QED
      BY <3>2, <3>3
  <2> QED
    BY <2>7, <2>9 DEF StraysByHeader
<1> QED
  BY <1>1, <1>2

(* The block an allocation gives, if any, was on a stack of the size's heap. *)
LEMMA AllocationStrays ==
    ASSUME NEW used, FreeOrUsed(stacks, used), StraysByHeader(stacks),
           NEW size, NEW a \in Allocations(size)
    PROVE  StraysByHeader(a.stacks) /\ (a.block = NoBlock \/ GivenFor(a.block, size))
<1> DEFINE h == HeapFor(size)
<1>1. CASE a = [block |-> NoBlock, stacks |-> stacks]
  BY <1>1
<1>0. h # NoHeap => h \in Heaps /\ size <= BlockSize(h)
  BY HeapForIs, HeapForFits
<1>2. CASE h # NoHeap /\ RoomyPages(h, stacks) # {}
           /\ a = Popped(h, Min(RoomyPages(h, stacks)), stacks)
  <2> HIDE DEF h
  <2>1. h \in Heaps /\ size <= BlockSize(h)
    BY <1>0, <1>2
  <2> DEFINE T == RoomyPages(h, stacks)
  <2>2. T \subseteq 1..Len(stacks[h]) /\ T \subseteq Nat /\ T # {}
    BY <2>1, <1>2 DEF FreeOrUsed, StacksFit, RoomyPages
  <2>3. \A p \in T : stacks[h][p] # <<>>
    BY DEF RoomyPages
  <2>4. a = Popped(h, Min(T), stacks)
    BY <1>2
  <2> HIDE DEF T
  <2>5. PICK x \in T : \A y \in T : x <= y
    BY <2>2, LeastOf
  <2>6. Min(T) \in T
    BY <2>5 DEF Min
  <2>7. Min(T) \in 1..Len(stacks[h]) /\ stacks[h][Min(T)] # <<>>
    BY <2>2, <2>3, <2>6
  <2> DEFINE p == Min(T)
  <2> HIDE DEF p
  <2>8. p \in 1..Len(stacks[h]) /\ stacks[h][p] # <<>> /\ a = Popped(h, p, stacks)
    BY <2>4, <2>7 DEF p
  <2>9. StraysByHeader(a.stacks) /\ GoesTo(a.block, h)
    BY <2>1, <2>8, PopStrays
  <2> QED
    BY <2>1, <2>9 DEF GivenFor
<1>3. CASE h # NoHeap /\ Len(stacks[h]) < MaxPages
           /\ a = Popped(h, Len(stacks[h]) + 1, Grown(h, stacks))
  <2> HIDE DEF h
  <2>1. h \in Heaps /\ size <= BlockSize(h)
    BY <1>0, <1>3
  <2> DEFINE st == Grown(h, stacks)
             p == Len(stacks[h]) + 1
  <2>2. a = Popped(h, p, st)
    BY <1>3
  <2>3. FreeOrUsed(st, used) /\ p \in 1..Len(st[h]) /\ st[h][p] # <<>>
    BY <1>3, <2>1, GrowKeeps
  <2>4. StraysByHeader(st)
    BY <2>1, GrowStrays
  <2> HIDE DEF st, p
  <2>5. StraysByHeader(a.stacks) /\ GoesTo(a.block, h)
    BY <2>1, <2>2, <2>3, <2>4, PopStrays
  <2> QED
    BY <2>1, <2>5 DEF GivenFor
<1> QED
  BY <1>1, <1>2, <1>3 DEF Allocations

(* At first every block is at home.                                          *)
LEMMA RoomStarts == Init => RoomInv
<1> SUFFICES ASSUME Init PROVE RoomInv
  OBVIOUS
<1>1. DOMAIN held = {}
  BY DEF Init
<1>2. ASSUME NEW h \in Heaps
      PROVE  Len(stacks[h]) = 1 /\ stacks[h][1] = NewPage(h, 0)
  BY DEF Init
<1>3. ASSUME NEW h \in Heaps, NEW i \in 1..BlocksPerPage
      PROVE  NewPage(h, 0)[i].heap = h
  BY DEF NewPage, Block
<1>4. ASSUME NEW h \in Heaps PROVE Len(NewPage(h, 0)) = BlocksPerPage
  BY SizesAssumption DEF NewPage, Block
<1>5. ASSUME NEW h \in Heaps, NEW p \in 1..Len(stacks[h]), NEW i \in 1..Len(stacks[h][p])
      PROVE  GoesTo(stacks[h][p][i], h)
  <2>1. stacks[h][p] = NewPage(h, 0)
    BY <1>2
  <2> QED
    BY <1>3, <1>4, <2>1 DEF GoesTo
<1> QED
  BY <1>1, <1>5 DEF RoomInv, StraysByHeader

(* A free leaves the blocks that stay in use their room.                     *)
LEMMA FreeGives ==
    ASSUME VisperInv, RoomInv, NEW b \in DOMAIN held, Free(b)
    PROVE  RoomInv'
<1>1. stacks' = Freed(b, stacks) /\ held' = Without(b)
  BY DEF Free
<1>2. StraysByHeader(Freed(b, stacks))
  BY FreeStrays DEF VisperInv, RoomInv
<1>3. \A c \in DOMAIN held' : GivenFor(c, held'[c])
  BY <1>1, HeldLess DEF RoomInv
<1> QED
  BY <1>1, <1>2, <1>3 DEF RoomInv, StraysByHeader

(* So does every call, and the block it gives has its room.                  *)
LEMMA RoomStepKeeps == VisperInv /\ RoomInv /\ [Next]_vars => RoomInv'
<1> SUFFICES ASSUME VisperInv, RoomInv, [Next]_vars PROVE RoomInv'
  OBVIOUS
<1>0. /\ FreeOrUsed(stacks, DOMAIN held) /\ StraysByHeader(stacks)
      /\ \A b \in DOMAIN held : GivenFor(b, held[b])
  BY DEF VisperInv, RoomInv
<1>1. ASSUME NEW size \in Sizes, Alloc(size) PROVE RoomInv'
  <2>1. PICK a \in Allocations(size) :
            /\ stacks' = a.stacks
            /\ held' = IF a.block = NoBlock THEN held ELSE With(a.block, size, held)
    BY <1>1 DEF Alloc
  <2>2. StraysByHeader(a.stacks) /\ (a.block = NoBlock \/ GivenFor(a.block, size))
    BY <1>0, AllocationStrays
  <2>3. \A c \in DOMAIN held' : GivenFor(c, held'[c])
    BY <1>0, <2>1, <2>2 DEF With
  <2> QED
    BY <2>1, <2>2, <2>3 DEF RoomInv, StraysByHeader
<1>2. ASSUME NEW b \in DOMAIN held, Free(b) PROVE RoomInv'
  BY <1>2, FreeGives
<1>3. ASSUME NEW b \in DOMAIN held, ReallocToNothing(b) PROVE RoomInv'
  BY <1>3, FreeGives DEF ReallocToNothing
<1>4. ASSUME NEW b \in DOMAIN held, NEW size \in Sizes, ReallocFault(b, size) PROVE RoomInv'
  BY <1>0, <1>4 DEF ReallocFault, RoomInv, StraysByHeader
<1>5. ASSUME NEW b \in DOMAIN held, NEW size \in Sizes, ReallocInPlace(b, size) PROVE RoomInv'
  <2>1. stacks' = stacks /\ held' = [held EXCEPT ![b] = size]
    BY <1>5 DEF ReallocInPlace
  <2>2. GivenFor(b, size)
    <3> DEFINE h == Header(b).heap
    <3>1. h \in Heaps /\ HeapFor(size) = h
      BY <1>5 DEF ReallocInPlace, Reallocates, Fits, ReallocHeap
    <3>2. size <= BlockSize(h)
      BY <3>1, HeapForFits
    <3> QED
      BY <3>1, <3>2 DEF GivenFor, GoesTo
  <2>3. \A c \in DOMAIN held' : GivenFor(c, held'[c])
    BY <1>0, <2>1, <2>2
  <2> QED
    BY <1>0, <2>1, <2>3 DEF RoomInv, StraysByHeader
<1>6. ASSUME NEW b \in DOMAIN held, NEW size \in Sizes, ReallocMove(b, size) PROVE RoomInv'
  <2>1. PICK a \in Allocations(size) :
            IF a.block = NoBlock
              THEN stacks' = a.stacks /\ UNCHANGED held
              ELSE stacks' = Freed(b, a.stacks) /\ held' = With(a.block, size, Without(b))
    BY <1>6 DEF ReallocMove
  <2>2. StraysByHeader(a.stacks) /\ (a.block = NoBlock \/ GivenFor(a.block, size))
    BY <1>0, AllocationStrays
  <2>3. CASE a.block = NoBlock
    BY <1>0, <2>1, <2>2, <2>3 DEF RoomInv, StraysByHeader
  <2>4. CASE a.block # NoBlock
    <3>1. stacks' = Freed(b, a.stacks) /\ held' = With(a.block, size, Without(b))
      BY <2>1, <2>4
    <3>2. FreeOrUsed(a.stacks, DOMAIN held \cup {a.block})
      BY <1>0, <2>4, AllocationKeeps
    <3>3. StraysByHeader(Freed(b, a.stacks))
      BY <2>2, <3>2, FreeStrays
    <3>4. \A c \in DOMAIN held' : GivenFor(c, held'[c])
      BY <1>0, <2>2, <2>4, <3>1, HeldLess DEF With
    <3> QED
      BY <3>1, <3>3, <3>4 DEF RoomInv, StraysByHeader
  <2> QED
    BY <2>3, <2>4
<1>7. CASE UNCHANGED vars
  BY <1>0, <1>7 DEF vars, RoomInv, StraysByHeader
<1> QED
  BY <1>1, <1>2, <1>3, <1>4, <1>5, <1>6, <1>7 DEF Next

(* Larger heaps have larger blocks, so what was given from a smaller one     *)
(* than its own leaves room to spare.                                        *)
LEMMA RoomFollows == VisperInv /\ RoomInv => RoomFollowsHeader
<1> SUFFICES ASSUME VisperInv, RoomInv, NEW b \in DOMAIN held
             PROVE  \/ held[b] <= BlockSize(b.heap)
                    \/ /\ Header(b).heap \in Heaps /\ Header(b).heap > b.heap
                       /\ held[b] <= BlockSize(Header(b).heap)
  BY DEF RoomFollowsHeader
<1>1. PICK h \in Heaps : GoesTo(b, h) /\ held[b] <= BlockSize(h)
  BY DEF RoomInv, GivenFor
<1>2. b.heap \in Heaps /\ held[b] \in Nat
  BY SizesAssumption DEF VisperInv, FreeOrUsed, Blocks
<1>3. CASE h > b.heap
  BY <1>1, <1>2, <1>3, SizesAssumption DEF GoesTo, Heaps
<1>4. CASE h = b.heap
  BY <1>1, <1>4
<1>5. CASE h < b.heap
  <2>1. h + 1 \in 1..Len(BlockSizes) /\ b.heap + 1 \in 1..Len(BlockSizes) /\ h + 1 < b.heap + 1
    <3> DEFINE g == b.heap
               n == Len(BlockSizes)
    <3>1. n \in Nat /\ h \in 0..n - 1 /\ g \in 0..n - 1 /\ h < g
      BY <1>2, <1>5, SizesAssumption DEF Heaps
    <3> HIDE DEF g, n
    <3>2. h + 1 \in 1..n /\ g + 1 \in 1..n /\ h + 1 < g + 1
      BY <3>1
    <3> QED
      BY <3>2 DEF g, n
  <2>2. /\ BlockSizes[h + 1] < BlockSizes[b.heap + 1]
        /\ BlockSizes[h + 1] \in Nat /\ BlockSizes[b.heap + 1] \in Nat
    BY <2>1, SizesAssumption
  <2> QED
    BY <1>1, <1>2, <2>2 DEF BlockSize
<1> QED
  BY <1>2, <1>3, <1>4, <1>5, SizesAssumption DEF Heaps

(* A block that differs in its places is at most at one.                     *)
LEMMA OnePlaceEach == VisperInv => NoBlockTwice
<1> SUFFICES ASSUME VisperInv, NEW b \in Blocks
             PROVE  Cardinality(Places(b)) <= IF b \in DOMAIN held THEN 0 ELSE 1
  BY DEF NoBlockTwice
<1>1. PICK at : PlacedAt(stacks, at)
  BY DEF VisperInv, FreeOrUsed, PlacesDiffer
<1>2. \A h \in Heaps : /\ stacks[h] \in Seq(Seq(Blocks)) /\ DOMAIN stacks[h] = 1..Len(stacks[h])
                       /\ \A p \in 1..Len(stacks[h]) : DOMAIN stacks[h][p] = 1..Len(stacks[h][p])
  <2> SUFFICES ASSUME NEW h \in Heaps
               PROVE  /\ stacks[h] \in Seq(Seq(Blocks)) /\ DOMAIN stacks[h] = 1..Len(stacks[h])
                      /\ \A p \in 1..Len(stacks[h]) : DOMAIN stacks[h][p] = 1..Len(stacks[h][p])
    OBVIOUS
  <2>1. stacks[h] \in Seq(Seq(Blocks))
    BY DEF VisperInv, FreeOrUsed, StacksFit
  <2>2. \A p \in 1..Len(stacks[h]) : stacks[h][p] \in Seq(Blocks)
    BY <2>1
  <2> QED
    BY <2>1, <2>2
<1>3. ASSUME NEW x \in Places(b)
      PROVE  x = at[b] /\ b \notin DOMAIN held
  <2>1. PICK h \in Heaps, p \in 1..MaxPages, i \in 1..BlocksPerPage : x = <<h, p, i>>
    BY DEF Places
  <2>2. p \in DOMAIN stacks[h] /\ i \in DOMAIN stacks[h][p] /\ stacks[h][p][i] = b
    BY <2>1 DEF Places
  <2>3. p \in 1..Len(stacks[h]) /\ i \in 1..Len(stacks[h][p])
    BY <1>2, <2>2
  <2>4. at[b] = <<h, p, i>>
    BY <1>1, <2>2, <2>3 DEF PlacedAt
  <2>5. b \notin DOMAIN held
    BY <2>2, <2>3, PlaceHolds DEF VisperInv
  <2> QED
    BY <2>1, <2>4, <2>5
<1>4. CASE Places(b) = {}
  BY <1>4, FS_EmptySet
<1>5. CASE Places(b) # {}
  BY <1>3, <1>5, FS_Singleton
<1> QED
  BY <1>4, <1>5

-----------------------------------------------------------------------------
(* Voltek's pools.  What a pool is: its pages lie in slots of their own, a   *)
(* busy block is in what a page has given out, a page counts its busy blocks *)
(* and knows its room, and its free list holds what it gave out and got back *)
(* as long as nobody wrote to a freed block.                                 *)

Flags == {"none", "free", "cached", "used", "counted"}
PagesOf ==
    [slot : PageIds \cup {-1}, busy : Nat, bump : 0..PageBlocks, head : 0..PageBlocks,
     retained : BOOLEAN]
Pools ==
    [pages : [PageIds -> PagesOf], current : PageIds \cup {NoIndex}, free : Seq(PageIds),
     next : 0..PoolPages, roomy : SUBSET PageIds, retained : Int,
     flags : [PoolBlocks -> Flags], link : [PoolBlocks -> 0..Corrupt]]

BusyFlags == {"cached", "used", "counted"}
Busy(p, b) == p.flags[b] \in BusyFlags
BusyOf(p, slot) == {b \in PoolBlocks : b.slot = slot /\ Busy(p, b)}
There(p, i) == p.pages[i].slot # -1
At(p, i, k) == [slot |-> p.pages[i].slot, index |-> k]

PagesListed(p) ==
    /\ \A i \in PageIds : There(p, i) =>
          i < p.next /\ (\A k \in 1..Len(p.free) : p.free[k] # i) /\ p.pages[i].head <= p.pages[i].bump
    /\ \A i \in PageIds : ~There(p, i) =>
          p.pages[i] = NoPage /\ (i < p.next => \E k \in 1..Len(p.free) : p.free[k] = i)
    /\ \A k \in 1..Len(p.free) : p.free[k] < p.next
    /\ \A j \in 1..Len(p.free) : \A k \in 1..Len(p.free) : p.free[j] = p.free[k] => j = k

PagesApart(p) ==
    \A i \in PageIds : \A j \in PageIds : There(p, i) /\ p.pages[i].slot = p.pages[j].slot => i = j

BusyGiven(p) ==
    \A b \in PoolBlocks : Busy(p, b) =>
        \E i \in PageIds : p.pages[i].slot = b.slot /\ b.index <= p.pages[i].bump

BusyCounted(p) ==
    \A i \in PageIds : There(p, i) => p.pages[i].busy = Cardinality(BusyOf(p, p.pages[i].slot))

RoomIsThere(p) ==
    /\ \A i \in p.roomy : There(p, i)
    /\ p.current # NoIndex => There(p, p.current)

RetainedCounted(p) ==
    /\ p.retained = Cardinality({i \in PageIds : p.pages[i].retained})
    /\ p.retained <= RetainedPages
    /\ \A i \in PageIds : p.pages[i].retained => p.pages[i].busy = 0

RoomIsKnown(p) ==
    \A i \in PageIds : There(p, i) /\ p.pages[i].busy < PageBlocks => i \in p.roomy

Chain(p, i, list) ==
    /\ list \in Seq(1..PageBlocks)
    /\ \A j \in 1..Len(list) : \A k \in 1..Len(list) : list[j] = list[k] => j = k
    /\ \A k \in 1..Len(list) :
          /\ p.flags[At(p, i, list[k])] = "free" /\ list[k] <= p.pages[i].bump
          /\ p.link[At(p, i, list[k])] = IF k = 1 THEN 0 ELSE list[k - 1]
    /\ \A x \in 1..p.pages[i].bump :
          ~Busy(p, At(p, i, x)) => \E k \in 1..Len(list) : list[k] = x
    /\ p.pages[i].head = IF Len(list) = 0 THEN 0 ELSE list[Len(list)]

Chained(p) == \A i \in PageIds : There(p, i) => \E list : Chain(p, i, list)

PoolGood(p, spoiled) ==
    /\ p \in Pools /\ PagesListed(p) /\ PagesApart(p) /\ BusyGiven(p) /\ BusyCounted(p)
    /\ RoomIsThere(p) /\ RetainedCounted(p)
    /\ ~spoiled => RoomIsKnown(p) /\ Chained(p)

(* There are finitely many blocks, and a set of them has a count that one    *)
(* block more or less changes by one.                                        *)
LEMMA BlocksAreFinite == IsFiniteSet(PoolBlocks) /\ IsFiniteSet(PageIds)
<1>1. IsFiniteSet(PageIds) /\ IsFiniteSet(1..PageBlocks)
  BY PoolAssumption, FS_Interval DEF PageIds
<1> DEFINE pairs == PageIds \X (1..PageBlocks)
           f == [x \in pairs |-> [slot |-> x[1], index |-> x[2]]]
<1>2. IsFiniteSet(pairs)
  BY <1>1, FS_Product
<1>3. f \in Surjection(pairs, PoolBlocks)
  <2>1. f \in [pairs -> PoolBlocks]
    BY DEF PoolBlocks
  <2>2. ASSUME NEW b \in PoolBlocks PROVE \E x \in pairs : f[x] = b
    <3>1. <<b.slot, b.index>> \in pairs /\ b = [slot |-> b.slot, index |-> b.index]
      BY DEF PoolBlocks
    <3>2. f[<<b.slot, b.index>>] = b
      BY <3>1
    <3> QED
      BY <3>1, <3>2
  <2> HIDE DEF f, pairs
  <2> QED
    BY <2>1, <2>2 DEF Surjection
<1> HIDE DEF f, pairs
<1>4. IsFiniteSet(PoolBlocks)
  BY <1>2, <1>3, FS_Surjection
<1> QED
  BY <1>1, <1>4

(* One element more makes a set's count one more.                            *)
LEMMA CountOneMore ==
    ASSUME NEW S, IsFiniteSet(S), NEW e, e \notin S
    PROVE  Cardinality(S \cup {e}) = Cardinality(S) + 1 /\ Cardinality(S) \in Nat
  BY FS_AddElement, FS_CardinalityType

(* One element less makes it one less.                                       *)
LEMMA CountOneLess ==
    ASSUME NEW S, IsFiniteSet(S), NEW e \in S
    PROVE  Cardinality(S \ {e}) = Cardinality(S) - 1 /\ Cardinality(S) \in Nat \ {0}
  BY FS_RemoveElement, FS_CardinalityType

(* The busy blocks of a page can be counted.                                 *)
LEMMA BusyOfFinite ==
    ASSUME NEW p, NEW slot PROVE IsFiniteSet(BusyOf(p, slot)) /\ Cardinality(BusyOf(p, slot)) \in Nat
  BY BlocksAreFinite, FS_Subset, FS_CardinalityType DEF BusyOf

(* What a page that gives a block is after it.                               *)
PageGave(p, i, b, flag, q) ==
    /\ q.free = p.free /\ q.next = p.next /\ q.roomy = p.roomy /\ q.current = i
    /\ q.retained = IF p.pages[i].retained THEN p.retained - 1 ELSE p.retained
    /\ q.flags = [p.flags EXCEPT ![b] = flag] /\ q.link = [p.link EXCEPT ![b] = 0]
    /\ \A j \in PageIds : j # i => q.pages[j] = p.pages[j]
    /\ q.pages[i].slot = p.pages[i].slot /\ q.pages[i].busy = p.pages[i].busy + 1
    /\ q.pages[i].retained = FALSE
    /\ q.pages[i].bump = IF Pops(p, i) THEN p.pages[i].bump ELSE p.pages[i].bump + 1
    /\ q.pages[i].head = IF Pops(p, i) THEN p.link[b] ELSE 0
    /\ q.pages[i].bump \in 0..PageBlocks /\ q.pages[i].head \in 0..PageBlocks => q \in Pools

(* Taking a block changes what a page and its block say, and nothing else.   *)
LEMMA TakenIs ==
    ASSUME NEW p \in Pools, NEW i \in PageIds, NEW flag \in Flags, NEW b \in PoolBlocks,
           b = Taken(p, i, flag).block
    PROVE  PageGave(p, i, b, flag, Taken(p, i, flag).pool)
<1> DEFINE q == Taken(p, i, flag).pool
<1> DEFINE page == p.pages[i]
           now == [page EXCEPT !.busy = @ + 1, !.retained = FALSE,
                               !.head = IF Pops(p, i) THEN p.link[b] ELSE 0,
                               !.bump = IF Pops(p, i) THEN @ ELSE @ + 1]
<1>1. page \in PagesOf
  BY DEF Pools
<1>2. /\ now.slot = page.slot /\ now.busy = page.busy + 1 /\ now.retained = FALSE
      /\ now.bump = IF Pops(p, i) THEN page.bump ELSE page.bump + 1
      /\ now.head = IF Pops(p, i) THEN p.link[b] ELSE 0
      /\ now.bump \in 0..PageBlocks /\ now.head \in 0..PageBlocks => now \in PagesOf
  <2>1. page.slot \in PageIds \cup {-1} /\ page.busy \in Nat
    BY <1>1 DEF PagesOf
  <2>2. /\ now.slot = page.slot /\ now.busy = page.busy + 1 /\ now.retained = FALSE
        /\ now.bump = (IF Pops(p, i) THEN page.bump ELSE page.bump + 1)
        /\ now.head = IF Pops(p, i) THEN p.link[b] ELSE 0
        /\ now = [slot |-> now.slot, busy |-> now.busy, bump |-> now.bump, head |-> now.head,
                  retained |-> now.retained]
    <3> DEFINE bump == IF Pops(p, i) THEN page.bump ELSE page.bump + 1
               head == IF Pops(p, i) THEN p.link[b] ELSE 0
               busy == page.busy + 1
    <3>1. now = [page EXCEPT !.busy = busy, !.retained = FALSE, !.head = head, !.bump = bump]
      OBVIOUS
    <3>2. now.bump = bump /\ now.head = head /\ now.busy = busy /\ now.retained = FALSE
          /\ now.slot = page.slot
          /\ now = [slot |-> now.slot, busy |-> now.busy, bump |-> now.bump, head |-> now.head,
                    retained |-> now.retained]
      <4> HIDE DEF page, bump, head, busy, now
      <4> QED
        BY <1>1, <3>1 DEF PagesOf
    <3> QED
      BY <3>2
  <2> HIDE DEF page, now
  <2>3. now.busy \in Nat
    BY <2>1, <2>2
  <2> QED
    BY <2>1, <2>2, <2>3 DEF PagesOf
<1>3. q = [p EXCEPT !.pages[i] = now,
            !.retained = IF page.retained THEN @ - 1 ELSE @,
            !.current = i, !.flags[b] = flag, !.link[b] = 0]
  BY DEF Taken
<1> HIDE DEF now, q
<1>4. /\ q.pages = [p.pages EXCEPT ![i] = now]
      /\ q.free = p.free /\ q.next = p.next /\ q.roomy = p.roomy /\ q.current = i
      /\ q.retained = IF page.retained THEN p.retained - 1 ELSE p.retained
      /\ q.flags = [p.flags EXCEPT ![b] = flag] /\ q.link = [p.link EXCEPT ![b] = 0]
      /\ q = [pages |-> q.pages, current |-> q.current, free |-> q.free, next |-> q.next, roomy |-> q.roomy,
              retained |-> q.retained, flags |-> q.flags, link |-> q.link]
  BY <1>3 DEF Pools
<1>5. q.pages[i] = now /\ \A j \in PageIds : j # i => q.pages[j] = p.pages[j]
  BY <1>4 DEF Pools
<1>6. ASSUME now \in PagesOf PROVE q \in Pools
  <2>1. p.pages \in [PageIds -> PagesOf] /\ p.retained \in Int /\ p.flags \in [PoolBlocks -> Flags]
        /\ p.link \in [PoolBlocks -> 0..Corrupt] /\ p.free \in Seq(PageIds)
        /\ p.next \in 0..PoolPages /\ p.roomy \in SUBSET PageIds
    BY DEF Pools
  <2>2. q.pages \in [PageIds -> PagesOf] /\ q.flags \in [PoolBlocks -> Flags]
    BY <1>4, <1>6, <2>1
  <2>3. q.link \in [PoolBlocks -> 0..Corrupt] /\ q.retained \in Int
    BY <1>4, <2>1, PoolAssumption DEF Corrupt
  <2> QED
    BY <1>4, <2>1, <2>2, <2>3 DEF Pools
<1> QED
  BY <1>2, <1>4, <1>5, <1>6 DEF PageGave, q

(* A slot belongs to one page: what is asked of a block is asked of its page. *)
LEMMA SlotsTell ==
    ASSUME NEW p, p \in Pools, PagesApart(p), NEW i \in PageIds, There(p, i), NEW k \in 1..PageBlocks
    PROVE  /\ At(p, i, k) \in PoolBlocks /\ At(p, i, k).slot = p.pages[i].slot /\ At(p, i, k).index = k
           /\ \A j \in PageIds : j # i => p.pages[j].slot # p.pages[i].slot
  BY DEF Pools, PagesOf, There, At, PoolBlocks, PagesApart

(* What a sequence is made of.                                               *)
LEMMA ElementsAre ==
    ASSUME NEW S, NEW s \in Seq(S)
    PROVE  Len(s) \in Nat /\ \A k \in 1..Len(s) : s[k] \in S
  OBVIOUS

(* The free list of a page that nothing was done to stays what it was.       *)
LEMMA ChainStays ==
    ASSUME NEW p, NEW q, NEW i, NEW list, Chain(p, i, list), q.pages[i] = p.pages[i],
           \A k \in 1..PageBlocks : /\ q.flags[At(p, i, k)] = p.flags[At(p, i, k)]
                                    /\ q.link[At(p, i, k)] = p.link[At(p, i, k)],
           p.pages[i].bump \in 0..PageBlocks
    PROVE  Chain(q, i, list)
<1>1. \A k : At(q, i, k) = At(p, i, k)
  BY DEF At
<1>2. ASSUME NEW k \in 1..Len(list) PROVE list[k] \in 1..PageBlocks
  BY ElementsAre DEF Chain
<1>3. \A x \in 1..p.pages[i].bump : x \in 1..PageBlocks
  BY PoolAssumption
<1>4. ASSUME NEW k \in 1..Len(list)
      PROVE  /\ q.flags[At(q, i, list[k])] = "free" /\ list[k] <= q.pages[i].bump
             /\ q.link[At(q, i, list[k])] = IF k = 1 THEN 0 ELSE list[k - 1]
  BY <1>2, <1>1 DEF Chain
<1>5. ASSUME NEW x \in 1..q.pages[i].bump, ~Busy(q, At(q, i, x))
      PROVE  \E k \in 1..Len(list) : list[k] = x
  BY <1>3, <1>1, <1>5 DEF Busy, Chain
<1>6. /\ list \in Seq(1..PageBlocks)
      /\ \A j \in 1..Len(list) : \A k \in 1..Len(list) : list[j] = list[k] => j = k
      /\ q.pages[i].head = IF Len(list) = 0 THEN 0 ELSE list[Len(list)]
  BY DEF Chain
<1> QED
  BY <1>4, <1>5, <1>6 DEF Chain

(* A page that gives a block gives one that nobody has.                      *)
GaveBlock(p, r, flag, spoiled) ==
    /\ r.block \in PoolBlocks /\ ~Busy(p, r.block)
    /\ r.pool.flags = [p.flags EXCEPT ![r.block] = flag]
    /\ PoolGood(r.pool, spoiled)

(* A page that gives a block gives one that nobody has, be it from its free  *)
(* list or from behind all that it gave out.                                 *)
LEMMA TakenKeeps ==
    ASSUME NEW p, NEW spoiled, PoolGood(p, spoiled), NEW i \in PageIds, There(p, i), Gives(p, i),
           NEW flag \in BusyFlags
    PROVE  GaveBlock(p, Taken(p, i, flag), flag, spoiled)
<1> DEFINE page == p.pages[i]
<1>1. PICK b : b = Taken(p, i, flag).block
  OBVIOUS
<1>2. PICK q : q = Taken(p, i, flag).pool
  OBVIOUS
<1>3. /\ p \in Pools /\ PagesListed(p) /\ PagesApart(p) /\ BusyGiven(p) /\ BusyCounted(p)
      /\ RoomIsThere(p) /\ RetainedCounted(p)
  BY DEF PoolGood
<1>4. /\ page.slot \in PageIds /\ page.busy \in Nat /\ page.bump \in 0..PageBlocks
      /\ page.head \in 0..PageBlocks /\ page.retained \in BOOLEAN /\ page.head <= page.bump
  BY <1>3 DEF Pools, PagesOf, There, PagesListed
<1>5. /\ Pops(p, i) => b = At(p, i, page.head) /\ page.head \in 1..PageBlocks
                       /\ p.flags[b] = "free" /\ p.link[b] <= page.bump
      /\ ~Pops(p, i) => b = At(p, i, page.bump + 1) /\ page.bump + 1 \in 1..PageBlocks
  <2>1. CASE Pops(p, i)
    <3>1. b = HeadOf(p, i) /\ HeadOf(p, i) = At(p, i, page.head)
      BY <1>1, <2>1 DEF Taken, HeadOf, At
    <3>2. page.head \in 1..PageBlocks
      <4>1. page.head # 0
        BY <2>1 DEF Pops
      <4> HIDE DEF page
      <4> QED
        BY <1>4, <4>1
    <3> QED
      BY <2>1, <3>1, <3>2 DEF Pops
  <2>2. CASE ~Pops(p, i)
    <3>1. b = At(p, i, page.bump + 1)
      BY <1>1, <2>2 DEF Taken, At
    <3>2. page.bump < PageBlocks
      BY <2>2 DEF Gives
    <3>3. page.bump + 1 \in 1..PageBlocks
      <4> HIDE DEF page
      <4> QED
        BY <1>4, <3>2, PoolAssumption
    <3> QED
      BY <2>2, <3>1, <3>3
  <2> QED
    BY <2>1, <2>2
<1>6. /\ b \in PoolBlocks /\ b.slot = page.slot
      /\ Pops(p, i) => b.index = page.head
      /\ ~Pops(p, i) => b.index = page.bump + 1
      /\ \A j \in PageIds : j # i => p.pages[j].slot # page.slot
  BY <1>3, <1>5, SlotsTell
<1>7. ~Busy(p, b)
  <2>1. CASE Pops(p, i)
    BY <1>5, <2>1 DEF Busy, BusyFlags
  <2>2. CASE ~Pops(p, i)
    <3>1. SUFFICES ASSUME Busy(p, b) PROVE FALSE
      OBVIOUS
    <3>2. PICK j \in PageIds : p.pages[j].slot = b.slot /\ b.index <= p.pages[j].bump
      BY <1>3, <1>6, <3>1 DEF BusyGiven
    <3>3. j = i
      BY <1>6, <3>2
    <3>4. page.bump + 1 <= page.bump
      BY <1>6, <2>2, <3>2, <3>3
    <3> HIDE DEF page
    <3> QED
      BY <1>4, <3>4
  <2> QED
    BY <2>1, <2>2
<1>8. /\ q.free = p.free /\ q.next = p.next /\ q.roomy = p.roomy /\ q.current = i
      /\ q.retained = IF page.retained THEN p.retained - 1 ELSE p.retained
      /\ q.flags = [p.flags EXCEPT ![b] = flag] /\ q.link = [p.link EXCEPT ![b] = 0]
      /\ \A j \in PageIds : j # i => q.pages[j] = p.pages[j]
      /\ q.pages[i].slot = page.slot /\ q.pages[i].busy = page.busy + 1
      /\ q.pages[i].retained = FALSE
      /\ q.pages[i].bump = IF Pops(p, i) THEN page.bump ELSE page.bump + 1
      /\ q.pages[i].head = IF Pops(p, i) THEN p.link[b] ELSE 0
      /\ q.pages[i].bump \in 0..PageBlocks /\ q.pages[i].head \in 0..PageBlocks => q \in Pools
  <2>1. flag \in Flags
    BY DEF BusyFlags, Flags
  <2> QED
    <3>1. PageGave(p, i, b, flag, q)
      BY <1>1, <1>2, <1>3, <1>6, <2>1, TakenIs
    <3> QED
      BY <3>1 DEF PageGave
<1>9. p.flags \in [PoolBlocks -> Flags] /\ p.link \in [PoolBlocks -> 0..Corrupt] /\ p.retained \in Int
      /\ p.link[b] \in 0..Corrupt /\ p.free \in Seq(PageIds)
  BY <1>3, <1>6 DEF Pools
<1>10. /\ q.pages[i].bump \in 0..PageBlocks /\ q.pages[i].head \in 0..PageBlocks
       /\ q.pages[i].head <= q.pages[i].bump /\ page.bump <= q.pages[i].bump
       /\ b.index <= q.pages[i].bump
  <2> HIDE DEF page
  <2>1. CASE Pops(p, i)
    BY <1>5, <1>9, <2>1, PoolAssumption, <1>4, <1>6, <1>8 DEF Corrupt
  <2>2. CASE ~Pops(p, i)
    BY <1>4, <1>5, <1>6, <1>8, <2>2, PoolAssumption
  <2> QED
    BY <2>1, <2>2
<1>11. q \in Pools
  BY <1>8, <1>10
<1>12. \A j \in PageIds : q.pages[j].slot = p.pages[j].slot /\ (There(q, j) <=> There(p, j))
  BY <1>8 DEF There
<1>13. \A c \in PoolBlocks : /\ Busy(q, c) <=> Busy(p, c) \/ c = b
                             /\ c # b => q.flags[c] = p.flags[c] /\ q.link[c] = p.link[c]
  BY <1>6, <1>8, <1>9 DEF Busy, BusyFlags
<1>14. PagesListed(q)
  <2>1. \A j \in PageIds : There(q, j) =>
            j < q.next /\ (\A k \in 1..Len(q.free) : q.free[k] # j) /\ q.pages[j].head <= q.pages[j].bump
    BY <1>3, <1>8, <1>10, <1>12 DEF PagesListed
  <2>2. \A j \in PageIds : ~There(q, j) =>
            q.pages[j] = NoPage /\ (j < q.next => \E k \in 1..Len(q.free) : q.free[k] = j)
    <3> SUFFICES ASSUME NEW j \in PageIds, ~There(q, j)
                 PROVE  q.pages[j] = NoPage /\ (j < q.next => \E k \in 1..Len(q.free) : q.free[k] = j)
      OBVIOUS
    <3>1. ~There(p, j) /\ j # i
      BY <1>12
    <3> QED
      BY <1>3, <1>8, <3>1 DEF PagesListed
  <2>3. /\ \A k \in 1..Len(q.free) : q.free[k] < q.next
        /\ \A j \in 1..Len(q.free) : \A k \in 1..Len(q.free) : q.free[j] = q.free[k] => j = k
    BY <1>3, <1>8 DEF PagesListed
  <2> QED
    BY <2>1, <2>2, <2>3 DEF PagesListed
<1>15. PagesApart(q)
  BY <1>3, <1>12 DEF PagesApart
<1>16. BusyGiven(q)
  <2> SUFFICES ASSUME NEW c \in PoolBlocks, Busy(q, c)
               PROVE  \E j \in PageIds : q.pages[j].slot = c.slot /\ c.index <= q.pages[j].bump
    BY DEF BusyGiven
  <2>1. CASE c = b
    BY <1>6, <1>10, <1>12, <2>1
  <2>2. CASE c # b
    <3>1. PICK j \in PageIds : p.pages[j].slot = c.slot /\ c.index <= p.pages[j].bump
      BY <1>3, <1>13, <2>2 DEF BusyGiven
    <3>2. CASE j = i
      <4>1. c.index \in Nat
        BY PoolAssumption DEF PoolBlocks
      <4>2. c.index <= q.pages[i].bump
        <5> HIDE DEF page
        <5>1. c.index <= page.bump
          BY <3>1, <3>2 DEF page
        <5> QED
          BY <1>4, <1>10, <4>1, <5>1
      <4> QED
        BY <1>12, <3>1, <3>2, <4>2
    <3>3. CASE j # i
      BY <1>8, <3>1, <3>3
    <3> QED
      BY <3>2, <3>3
  <2> QED
    BY <2>1, <2>2
<1>17. BusyCounted(q)
  <2> SUFFICES ASSUME NEW j \in PageIds, There(q, j)
               PROVE  q.pages[j].busy = Cardinality(BusyOf(q, q.pages[j].slot))
    BY DEF BusyCounted
  <2>1. There(p, j) /\ q.pages[j].slot = p.pages[j].slot
    BY <1>12
  <2>2. p.pages[j].busy = Cardinality(BusyOf(p, p.pages[j].slot))
    BY <1>3, <2>1 DEF BusyCounted
  <2>3. CASE j = i
    <3>1. BusyOf(q, page.slot) = BusyOf(p, page.slot) \cup {b}
      BY <1>6, <1>13 DEF BusyOf
    <3>2. b \notin BusyOf(p, page.slot)
      BY <1>7 DEF BusyOf
    <3>3. Cardinality(BusyOf(q, page.slot)) = Cardinality(BusyOf(p, page.slot)) + 1
      BY <3>1, <3>2, BusyOfFinite, CountOneMore
    <3> QED
      BY <1>8, <2>1, <2>2, <2>3, <3>3
  <2>4. CASE j # i
    <3>1. BusyOf(q, p.pages[j].slot) = BusyOf(p, p.pages[j].slot)
      BY <1>6, <1>13, <2>4 DEF BusyOf
    <3> QED
      BY <1>8, <2>2, <2>4, <3>1
  <2> QED
    BY <2>3, <2>4
<1>18. RoomIsThere(q)
  BY <1>3, <1>8, <1>12 DEF RoomIsThere, Pools
<1>19. RetainedCounted(q)
  <2> DEFINE R == {j \in PageIds : p.pages[j].retained}
             S == {j \in PageIds : q.pages[j].retained}
  <2>1. /\ p.retained = Cardinality(R) /\ p.retained <= RetainedPages
        /\ \A j \in PageIds : p.pages[j].retained => p.pages[j].busy = 0
    BY <1>3 DEF RetainedCounted
  <2>2. S = R \ {i}
    BY <1>8
  <2>3. IsFiniteSet(R)
    BY BlocksAreFinite, FS_Subset
  <2>4. q.retained = Cardinality(S)
    <3>1. CASE page.retained
      <4>1. i \in R
        BY <3>1
      <4> HIDE DEF R, S
      <4> QED
        BY <1>8, <2>1, <2>2, <2>3, <3>1, <4>1, CountOneLess
    <3>2. CASE ~page.retained
      BY <2>2, <3>2, <1>8, <2>1
    <3> QED
      BY <3>1, <3>2
  <2>5. q.retained <= RetainedPages
    BY <1>8, <1>9, <2>1, PoolAssumption
  <2>6. \A j \in PageIds : q.pages[j].retained => q.pages[j].busy = 0
    BY <1>8, <2>1
  <2> QED
    BY <2>4, <2>5, <2>6 DEF RetainedCounted
<1>20. ASSUME ~spoiled PROVE RoomIsKnown(q)
  <2>1. RoomIsKnown(p)
    BY <1>20 DEF PoolGood
  <2> SUFFICES ASSUME NEW j \in PageIds, There(q, j), q.pages[j].busy < PageBlocks
               PROVE  j \in q.roomy
    BY DEF RoomIsKnown
  <2>2. There(p, j) /\ q.pages[j].busy < PageBlocks
    BY <1>12
  <2>3. p.pages[j].busy < PageBlocks
      <4>1. CASE j = i
        <5>1. page.busy + 1 < PageBlocks
          BY <1>8, <2>2, <4>1
        <5>2. page.busy < PageBlocks
          <6> HIDE DEF page
          <6> QED
            BY <1>4, <5>1, PoolAssumption
        <5> QED
          BY <4>1, <5>2
      <4>2. CASE j # i
        BY <1>8, <2>2, <4>2
      <4> QED
        BY <4>1, <4>2
  <2> QED
    BY <1>8, <2>1, <2>2, <2>3 DEF RoomIsKnown
<1>21. ASSUME ~spoiled PROVE Chained(q)
  <2>1. Chained(p)
    BY <1>21 DEF PoolGood
  <2> SUFFICES ASSUME NEW j \in PageIds, There(q, j) PROVE \E list : Chain(q, j, list)
    BY DEF Chained
  <2>2. PICK list : Chain(p, j, list)
    BY <1>12, <2>1 DEF Chained
  <2>3. \A k : At(q, j, k) = At(p, j, k)
    BY <1>12 DEF At
  <2>4. CASE j # i
    <3>1. \A k \in 1..PageBlocks : At(p, j, k) \in PoolBlocks /\ At(p, j, k) # b
      BY <1>3, <1>6, <1>12, <2>4, SlotsTell
    <3>2. \A k \in 1..PageBlocks : /\ q.flags[At(p, j, k)] = p.flags[At(p, j, k)]
                                   /\ q.link[At(p, j, k)] = p.link[At(p, j, k)]
      BY <1>13, <3>1
    <3>3. p.pages[j] \in PagesOf
      BY <1>3 DEF Pools
    <3>4. p.pages[j].bump \in 0..PageBlocks /\ q.pages[j] = p.pages[j]
      BY <1>8, <2>4, <3>3 DEF PagesOf
    <3> QED
      BY <2>2, <3>2, <3>4, ChainStays
  <2>5. CASE j = i
    <3> DEFINE n == Len(list)
    <3>1. /\ list \in Seq(1..PageBlocks) /\ n \in Nat
          /\ \A k \in 1..n : list[k] \in 1..PageBlocks
          /\ \A k \in 1..n : \A m \in 1..n : list[k] = list[m] => k = m
      BY <2>2, ElementsAre DEF Chain
    <3>2. ASSUME NEW k \in 1..n
          PROVE  /\ p.flags[At(p, i, list[k])] = "free" /\ list[k] <= page.bump
                 /\ p.link[At(p, i, list[k])] = IF k = 1 THEN 0 ELSE list[k - 1]
      BY <2>2, <2>5 DEF Chain
    <3>3. \A x \in 1..page.bump : ~Busy(p, At(p, i, x)) => \E k \in 1..n : list[k] = x
      BY <2>2, <2>5 DEF Chain
    <3>4. page.head = IF n = 0 THEN 0 ELSE list[n]
      BY <2>2, <2>5 DEF Chain
    <3>5. \A k \in 1..PageBlocks : At(p, i, k) \in PoolBlocks /\ At(p, i, k).index = k
      BY <1>3, <1>12, <2>5, SlotsTell
    <3> HIDE DEF n, page
    <3>6. CASE Pops(p, i)
      <4>1. n # 0 /\ b = At(p, i, list[n]) /\ list[n] = page.head
        BY <1>5, <3>4, <3>6
      <4>2. PICK less : less = Front(list)
        OBVIOUS
      <4>3. less \in Seq(1..PageBlocks) /\ Len(less) = n - 1 /\ \A k \in 1..(n - 1) : less[k] = list[k]
        <5>1. list # <<>>
          BY <3>1, <4>1 DEF n
        <5> QED
          BY <3>1, <4>2, <5>1, FrontIs DEF n
      <4>4. ASSUME NEW k \in 1..(n - 1)
            PROVE  /\ k \in 1..n /\ less[k] = list[k] /\ list[k] \in 1..PageBlocks
                   /\ At(p, i, list[k]) \in PoolBlocks /\ At(p, i, list[k]) # b
        BY <3>1, <4>1, <3>5, <4>3
      <4>5. \A k \in 1..(n - 1) : \A m \in 1..(n - 1) : less[k] = less[m] => k = m
        BY <3>1, <4>4
      <4>6. ASSUME NEW k \in 1..(n - 1)
            PROVE  /\ q.flags[At(q, i, less[k])] = "free" /\ less[k] <= q.pages[i].bump
                   /\ q.link[At(q, i, less[k])] = IF k = 1 THEN 0 ELSE less[k - 1]
        <5>1. q.flags[At(p, i, list[k])] = p.flags[At(p, i, list[k])]
              /\ q.link[At(p, i, list[k])] = p.link[At(p, i, list[k])]
          BY <1>13, <4>4
        <5>2. k # 1 => k - 1 \in 1..(n - 1)
          BY <3>1
        <5>3. k # 1 => less[k - 1] = list[k - 1]
          BY <4>3, <5>2
        <5>4. /\ p.flags[At(p, i, list[k])] = "free" /\ list[k] <= page.bump
              /\ p.link[At(p, i, list[k])] = IF k = 1 THEN 0 ELSE list[k - 1]
          BY <3>2, <4>4
        <5>5. q.pages[i].bump = page.bump
          BY <1>8, <3>6 DEF page
        <5> QED
          BY <2>3, <2>5, <4>4, <5>1, <5>3, <5>4, <5>5
      <4>7. ASSUME NEW x \in 1..q.pages[i].bump, ~Busy(q, At(q, i, x))
            PROVE  \E k \in 1..(n - 1) : less[k] = x
        <5>1. x \in 1..page.bump /\ x \in 1..PageBlocks
          BY <1>4, <1>8, <3>6, PoolAssumption DEF page
        <5>2. At(p, i, x) \in PoolBlocks /\ At(p, i, x) = At(q, i, x)
          BY <2>3, <2>5, <3>5, <5>1
        <5>3. ~Busy(p, At(p, i, x)) /\ At(p, i, x) # b
          BY <1>13, <4>7, <5>2
        <5>4. PICK k \in 1..n : list[k] = x
          BY <3>3, <5>1, <5>3
        <5>5. k # n
          BY <4>1, <5>3, <5>4
        <5>6. k \in 1..(n - 1)
          BY <3>1, <5>5
        <5> QED
          BY <4>3, <5>4, <5>6
      <4>8. q.pages[i].head = IF n - 1 = 0 THEN 0 ELSE less[n - 1]
        BY <1>8, <3>1, <3>6, <4>1, <3>2, <4>3
      <4>9. Chain(q, i, less)
        BY <4>3, <4>5, <4>6, <4>7, <4>8 DEF Chain
      <4> QED
        BY <2>5, <4>9
    <3>7. CASE ~Pops(p, i)
      <4>1. n = 0
        <5>1. SUFFICES ASSUME n # 0 PROVE FALSE
          OBVIOUS
        <5>2. n \in 1..n /\ page.head = list[n]
          BY <3>1, <3>4, <5>1
        <5>3. list[n] \in 1..PageBlocks /\ p.flags[At(p, i, list[n])] = "free"
          BY <3>1, <3>2, <5>2
        <5>4. p.link[At(p, i, list[n])] <= page.bump
          BY <3>2, <5>2, <1>4, PoolAssumption, <3>1, <5>1 DEF page
        <5>5. HeadOf(p, i) = At(p, i, list[n])
          BY <5>2 DEF HeadOf, At, page
        <5>6. p.pages[i].head # 0
          BY <5>2, <5>3 DEF page
        <5>7. Pops(p, i)
          BY <5>3, <5>4, <5>5, <5>6 DEF Pops, page
        <5> QED
          BY <3>7, <5>7
      <4>2. /\ q.pages[i].head = 0 /\ q.pages[i].bump = page.bump + 1
            /\ b = At(p, i, page.bump + 1) /\ page.bump + 1 \in 1..PageBlocks
        BY <1>5, <1>8, <3>7 DEF page
      <4>3. ASSUME NEW x \in 1..q.pages[i].bump, ~Busy(q, At(q, i, x)) PROVE FALSE
        <5>1. At(q, i, x) = At(p, i, x)
          BY <2>3, <2>5
        <5>2. x \in 1..page.bump \/ x = page.bump + 1
          BY <1>4, <4>2, PoolAssumption DEF page
        <5>3. CASE x = page.bump + 1
          BY <1>6, <1>13, <4>2, <4>3, <5>1, <5>3
        <5>4. CASE x \in 1..page.bump
          <6>1. x \in 1..PageBlocks
            BY <1>4, <5>4, PoolAssumption DEF page
          <6>2. ~Busy(p, At(p, i, x))
            BY <1>13, <3>5, <4>3, <5>1, <6>1
          <6>3. \E k \in 1..n : list[k] = x
            BY <3>3, <5>4, <6>2
          <6> QED
            BY <4>1, <6>3
        <5> QED
          BY <5>2, <5>3, <5>4
      <4>4. Chain(q, i, <<>>)
        BY <4>2, <4>3 DEF Chain
      <4> QED
        BY <2>5, <4>4
    <3> QED
      BY <3>6, <3>7
  <2> QED
    BY <2>4, <2>5
<1>22. PoolGood(q, spoiled)
  BY <1>11, <1>14, <1>15, <1>16, <1>17, <1>18, <1>19, <1>20, <1>21 DEF PoolGood
<1> QED
  BY <1>1, <1>2, <1>6, <1>7, <1>8, <1>22 DEF GaveBlock

(* A page that has nothing to give has an empty free list, if it is whole.   *)
LEMMA NothingLeft ==
    ASSUME NEW p \in Pools, NEW i \in PageIds, NEW list, Chain(p, i, list), ~Pops(p, i)
    PROVE  list = <<>> /\ p.pages[i].head = 0
<1> DEFINE n == Len(list)
<1>1. list \in Seq(1..PageBlocks)
  BY DEF Chain
<1>2. n \in Nat /\ \A k \in 1..n : list[k] \in 1..PageBlocks
  BY <1>1, ElementsAre
<1>3. n = 0
  <2>1. SUFFICES ASSUME n # 0 PROVE FALSE
    OBVIOUS
  <2>2. n \in 1..n /\ p.pages[i].head = list[n]
    BY <1>2, <2>1 DEF Chain
  <2>3. list[n] \in 1..PageBlocks
    BY <1>2, <2>2
  <2>4. p.flags[At(p, i, list[n])] = "free"
    BY <2>2 DEF Chain
  <2>5. p.link[At(p, i, list[n])] <= p.pages[i].bump
    <3>1. p.pages[i] \in PagesOf
      BY DEF Pools
    <3>2. p.pages[i].bump \in 0..PageBlocks
      BY <3>1 DEF PagesOf
    <3>3. CASE n = 1
      BY <2>2, <3>3, <3>2, PoolAssumption DEF Chain
    <3>4. CASE n # 1
      <4>1. n - 1 \in 1..n
        BY <1>2, <2>1, <3>4
      <4>2. list[n - 1] <= p.pages[i].bump
        BY <4>1 DEF Chain
      <4>3. p.link[At(p, i, list[n])] = list[n - 1]
        BY <2>2, <3>4 DEF Chain
      <4> QED
        BY <4>2, <4>3
    <3> QED
      BY <3>3, <3>4
  <2>6. HeadOf(p, i) = At(p, i, list[n]) /\ p.pages[i].head # 0
    BY <2>2, <2>3 DEF HeadOf, At
  <2>7. Pops(p, i)
    BY <2>4, <2>5, <2>6 DEF Pops
  <2> QED
    BY <2>7
<1> QED
  BY <1>1, <1>3 DEF Chain

(* A page that gives nothing has all its blocks busy, if it is whole.        *)
LEMMA FullPage ==
    ASSUME NEW p, PoolGood(p, FALSE), NEW i \in PageIds, There(p, i), ~Gives(p, i)
    PROVE  p.pages[i].busy >= PageBlocks /\ p.pages[i].head = 0
<1>1. /\ p \in Pools /\ PagesApart(p) /\ BusyCounted(p) /\ Chained(p)
  BY DEF PoolGood
<1>2. PICK list : Chain(p, i, list)
  BY <1>1 DEF Chained
<1>3. list = <<>> /\ p.pages[i].head = 0 /\ ~(p.pages[i].bump < PageBlocks)
  BY <1>1, <1>2, NothingLeft DEF Gives
<1>4. p.pages[i] \in PagesOf
  BY <1>1 DEF Pools
<1>5. p.pages[i].bump = PageBlocks
  BY <1>3, <1>4, PoolAssumption DEF PagesOf
<1>6. \A x \in 1..PageBlocks : Busy(p, At(p, i, x))
  BY <1>2, <1>3, <1>5 DEF Chain
<1> DEFINE f == [x \in 1..PageBlocks |-> At(p, i, x)]
           S == BusyOf(p, p.pages[i].slot)
<1>7. \A x \in 1..PageBlocks : At(p, i, x) \in S /\ At(p, i, x).index = x
  BY <1>1, <1>6, SlotsTell DEF BusyOf
<1>8. f \in Injection(1..PageBlocks, S)
  <2>1. f \in [1..PageBlocks -> S]
    BY <1>7
  <2>2. \A x, y \in 1..PageBlocks : f[x] = f[y] => x = y
    BY <1>7
  <2> HIDE DEF f, S
  <2> QED
    BY <2>1, <2>2 DEF Injection, IsInjective
<1>9. IsFiniteSet(1..PageBlocks) /\ Cardinality(1..PageBlocks) = PageBlocks
  BY FS_Interval, PoolAssumption
<1>10. IsFiniteSet(S)
  BY BusyOfFinite
<1> HIDE DEF f, S
<1>11. Cardinality(1..PageBlocks) <= Cardinality(S)
  BY <1>8, <1>9, <1>10, FS_Injection
<1>12. p.pages[i].busy = Cardinality(S)
  BY <1>1 DEF BusyCounted, S
<1> QED
  BY <1>3, <1>9, <1>11, <1>12, PoolAssumption

(* Pages that gave nothing are roomy no more, and abandon their free lists.  *)
LEMMA WithoutKeeps ==
    ASSUME NEW p, NEW spoiled, PoolGood(p, spoiled), NEW failed, failed \subseteq PageIds,
           \A i \in failed : There(p, i) /\ ~Gives(p, i)
    PROVE  /\ PoolGood(WithoutPages(p, failed), spoiled)
           /\ WithoutPages(p, failed).flags = p.flags
           /\ WithoutPages(p, failed).current = NoIndex
           /\ WithoutPages(p, failed).roomy = p.roomy \ failed
           /\ \A i \in PageIds \ failed : WithoutPages(p, failed).pages[i] = p.pages[i]
           /\ WithoutPages(p, failed).link = p.link
<1>1. PICK q : q = WithoutPages(p, failed)
  OBVIOUS
<1>2. /\ p \in Pools /\ PagesListed(p) /\ PagesApart(p) /\ BusyGiven(p) /\ BusyCounted(p)
      /\ RoomIsThere(p) /\ RetainedCounted(p)
  BY DEF PoolGood
<1>3. /\ q.pages = [i \in PageIds |-> IF i \in failed THEN [p.pages[i] EXCEPT !.head = 0] ELSE p.pages[i]]
      /\ q.current = NoIndex /\ q.roomy = p.roomy \ failed /\ q.free = p.free /\ q.next = p.next
      /\ q.retained = p.retained /\ q.flags = p.flags /\ q.link = p.link
      /\ q = [pages |-> q.pages, current |-> q.current, free |-> q.free, next |-> q.next, roomy |-> q.roomy,
              retained |-> q.retained, flags |-> q.flags, link |-> q.link]
  BY <1>2, <1>1 DEF Pools, WithoutPages
<1>4. ASSUME NEW i \in PageIds
      PROVE  /\ q.pages[i] \in PagesOf /\ q.pages[i].slot = p.pages[i].slot
             /\ q.pages[i].busy = p.pages[i].busy /\ q.pages[i].bump = p.pages[i].bump
             /\ q.pages[i].retained = p.pages[i].retained
             /\ q.pages[i].head = IF i \in failed THEN 0 ELSE p.pages[i].head
             /\ p.pages[i].head = 0 => q.pages[i] = p.pages[i]
             /\ i \notin failed => q.pages[i] = p.pages[i]
             /\ p.pages[i].bump \in 0..PageBlocks
  <2>1. p.pages[i] \in PagesOf
    BY <1>2 DEF Pools
  <2>2. q.pages[i] = IF i \in failed THEN [p.pages[i] EXCEPT !.head = 0] ELSE p.pages[i]
    BY <1>3
  <2> QED
    BY <2>1, <2>2, PoolAssumption DEF PagesOf
<1>5. q \in Pools
  BY <1>3, <1>4, <1>2 DEF Pools
<1>6. \A i \in PageIds : There(q, i) <=> There(p, i)
  BY <1>4 DEF There
<1>7. PagesListed(q)
  BY <1>6, <1>2, <1>4, PoolAssumption, <1>3 DEF PagesListed
<1>8. PagesApart(q)
  BY <1>2, <1>4, <1>6 DEF PagesApart
<1>9. \A b \in PoolBlocks : Busy(q, b) <=> Busy(p, b)
  BY <1>3 DEF Busy
<1>10. BusyGiven(q)
  BY <1>2, <1>4, <1>9 DEF BusyGiven
<1>11. BusyCounted(q)
  <2> SUFFICES ASSUME NEW i \in PageIds, There(q, i)
               PROVE  q.pages[i].busy = Cardinality(BusyOf(q, q.pages[i].slot))
    BY DEF BusyCounted
  <2>1. BusyOf(q, q.pages[i].slot) = BusyOf(p, p.pages[i].slot)
    BY <1>4, <1>9 DEF BusyOf
  <2>2. p.pages[i].busy = Cardinality(BusyOf(p, p.pages[i].slot))
    BY <1>2, <1>6 DEF BusyCounted
  <2> QED
    BY <1>4, <2>1, <2>2
<1>12. RoomIsThere(q)
  BY <1>2, <1>3, <1>6 DEF RoomIsThere, Pools
<1>13. RetainedCounted(q)
  BY <1>4, <1>2, <1>3 DEF RetainedCounted
<1>14. ASSUME ~spoiled PROVE RoomIsKnown(q) /\ Chained(q)
  <2>1. RoomIsKnown(p) /\ Chained(p) /\ PoolGood(p, FALSE)
    BY <1>14 DEF PoolGood
  <2>2. ASSUME NEW i \in failed PROVE p.pages[i].busy >= PageBlocks /\ p.pages[i].head = 0
    BY <2>1, FullPage
  <2>3. ASSUME NEW i \in PageIds, There(q, i), q.pages[i].busy < PageBlocks PROVE i \in q.roomy
    BY <1>2, <1>4, <1>6, <2>3, <2>2, PoolAssumption, <2>1, <1>3 DEF Pools, PagesOf, RoomIsKnown
  <2>4. ASSUME NEW i \in PageIds, There(q, i) PROVE \E list : Chain(q, i, list)
    <3>1. PICK list : Chain(p, i, list)
      BY <1>6, <2>1, <2>4 DEF Chained
    <3>2. q.pages[i] = p.pages[i] /\ p.pages[i].bump \in 0..PageBlocks
      BY <1>4, <2>2
    <3>3. Chain(q, i, list)
      BY <1>3, <3>1, <3>2, ChainStays
    <3> QED
      BY <3>3
  <2> QED
    BY <2>3, <2>4 DEF RoomIsKnown, Chained
<1>15. PoolGood(q, spoiled)
  BY <1>5, <1>7, <1>8, <1>10, <1>11, <1>12, <1>13, <1>14 DEF PoolGood
<1> QED
  BY <1>1, <1>3, <1>4, <1>15

(* As long as an index is without a page, so is a slot.                      *)
LEMMA SlotIsLeft ==
    ASSUME NEW p \in Pools, NEW i \in PageIds, ~There(p, i)
    PROVE  FirstSlot(p) \in PageIds /\ \A j \in PageIds : p.pages[j].slot # FirstSlot(p)
<1> DEFINE taken == {p.pages[j].slot : j \in PageIds}
           left == PageIds \ taken
           others == PageIds \ {i}
           f == [j \in others |-> p.pages[j].slot]
<1>1. IsFiniteSet(others) /\ Cardinality(others) = Cardinality(PageIds) - 1
      /\ Cardinality(PageIds) \in Nat \ {0}
  BY BlocksAreFinite, FS_RemoveElement, CountOneLess
<1>2. left # {}
  <2>1. SUFFICES ASSUME PageIds \subseteq taken PROVE FALSE
    OBVIOUS
  <2>2. \A b \in PageIds : b # -1
    BY PoolAssumption DEF PageIds
  <2>3. ASSUME NEW b \in PageIds PROVE \E j \in others : p.pages[j].slot = b
    BY <2>1, <2>2 DEF There
  <2> DEFINE used == {f[j] : j \in others}
  <2>4. f \in Surjection(others, used)
    BY DEF Surjection
  <2>5. IsFiniteSet(used) /\ Cardinality(used) <= Cardinality(others)
    <3> HIDE DEF f, others, used
    <3> QED
      BY <1>1, <2>4, FS_Surjection
  <2>6. PageIds \subseteq used
    BY <2>3
  <2>7. Cardinality(PageIds) <= Cardinality(used)
    <3> HIDE DEF used
    <3> QED
      BY <2>5, <2>6, FS_Subset
  <2>8. Cardinality(used) \in Nat
    <3> HIDE DEF used
    <3> QED
      BY <2>5, FS_CardinalityType
  <2> HIDE DEF used, others
  <2> QED
    BY <1>1, <2>5, <2>7, <2>8
<1>3. left \subseteq Nat
  BY PoolAssumption DEF PageIds
<1>4. FirstSlot(p) = Min(left)
  BY DEF FirstSlot
<1>5. \E x \in left : \A y \in left : x <= y
  <2> HIDE DEF left
  <2> QED
    BY <1>2, <1>3, LeastOf
<1>6. FirstSlot(p) \in left
  <2> HIDE DEF left
  <2> QED
    BY <1>4, <1>5 DEF Min
<1> QED
  BY <1>6

(* The index that a new page gets has none, and is kept for no other.        *)
IndexTaken(p, i, q) ==
    /\ q.free \in Seq(PageIds) /\ q.next \in 0..PoolPages
    /\ q.pages = p.pages /\ q.current = p.current /\ q.roomy = p.roomy /\ q.retained = p.retained
    /\ q.flags = p.flags /\ q.link = p.link
    /\ q = [pages |-> q.pages, current |-> q.current, free |-> q.free, next |-> q.next,
            roomy |-> q.roomy, retained |-> q.retained, flags |-> q.flags, link |-> q.link]
    /\ i \in PageIds /\ ~There(p, i) /\ i < q.next /\ p.next <= q.next
    /\ \A k \in 1..Len(q.free) : q.free[k] < q.next /\ q.free[k] # i /\ ~There(p, q.free[k])
    /\ \A j \in 1..Len(q.free) : \A k \in 1..Len(q.free) : q.free[j] = q.free[k] => j = k
    /\ \A j \in PageIds : ~There(p, j) /\ j < q.next /\ j # i =>
          \E k \in 1..Len(q.free) : q.free[k] = j

(* A new page gets an index that no page has.                                *)
LEMMA IndexedIs ==
    ASSUME NEW p \in Pools, PagesListed(p), NewIndex(p) \in PageIds
    PROVE  IndexTaken(p, NewIndex(p), Indexed(p))
<1> DEFINE q == Indexed(p)
           i == NewIndex(p)
<1>1. /\ p.free \in Seq(PageIds) /\ p.next \in 0..PoolPages
      /\ p = [pages |-> p.pages, current |-> p.current, free |-> p.free, next |-> p.next,
              roomy |-> p.roomy, retained |-> p.retained, flags |-> p.flags, link |-> p.link]
  BY DEF Pools
<1>2. Len(p.free) \in Nat /\ \A k \in 1..Len(p.free) : p.free[k] \in PageIds
  BY <1>1, ElementsAre
<1>3. \A k \in 1..Len(p.free) : p.free[k] < p.next /\ ~There(p, p.free[k])
  BY <1>2 DEF PagesListed
<1>4. CASE p.free # <<>>
  <2>1. PICK less : less = Front(p.free)
    OBVIOUS
  <2>2. PICK n : n = Len(p.free)
    OBVIOUS
  <2>3. /\ less \in Seq(PageIds) /\ Len(less) = n - 1 /\ n \in Nat \ {0}
        /\ \A k \in 1..Len(less) : less[k] = p.free[k]
        /\ i = p.free[n] /\ i \in PageIds
    BY <1>1, <1>4, <2>1, <2>2, FrontIs DEF NewIndex
  <2>4. q = [p EXCEPT !.free = less]
    BY <1>4, <2>1 DEF Indexed
  <2> HIDE DEF q, i
  <2>5. /\ q.free = less /\ q.next = p.next
        /\ q.pages = p.pages /\ q.current = p.current /\ q.roomy = p.roomy /\ q.retained = p.retained
        /\ q.flags = p.flags /\ q.link = p.link
        /\ q = [pages |-> q.pages, current |-> q.current, free |-> q.free, next |-> q.next,
                roomy |-> q.roomy, retained |-> q.retained, flags |-> q.flags, link |-> q.link]
    BY <1>1, <2>4 DEF Pools
  <2>6. n \in 1..n /\ \A k \in 1..Len(less) : k \in 1..n /\ k # n
    BY <2>3
  <2>7. ~There(p, i) /\ i < p.next /\ p.next <= p.next
    BY <1>1, <1>3, <2>2, <2>3, <2>6, PoolAssumption
  <2>8. \A k \in 1..Len(less) : less[k] < p.next /\ less[k] # i /\ ~There(p, less[k])
    <3> SUFFICES ASSUME NEW k \in 1..Len(less)
                 PROVE  less[k] < p.next /\ less[k] # i /\ ~There(p, less[k])
      OBVIOUS
    <3>1. k \in 1..n /\ less[k] = p.free[k] /\ k # n
      BY <2>3, <2>6
    <3>2. p.free[k] # p.free[n]
      BY <2>2, <2>6, <3>1 DEF PagesListed
    <3> QED
      BY <1>3, <2>2, <2>3, <3>1, <3>2
  <2>9. \A j \in 1..Len(less) : \A k \in 1..Len(less) : less[j] = less[k] => j = k
    <3> SUFFICES ASSUME NEW j \in 1..Len(less), NEW k \in 1..Len(less), less[j] = less[k]
                 PROVE  j = k
      OBVIOUS
    <3>1. j \in 1..Len(p.free) /\ k \in 1..Len(p.free) /\ p.free[j] = p.free[k]
      BY <2>2, <2>3, <2>6
    <3> QED
      BY <3>1 DEF PagesListed
  <2>10. ASSUME NEW j \in PageIds, ~There(p, j), j < p.next, j # i
         PROVE  \E k \in 1..Len(less) : less[k] = j
    <3>1. PICK k \in 1..Len(p.free) : p.free[k] = j
      BY <2>10 DEF PagesListed
    <3>2. k # n
      BY <2>3, <2>10, <3>1
    <3>3. k \in 1..Len(less)
      BY <2>2, <2>3, <3>1, <3>2
    <3> QED
      BY <2>3, <3>1, <3>3
  <2>11. IndexTaken(p, i, q)
    BY <1>1, <2>3, <2>5, <2>7, <2>8, <2>9, <2>10 DEF IndexTaken
  <2> QED
    BY <2>11 DEF q, i
<1>5. CASE p.free = <<>>
  <2>1. i = p.next /\ q = [p EXCEPT !.next = @ + 1]
    BY <1>5 DEF NewIndex, Indexed
  <2>2. i \in PageIds
    OBVIOUS
  <2> HIDE DEF q, i
  <2>3. /\ q.free = <<>> /\ q.next = p.next + 1
        /\ q.pages = p.pages /\ q.current = p.current /\ q.roomy = p.roomy /\ q.retained = p.retained
        /\ q.flags = p.flags /\ q.link = p.link
        /\ q = [pages |-> q.pages, current |-> q.current, free |-> q.free, next |-> q.next,
                roomy |-> q.roomy, retained |-> q.retained, flags |-> q.flags, link |-> q.link]
    BY <1>1, <1>5, <2>1 DEF Pools
  <2>4. q.next \in 0..PoolPages /\ i < q.next /\ p.next <= q.next /\ q.free \in Seq(PageIds)
    BY <1>1, <2>1, <2>2, <2>3, PoolAssumption DEF PageIds
  <2>5. ~There(p, i)
    BY <2>2, <1>1, <2>1, PoolAssumption DEF PagesListed
  <2>6. ASSUME NEW j \in PageIds, ~There(p, j), j < q.next, j # i PROVE FALSE
    BY <1>1, <2>1, <2>3, <2>6, PoolAssumption, <1>5 DEF PageIds, PagesListed
  <2>7. IndexTaken(p, i, q)
    BY <1>1, <2>2, <2>3, <2>4, <2>5, <2>6 DEF IndexTaken
  <2> QED
    BY <2>7 DEF q, i
<1> QED
  BY <1>4, <1>5

(* A pool with a new page is good, and the page has all its blocks to give.  *)
LEMMA GrowthKeeps ==
    ASSUME NEW p, NEW spoiled, PoolGood(p, spoiled), NewIndex(p) \in PageIds
    PROVE  /\ PoolGood(PoolGrown(p), spoiled) /\ PoolGrown(p).flags = p.flags
           /\ There(PoolGrown(p), NewIndex(p)) /\ Gives(PoolGrown(p), NewIndex(p))
<1>1. PICK q : q = PoolGrown(p)
  OBVIOUS
<1>2. PICK i : i = NewIndex(p)
  OBVIOUS
<1>3. PICK x : x = Indexed(p)
  OBVIOUS
<1>4. PICK slot : slot = FirstSlot(p)
  OBVIOUS
<1>5. /\ p \in Pools /\ PagesListed(p) /\ PagesApart(p) /\ BusyGiven(p) /\ BusyCounted(p)
      /\ RoomIsThere(p) /\ RetainedCounted(p)
  BY DEF PoolGood
<1>6. IndexTaken(p, i, x)
  BY <1>2, <1>3, <1>5, IndexedIs
<1>7. i \in PageIds /\ ~There(p, i)
  BY <1>6 DEF IndexTaken
<1>8. slot \in PageIds /\ (\A j \in PageIds : p.pages[j].slot # slot) /\ slot # -1
  BY <1>4, <1>5, <1>7, SlotIsLeft, PoolAssumption DEF PageIds
<1>9. PICK page : page = [NoPage EXCEPT !.slot = slot]
  OBVIOUS
<1>10. /\ page.slot = slot /\ page.busy = 0 /\ page.bump = 0 /\ page.head = 0 /\ page.retained = FALSE
       /\ page \in PagesOf
  <2>1. page = [slot |-> slot, busy |-> 0, bump |-> 0, head |-> 0, retained |-> FALSE]
    BY <1>9 DEF NoPage
  <2>2. 0 \in 0..PageBlocks
    BY PoolAssumption
  <2> QED
    BY <1>8, <2>1, <2>2 DEF PagesOf
<1>11. /\ p.pages \in [PageIds -> PagesOf] /\ p.roomy \in SUBSET PageIds
       /\ p.current \in PageIds \cup {NoIndex} /\ p.retained \in Int
       /\ p.flags \in [PoolBlocks -> Flags] /\ p.link \in [PoolBlocks -> 0..Corrupt]
  BY <1>5 DEF Pools
<1>12. /\ q.pages = [p.pages EXCEPT ![i] = page] /\ q.roomy = p.roomy \cup {i}
       /\ q.free = x.free /\ q.next = x.next /\ q.current = p.current /\ q.retained = p.retained
       /\ q.flags = p.flags /\ q.link = p.link
       /\ q = [pages |-> q.pages, current |-> q.current, free |-> q.free, next |-> q.next,
               roomy |-> q.roomy, retained |-> q.retained, flags |-> q.flags, link |-> q.link]
  BY <1>1, <1>2, <1>3, <1>4, <1>9, <1>6 DEF PoolGrown, IndexTaken
<1>13. q.pages[i] = page /\ \A j \in PageIds : j # i => q.pages[j] = p.pages[j]
  BY <1>7, <1>11, <1>12
<1>14. q \in Pools
  BY <1>7, <1>10, <1>11, <1>12, <1>6 DEF IndexTaken, Pools
<1>15. \A j \in PageIds : There(q, j) <=> There(p, j) \/ j = i
  BY <1>8, <1>10, <1>13 DEF There
<1>16. PagesListed(q)
  <2>1. ASSUME NEW j \in PageIds, There(q, j)
        PROVE  j < q.next /\ (\A k \in 1..Len(q.free) : q.free[k] # j) /\ q.pages[j].head <= q.pages[j].bump
    <3>1. CASE j = i
      BY <1>6, <1>12, <3>1, <1>10, <1>13 DEF IndexTaken
    <3>2. CASE j # i
      <4>1. There(p, j)
        BY <1>15, <2>1, <3>2
      <4>2. j < p.next /\ p.pages[j].head <= p.pages[j].bump
        BY <1>5, <4>1 DEF PagesListed
      <4>3. p.next <= q.next /\ \A k \in 1..Len(q.free) : ~There(p, q.free[k])
        BY <1>6, <1>12 DEF IndexTaken
      <4>4. p.next \in Int /\ q.next \in Int
        BY <1>5, <1>14, PoolAssumption DEF Pools
      <4>5. j < q.next
        BY <4>2, <4>3, <4>4, PoolAssumption DEF PageIds
      <4> QED
        BY <1>13, <3>2, <4>1, <4>2, <4>3, <4>5
    <3> QED
      BY <3>1, <3>2
  <2>2. ASSUME NEW j \in PageIds, ~There(q, j)
        PROVE  q.pages[j] = NoPage /\ (j < q.next => \E k \in 1..Len(q.free) : q.free[k] = j)
    BY <1>15, <2>2, <1>5, <1>13, <1>6, <1>12 DEF PagesListed, IndexTaken
  <2>3. /\ \A k \in 1..Len(q.free) : q.free[k] < q.next
        /\ \A j \in 1..Len(q.free) : \A k \in 1..Len(q.free) : q.free[j] = q.free[k] => j = k
    BY <1>6, <1>12 DEF IndexTaken
  <2> QED
    BY <2>1, <2>2, <2>3 DEF PagesListed
<1>17. PagesApart(q)
  <2> SUFFICES ASSUME NEW j \in PageIds, NEW k \in PageIds, There(q, j),
                      q.pages[j].slot = q.pages[k].slot
               PROVE  j = k
    BY DEF PagesApart
  <2>1. j # i /\ k = i => FALSE
    BY <1>8, <1>10, <1>13
  <2>2. j = i /\ k # i => FALSE
    BY <1>8, <1>10, <1>13
  <2>3. j # i /\ k # i => j = k
    BY <1>5, <1>13, <1>15 DEF PagesApart
  <2> QED
    BY <2>1, <2>2, <2>3
<1>18. \A b \in PoolBlocks : Busy(q, b) <=> Busy(p, b)
  BY <1>12 DEF Busy
<1>19. \A b \in PoolBlocks : Busy(p, b) =>
           b.slot # slot /\ \E j \in PageIds : j # i /\ p.pages[j].slot = b.slot /\ b.index <= p.pages[j].bump
  <2> SUFFICES ASSUME NEW b \in PoolBlocks, Busy(p, b)
               PROVE  b.slot # slot /\ \E j \in PageIds :
                          j # i /\ p.pages[j].slot = b.slot /\ b.index <= p.pages[j].bump
    OBVIOUS
  <2>1. PICK j \in PageIds : p.pages[j].slot = b.slot /\ b.index <= p.pages[j].bump
    BY <1>5 DEF BusyGiven
  <2>2. b.slot \in PageIds /\ b.slot # -1
    BY PoolAssumption DEF PoolBlocks, PageIds
  <2>3. j # i
    BY <1>7, <2>1, <2>2 DEF There
  <2> QED
    BY <1>8, <2>1, <2>3
<1>20. BusyGiven(q)
  BY <1>13, <1>18, <1>19 DEF BusyGiven
<1>21. BusyCounted(q)
  <2> SUFFICES ASSUME NEW j \in PageIds, There(q, j)
               PROVE  q.pages[j].busy = Cardinality(BusyOf(q, q.pages[j].slot))
    BY DEF BusyCounted
  <2>1. CASE j = i
    BY <1>18, <1>19, <1>10, <1>13, <2>1, FS_EmptySet DEF BusyOf
  <2>2. CASE j # i
    BY <1>18, <1>5, <1>15, <2>2, <1>13 DEF BusyOf, BusyCounted
  <2> QED
    BY <2>1, <2>2
<1>22. RoomIsThere(q)
  BY <1>5, <1>11, <1>7, <1>12, <1>15 DEF RoomIsThere
<1>23. RetainedCounted(q)
  <2>1. p.pages[i] = NoPage
    BY <1>5, <1>7 DEF PagesListed
  <2>2. ASSUME NEW j \in PageIds PROVE q.pages[j].retained <=> p.pages[j].retained
    BY <1>10, <1>13, <2>1 DEF NoPage
  <2>3. {j \in PageIds : q.pages[j].retained} = {j \in PageIds : p.pages[j].retained}
    BY <2>2
  <2>4. \A j \in PageIds : q.pages[j].retained => q.pages[j].busy = 0
    BY <1>5, <1>10, <1>13 DEF RetainedCounted
  <2> QED
    BY <1>5, <1>12, <2>3, <2>4 DEF RetainedCounted
<1>24. ASSUME ~spoiled PROVE RoomIsKnown(q) /\ Chained(q)
  <2>1. RoomIsKnown(p) /\ Chained(p)
    BY <1>24 DEF PoolGood
  <2>2. RoomIsKnown(q)
    <3> SUFFICES ASSUME NEW j \in PageIds, There(q, j), q.pages[j].busy < PageBlocks PROVE j \in q.roomy
      BY DEF RoomIsKnown
    <3>1. CASE j = i
      BY <1>12, <3>1
    <3>2. CASE j # i
      BY <1>12, <1>13, <1>15, <2>1, <3>2 DEF RoomIsKnown
    <3> QED
      BY <3>1, <3>2
  <2>3. ASSUME NEW j \in PageIds, There(q, j) PROVE \E list : Chain(q, j, list)
    <3>1. CASE j = i
      <4>1. Chain(q, i, <<>>)
        BY <1>10, <1>13 DEF Chain
      <4> QED
        BY <3>1, <4>1
    <3>2. CASE j # i
      <4>1. PICK list : Chain(p, j, list)
        BY <1>15, <2>1, <2>3, <3>2 DEF Chained
      <4>2. p.pages[j] \in PagesOf
        BY <1>11
      <4>3. q.pages[j] = p.pages[j] /\ p.pages[j].bump \in 0..PageBlocks
        BY <1>13, <3>2, <4>2 DEF PagesOf
      <4>4. Chain(q, j, list)
        BY <1>12, <4>1, <4>3, ChainStays
      <4> QED
        BY <4>4
    <3> QED
      BY <3>1, <3>2
  <2> QED
    BY <2>2, <2>3 DEF Chained
<1>25. PoolGood(q, spoiled)
  BY <1>14, <1>16, <1>17, <1>20, <1>21, <1>22, <1>23, <1>24 DEF PoolGood
<1>26. There(q, i) /\ Gives(q, i)
  BY <1>7, <1>10, <1>13, <1>15, PoolAssumption DEF Gives
<1> QED
  BY <1>1, <1>2, <1>12, <1>25, <1>26

(* A pool whose new page was refused keeps the index for the next time.      *)
LEMMA RefusalKeeps ==
    ASSUME NEW p, NEW spoiled, PoolGood(p, spoiled), NewIndex(p) \in PageIds,
           NEW q, q = [p EXCEPT !.free = Append(Indexed(p).free, NewIndex(p)),
                                !.next = Indexed(p).next]
    PROVE  PoolGood(q, spoiled) /\ q.flags = p.flags
<1>2. PICK i : i = NewIndex(p)
  OBVIOUS
<1>3. PICK x : x = Indexed(p)
  OBVIOUS
<1>4. /\ p \in Pools /\ PagesListed(p) /\ PagesApart(p) /\ BusyGiven(p) /\ BusyCounted(p)
      /\ RoomIsThere(p) /\ RetainedCounted(p)
  BY DEF PoolGood
<1>5. IndexTaken(p, i, x)
  BY <1>2, <1>3, <1>4, IndexedIs
<1>6. x.free \in Seq(PageIds) /\ i \in PageIds /\ x.next \in 0..PoolPages /\ ~There(p, i)
  BY <1>5 DEF IndexTaken
<1>7. PICK free : free = Append(x.free, i)
  OBVIOUS
<1>8. PICK n : n = Len(x.free)
  OBVIOUS
<1>9. /\ free \in Seq(PageIds) /\ Len(free) = n + 1 /\ n \in Nat
      /\ (\A k \in 1..n : free[k] = x.free[k]) /\ free[n + 1] = i
  BY <1>6, <1>7, <1>8, AppendIs
<1>10. /\ q.free = free /\ q.next = x.next /\ q.pages = p.pages /\ q.current = p.current
       /\ q.roomy = p.roomy /\ q.retained = p.retained /\ q.flags = p.flags /\ q.link = p.link
       /\ q = [pages |-> q.pages, current |-> q.current, free |-> q.free, next |-> q.next,
               roomy |-> q.roomy, retained |-> q.retained, flags |-> q.flags, link |-> q.link]
  BY <1>2, <1>3, <1>7, <1>4 DEF Pools
<1>11. q \in Pools
  BY <1>4, <1>6, <1>9, <1>10 DEF Pools
<1>12. \A j : There(q, j) <=> There(p, j)
  BY <1>10 DEF There
<1>13. ASSUME NEW k \in 1..Len(free)
       PROVE  \/ k \in 1..n /\ free[k] = x.free[k]
              \/ k = n + 1 /\ free[k] = i
  BY <1>9
<1>14. \A k \in 1..Len(free) : free[k] < q.next /\ ~There(p, free[k])
  <2> SUFFICES ASSUME NEW k \in 1..Len(free) PROVE free[k] < q.next /\ ~There(p, free[k])
    OBVIOUS
  <2>1. i < x.next /\ \A m \in 1..n : x.free[m] < x.next /\ ~There(p, x.free[m])
    BY <1>5, <1>8 DEF IndexTaken
  <2> QED
    BY <1>6, <1>10, <1>13, <2>1
<1>15. \A j \in 1..Len(free) : \A k \in 1..Len(free) : free[j] = free[k] => j = k
  <2> SUFFICES ASSUME NEW j \in 1..Len(free), NEW k \in 1..Len(free), free[j] = free[k]
               PROVE  j = k
    OBVIOUS
  <2>1. /\ \A m \in 1..n : x.free[m] # i
        /\ \A l \in 1..n : \A m \in 1..n : x.free[l] = x.free[m] => l = m
    BY <1>5, <1>8 DEF IndexTaken
  <2>2. CASE j \in 1..n /\ free[j] = x.free[j]
    BY <1>13, <2>1, <2>2
  <2>3. CASE j = n + 1 /\ free[j] = i
    BY <1>13, <2>1, <2>3
  <2> QED
    BY <1>13, <2>2, <2>3
<1>16. PagesListed(q)
  <2>1. ASSUME NEW j \in PageIds, There(q, j)
        PROVE  j < q.next /\ (\A k \in 1..Len(q.free) : q.free[k] # j) /\ q.pages[j].head <= q.pages[j].bump
    <3>1. There(p, j)
      BY <1>12, <2>1
    <3>2. j < p.next /\ p.pages[j].head <= p.pages[j].bump
      BY <1>4, <3>1 DEF PagesListed
    <3>3. p.next <= q.next
      BY <1>5, <1>10 DEF IndexTaken
    <3>4. p.next \in 0..PoolPages /\ q.next \in 0..PoolPages
      BY <1>4, <1>11 DEF Pools
    <3>5. j < q.next
      BY <3>2, <3>3, <3>4, PoolAssumption DEF PageIds
    <3> QED
      BY <1>10, <1>14, <3>1, <3>2, <3>5
  <2>2. ASSUME NEW j \in PageIds, ~There(q, j)
        PROVE  q.pages[j] = NoPage /\ (j < q.next => \E k \in 1..Len(q.free) : q.free[k] = j)
    <3>1. ~There(p, j)
      BY <1>12, <2>2
    <3>2. q.pages[j] = NoPage
      BY <1>4, <1>10, <3>1 DEF PagesListed
    <3>3. ASSUME j < q.next PROVE \E k \in 1..Len(free) : free[k] = j
      <4>1. CASE j = i
        BY <1>9, <4>1
      <4>2. CASE j # i
        <5>1. PICK k \in 1..n : x.free[k] = j
          BY <1>5, <1>8, <1>10, <3>1, <3>3, <4>2 DEF IndexTaken
        <5>2. k \in 1..Len(free) /\ free[k] = j
          BY <1>9, <5>1
        <5> QED
          BY <5>2
      <4> QED
        BY <4>1, <4>2
    <3> QED
      BY <1>10, <3>2, <3>3
  <2> QED
    BY <1>10, <1>14, <1>15, <2>1, <2>2 DEF PagesListed
<1>17. PagesApart(q) /\ BusyGiven(q) /\ BusyCounted(q)
  BY <1>10, <1>4, <1>12 DEF Busy, BusyOf, PagesApart, BusyGiven, BusyCounted
<1>18. RoomIsThere(q) /\ RetainedCounted(q)
  BY <1>4, <1>10, <1>12 DEF RoomIsThere, RetainedCounted
<1>19. ASSUME ~spoiled PROVE RoomIsKnown(q) /\ Chained(q)
  <2>1. RoomIsKnown(p) /\ Chained(p)
    BY <1>19 DEF PoolGood
  <2>2. ASSUME NEW j \in PageIds, There(q, j) PROVE \E list : Chain(q, j, list)
    <3>1. PICK list : Chain(p, j, list)
      BY <1>12, <2>1, <2>2 DEF Chained
    <3>2. p.pages[j] \in PagesOf
      BY <1>4 DEF Pools
    <3>3. q.pages[j] = p.pages[j] /\ p.pages[j].bump \in 0..PageBlocks
      BY <1>10, <3>2 DEF PagesOf
    <3>4. Chain(q, j, list)
      BY <1>10, <3>1, <3>3, ChainStays
    <3> QED
      BY <3>4
  <2>3. RoomIsKnown(q)
    BY <1>10, <1>12, <2>1 DEF RoomIsKnown
  <2> QED
    BY <2>2, <2>3 DEF Chained
<1> QED
  BY <1>10, <1>11, <1>16, <1>17, <1>18, <1>19 DEF PoolGood

(* What preparing a block does: there is none, or one that nobody has.       *)
NothingGot(p, r, spoiled) ==
    r.block = NoPoolBlock /\ r.pool.flags = p.flags /\ PoolGood(r.pool, spoiled)

(* The current page gives, or the first roomy one that can, or a new one.    *)
LEMMA PreparedIs ==
    ASSUME NEW p, NEW spoiled, PoolGood(p, spoiled), NEW flag \in BusyFlags,
           NEW r \in Prepared(p, flag)
    PROVE  NothingGot(p, r, spoiled) \/ GaveBlock(p, r, flag, spoiled)
<1> DEFINE others == p.roomy \ {p.current}
           givers == {i \in others : Gives(p, i)}
           before == {i \in others : \A g \in givers : i < g}
           failed == before \cup ({p.current} \ {NoIndex})
<1>1. PICK rest : rest = WithoutPages(p, failed)
  OBVIOUS
<1>2. p \in Pools /\ RoomIsThere(p) /\ p.current \in PageIds \cup {NoIndex} /\ p.roomy \subseteq PageIds
  BY DEF PoolGood, Pools
<1>3. CASE p.current # NoIndex /\ Gives(p, p.current)
  BY <1>3, <1>2, TakenKeeps DEF Prepared, RoomIsThere
<1>4. CASE ~(p.current # NoIndex /\ Gives(p, p.current))
  <2>1. failed \subseteq PageIds
    BY <1>2
  <2>2. ASSUME NEW i \in failed PROVE There(p, i) /\ ~Gives(p, i)
    <3>1. CASE i \in before
      <4>1. ~Gives(p, i)
        BY <3>1, <1>2, PoolAssumption DEF PageIds
      <4> QED
        BY <1>2, <3>1, <4>1 DEF RoomIsThere
    <3>2. CASE i = p.current /\ i # NoIndex
      BY <1>2, <1>4, <3>2 DEF RoomIsThere
    <3> QED
      BY <3>1, <3>2
  <2>3. /\ PoolGood(rest, spoiled) /\ rest.flags = p.flags
        /\ \A i \in PageIds \ failed : rest.pages[i] = p.pages[i]
        /\ rest.link = p.link
    <3> HIDE DEF failed
    <3> QED
      BY <1>1, <2>1, <2>2, WithoutKeeps
  <2>4. CASE givers # {}
    <3>1. r = Taken(rest, Min(givers), flag)
      BY <1>1, <1>4, <2>4 DEF Prepared
    <3>2. PICK i : i = Min(givers)
      OBVIOUS
    <3>3. givers \subseteq Nat
      BY <1>2, PoolAssumption DEF PageIds
    <3>4. i \in givers /\ \A g \in givers : i <= g
      <4>1. \E x \in givers : \A y \in givers : x <= y
        <5> HIDE DEF givers
        <5> QED
          BY <2>4, <3>3, LeastOf
      <4> HIDE DEF givers
      <4> QED
        BY <3>2, <4>1 DEF Min
    <3>5. i \in PageIds /\ There(p, i) /\ Gives(p, i) /\ i # p.current
      BY <1>2, <3>4 DEF RoomIsThere
    <3>6. i \notin failed
      BY <2>2, <3>5
    <3>7. rest.pages[i] = p.pages[i]
      BY <2>3, <3>5, <3>6
    <3>8. There(rest, i) /\ Gives(rest, i)
      BY <2>3, <3>5, <3>7 DEF There, Gives, Pops, HeadOf
    <3>9. GaveBlock(rest, Taken(rest, i, flag), flag, spoiled)
      BY <2>3, <3>5, <3>8, TakenKeeps
    <3> QED
      BY <2>3, <3>1, <3>2, <3>9 DEF GaveBlock, Busy
  <2>5. CASE givers = {} /\ NewIndex(rest) \in PageIds
    <3> DEFINE none == [block |-> NoPoolBlock, pool |-> rest]
    <3>1. \/ r = Taken(PoolGrown(rest), NewIndex(rest), flag)
          \/ r = [none EXCEPT !.pool.free = Append(Indexed(rest).free, NewIndex(rest)),
                              !.pool.next = Indexed(rest).next]
      BY <1>1, <1>4, <2>5 DEF Prepared
    <3>2. CASE r = Taken(PoolGrown(rest), NewIndex(rest), flag)
      BY <2>3, <2>5, GrowthKeeps, <3>2, TakenKeeps DEF GaveBlock, Busy
    <3>3. CASE r = [none EXCEPT !.pool.free = Append(Indexed(rest).free, NewIndex(rest)),
                                !.pool.next = Indexed(rest).next]
      <4>1. PICK q : q = [rest EXCEPT !.free = Append(Indexed(rest).free, NewIndex(rest)),
                                      !.next = Indexed(rest).next]
        OBVIOUS
      <4>2. r.block = NoPoolBlock /\ r.pool = q
        BY <3>3, <4>1
      <4>3. PoolGood(q, spoiled) /\ q.flags = rest.flags
        BY <2>3, <2>5, <4>1, RefusalKeeps
      <4> QED
        BY <2>3, <4>2, <4>3 DEF NothingGot
    <3> QED
      BY <3>1, <3>2, <3>3
  <2>6. CASE givers = {} /\ NewIndex(rest) \notin PageIds
    BY <1>1, <1>4, <2>6, <2>3 DEF Prepared, NothingGot
  <2> QED
    BY <2>4, <2>5, <2>6
<1> QED
  BY <1>3, <1>4

(* Nor does a free list change while its blocks stay as they are and what is *)
(* busy stays busy.                                                          *)
LEMMA ChainHolds ==
    ASSUME NEW p, NEW q, NEW i, NEW list, Chain(p, i, list), q.pages[i] = p.pages[i],
           \A k \in 1..PageBlocks :
               /\ p.flags[At(p, i, k)] = "free" =>
                     /\ q.flags[At(p, i, k)] = "free"
                     /\ q.link[At(p, i, k)] = p.link[At(p, i, k)]
               /\ Busy(p, At(p, i, k)) => Busy(q, At(p, i, k)),
           p.pages[i].bump \in 0..PageBlocks
    PROVE  Chain(q, i, list)
<1>1. \A k : At(q, i, k) = At(p, i, k)
  BY DEF At
<1>2. ASSUME NEW k \in 1..Len(list) PROVE list[k] \in 1..PageBlocks
  BY ElementsAre DEF Chain
<1>3. \A x \in 1..p.pages[i].bump : x \in 1..PageBlocks
  BY PoolAssumption
<1>4. ASSUME NEW k \in 1..Len(list)
      PROVE  /\ q.flags[At(q, i, list[k])] = "free" /\ list[k] <= q.pages[i].bump
             /\ q.link[At(q, i, list[k])] = IF k = 1 THEN 0 ELSE list[k - 1]
  BY <1>2, <1>1 DEF Chain
<1>5. ASSUME NEW x \in 1..q.pages[i].bump, ~Busy(q, At(q, i, x))
      PROVE  \E k \in 1..Len(list) : list[k] = x
  BY <1>3, <1>1, <1>5 DEF Chain
<1>6. /\ list \in Seq(1..PageBlocks)
      /\ \A j \in 1..Len(list) : \A k \in 1..Len(list) : list[j] = list[k] => j = k
      /\ q.pages[i].head = IF Len(list) = 0 THEN 0 ELSE list[Len(list)]
  BY DEF Chain
<1> QED
  BY <1>4, <1>5, <1>6 DEF Chain

(* A busy block may be given another flag of those.                          *)
LEMMA FlagKeeps ==
    ASSUME NEW p, NEW spoiled, PoolGood(p, spoiled), NEW b \in PoolBlocks, Busy(p, b),
           NEW flag \in BusyFlags
    PROVE  /\ PoolGood([p EXCEPT !.flags[b] = flag], spoiled)
           /\ [p EXCEPT !.flags[b] = flag].flags = [p.flags EXCEPT ![b] = flag]
<1>1. PICK q : q = [p EXCEPT !.flags[b] = flag]
  OBVIOUS
<1>2. /\ p \in Pools /\ PagesListed(p) /\ PagesApart(p) /\ BusyGiven(p) /\ BusyCounted(p)
      /\ RoomIsThere(p) /\ RetainedCounted(p)
  BY DEF PoolGood
<1>3. /\ q.pages = p.pages /\ q.free = p.free /\ q.next = p.next /\ q.current = p.current
      /\ q.roomy = p.roomy /\ q.retained = p.retained /\ q.link = p.link
      /\ q.flags = [p.flags EXCEPT ![b] = flag]
      /\ q = [pages |-> q.pages, current |-> q.current, free |-> q.free, next |-> q.next,
              roomy |-> q.roomy, retained |-> q.retained, flags |-> q.flags, link |-> q.link]
  BY <1>1, <1>2 DEF Pools
<1>4. p.flags \in [PoolBlocks -> Flags] /\ q.flags \in [PoolBlocks -> Flags]
  BY <1>2, <1>3 DEF Pools, BusyFlags, Flags
<1>5. q \in Pools
  BY <1>2, <1>3, <1>4 DEF Pools
<1>6. \A c \in PoolBlocks : /\ Busy(q, c) <=> Busy(p, c)
                            /\ p.flags[c] = "free" => q.flags[c] = "free"
  BY <1>3, <1>4 DEF Busy, BusyFlags
<1>7. \A i : There(q, i) <=> There(p, i)
  BY <1>3 DEF There
<1>8. \A slot : BusyOf(q, slot) = BusyOf(p, slot)
  BY <1>6 DEF BusyOf
<1>9. PagesListed(q) /\ PagesApart(q) /\ RoomIsThere(q)
  BY <1>2, <1>3, <1>7 DEF PagesListed, PagesApart, RoomIsThere
<1>10. BusyGiven(q)
  BY <1>2, <1>3, <1>6 DEF BusyGiven
<1>11. BusyCounted(q)
  BY <1>2, <1>3, <1>7, <1>8 DEF BusyCounted
<1>12. RetainedCounted(q)
  BY <1>2, <1>3 DEF RetainedCounted
<1>13. ASSUME ~spoiled PROVE RoomIsKnown(q) /\ Chained(q)
  <2>1. RoomIsKnown(p) /\ Chained(p)
    BY <1>13 DEF PoolGood
  <2>2. ASSUME NEW j \in PageIds, There(q, j) PROVE \E list : Chain(q, j, list)
    <3>1. PICK list : Chain(p, j, list)
      BY <1>7, <2>1, <2>2 DEF Chained
    <3>2. p.pages[j] \in PagesOf /\ There(p, j)
      BY <1>2, <1>7, <2>2 DEF Pools
    <3>3. q.pages[j] = p.pages[j] /\ p.pages[j].bump \in 0..PageBlocks
      BY <1>3, <3>2 DEF PagesOf
    <3>4. \A k \in 1..PageBlocks : At(p, j, k) \in PoolBlocks
      BY <1>2, <3>2, SlotsTell
    <3>5. \A k \in 1..PageBlocks :
             /\ p.flags[At(p, j, k)] = "free" =>
                   /\ q.flags[At(p, j, k)] = "free"
                   /\ q.link[At(p, j, k)] = p.link[At(p, j, k)]
             /\ Busy(p, At(p, j, k)) => Busy(q, At(p, j, k))
      BY <1>3, <1>6, <3>4
    <3>6. Chain(q, j, list)
      BY <3>1, <3>3, <3>5, ChainHolds
    <3> QED
      BY <3>6
  <2>3. RoomIsKnown(q)
    BY <1>3, <1>7, <2>1 DEF RoomIsKnown
  <2> QED
    BY <2>2, <2>3 DEF Chained
<1>14. PoolGood(q, spoiled)
  BY <1>5, <1>9, <1>10, <1>11, <1>12, <1>13 DEF PoolGood
<1> QED
  BY <1>1, <1>3, <1>14

(* A freed block that is written to spoils its page's free list only.        *)
LEMMA OverwriteKeeps ==
    ASSUME NEW p, NEW spoiled, PoolGood(p, spoiled), NEW b \in PoolBlocks, NEW link \in 0..Corrupt
    PROVE  /\ PoolGood([p EXCEPT !.link[b] = link], TRUE)
           /\ [p EXCEPT !.link[b] = link].flags = p.flags
<1>1. PICK q : q = [p EXCEPT !.link[b] = link]
  OBVIOUS
<1>2. /\ p \in Pools /\ PagesListed(p) /\ PagesApart(p) /\ BusyGiven(p) /\ BusyCounted(p)
      /\ RoomIsThere(p) /\ RetainedCounted(p)
  BY DEF PoolGood
<1>3. /\ q.pages = p.pages /\ q.free = p.free /\ q.next = p.next /\ q.current = p.current
      /\ q.roomy = p.roomy /\ q.retained = p.retained /\ q.flags = p.flags
      /\ q.link = [p.link EXCEPT ![b] = link]
      /\ q = [pages |-> q.pages, current |-> q.current, free |-> q.free, next |-> q.next,
              roomy |-> q.roomy, retained |-> q.retained, flags |-> q.flags, link |-> q.link]
  BY <1>1, <1>2 DEF Pools
<1>5. q \in Pools
  BY <1>2, <1>3 DEF Pools
<1>6. \A c : Busy(q, c) <=> Busy(p, c)
  BY <1>3 DEF Busy
<1>7. \A i : There(q, i) <=> There(p, i)
  BY <1>3 DEF There
<1>8. \A slot : BusyOf(q, slot) = BusyOf(p, slot)
  BY <1>6 DEF BusyOf
<1>9. PagesListed(q) /\ PagesApart(q) /\ RoomIsThere(q)
  BY <1>2, <1>3, <1>7 DEF PagesListed, PagesApart, RoomIsThere
<1>10. BusyGiven(q)
  BY <1>2, <1>3, <1>6 DEF BusyGiven
<1>11. BusyCounted(q)
  BY <1>2, <1>3, <1>7, <1>8 DEF BusyCounted
<1>12. RetainedCounted(q)
  BY <1>2, <1>3 DEF RetainedCounted
<1>14. PoolGood(q, TRUE)
  BY <1>5, <1>9, <1>10, <1>11, <1>12 DEF PoolGood
<1> QED
  BY <1>1, <1>3, <1>14

(* A busy block is of one page, which counts it.                             *)
LEMMA PageOfIs ==
    ASSUME NEW p \in Pools, PagesApart(p), BusyGiven(p), BusyCounted(p), NEW b \in PoolBlocks, Busy(p, b)
    PROVE  /\ PageOf(p, b) \in PageIds /\ There(p, PageOf(p, b))
           /\ p.pages[PageOf(p, b)].slot = b.slot /\ b.index <= p.pages[PageOf(p, b)].bump
           /\ \A j \in PageIds : p.pages[j].slot = b.slot => j = PageOf(p, b)
           /\ p.pages[PageOf(p, b)].busy \in Nat \ {0}
           /\ p.pages[PageOf(p, b)].busy = 1 => BusyOf(p, b.slot) = {b}
<1>1. PICK i : i = PageOf(p, b)
  OBVIOUS
<1>2. PICK j \in PageIds : p.pages[j].slot = b.slot /\ b.index <= p.pages[j].bump
  BY DEF BusyGiven
<1>3. b.slot \in PageIds /\ b.slot # -1
  BY PoolAssumption DEF PoolBlocks, PageIds
<1>4. i \in PageIds /\ p.pages[i].slot = b.slot
  BY <1>1, <1>2 DEF PageOf
<1>5. There(p, i) /\ \A k \in PageIds : p.pages[k].slot = b.slot => k = i
  BY <1>3, <1>4 DEF There, PagesApart
<1>6. i = j
  BY <1>2, <1>5
<1>7. b \in BusyOf(p, b.slot) /\ p.pages[i].busy = Cardinality(BusyOf(p, b.slot))
  BY <1>4, <1>5 DEF BusyOf, BusyCounted
<1>8. IsFiniteSet(BusyOf(p, b.slot))
  BY BusyOfFinite
<1>9. p.pages[i].busy \in Nat \ {0}
  BY <1>7, <1>8, CountOneLess
<1>10. ASSUME p.pages[i].busy = 1 PROVE BusyOf(p, b.slot) = {b}
  <2>1. \E x : BusyOf(p, b.slot) = {x}
    BY <1>7, <1>8, <1>10, FS_Singleton
  <2> QED
    BY <1>7, <2>1
<1> QED
  BY <1>1, <1>2, <1>4, <1>5, <1>6, <1>9, <1>10

(* What is left of a pool when a block is released.                          *)
BlockGone(p, b, q, spoiled) ==
    /\ PoolGood(q, spoiled)
    /\ \A c \in PoolBlocks : /\ Busy(q, c) <=> Busy(p, c) /\ c # b
                             /\ Busy(p, c) /\ c # b => q.flags[c] = p.flags[c]

(* A page that still has busy blocks puts the block on its free list.        *)
LEMMA PushKeeps ==
    ASSUME NEW p, NEW spoiled, PoolGood(p, spoiled), NEW b \in PoolBlocks, Busy(p, b),
           p.pages[PageOf(p, b)].busy # 1
    PROVE  BlockGone(p, b, BlockReleased(p, b), spoiled)
<1>1. PICK i : i = PageOf(p, b)
  OBVIOUS
<1>2. PICK q : q = BlockReleased(p, b)
  OBVIOUS
<1>3. /\ p \in Pools /\ PagesListed(p) /\ PagesApart(p) /\ BusyGiven(p) /\ BusyCounted(p)
      /\ RoomIsThere(p) /\ RetainedCounted(p)
  BY DEF PoolGood
<1>4. /\ i \in PageIds /\ There(p, i) /\ p.pages[i].slot = b.slot /\ b.index <= p.pages[i].bump
      /\ \A j \in PageIds : p.pages[j].slot = b.slot => j = i
      /\ p.pages[i].busy \in Nat \ {0} /\ p.pages[i].busy # 1
  BY <1>1, <1>3, PageOfIs
<1>5. PICK page : page = p.pages[i]
  OBVIOUS
<1>6. /\ page.slot \in PageIds \cup {-1} /\ page.busy \in Nat /\ page.bump \in 0..PageBlocks
      /\ page.head \in 0..PageBlocks /\ page.retained \in BOOLEAN /\ page \in PagesOf
  BY <1>3, <1>4, <1>5 DEF Pools, PagesOf
<1>7. b.index \in 1..PageBlocks
  BY DEF PoolBlocks
<1>8. PICK now : now = [page EXCEPT !.busy = @ - 1, !.head = b.index]
  OBVIOUS
<1>9. /\ now.slot = page.slot /\ now.busy = page.busy - 1 /\ now.bump = page.bump /\ now.head = b.index
      /\ now.retained = page.retained /\ now \in PagesOf
  <2>1. /\ now.slot = page.slot /\ now.busy = page.busy - 1 /\ now.bump = page.bump /\ now.head = b.index
        /\ now.retained = page.retained
        /\ now = [slot |-> now.slot, busy |-> now.busy, bump |-> now.bump, head |-> now.head,
                  retained |-> now.retained]
    BY <1>6, <1>8 DEF PagesOf
  <2>2. now.busy \in Nat /\ now.head \in 0..PageBlocks
    BY <1>4, <1>5, <1>6, <1>7, <2>1, PoolAssumption
  <2> QED
    BY <1>6, <2>1, <2>2 DEF PagesOf
<1>10. /\ q.pages = [p.pages EXCEPT ![i] = now] /\ q.free = p.free /\ q.next = p.next
       /\ q.current = p.current /\ q.roomy = p.roomy \cup {i} /\ q.retained = p.retained
       /\ q.flags = [p.flags EXCEPT ![b] = "free"] /\ q.link = [p.link EXCEPT ![b] = page.head]
       /\ q = [pages |-> q.pages, current |-> q.current, free |-> q.free, next |-> q.next,
               roomy |-> q.roomy, retained |-> q.retained, flags |-> q.flags, link |-> q.link]
  BY <1>1, <1>2, <1>4, <1>5, <1>8, <1>3 DEF BlockReleased, Pools
<1>11. /\ p.pages \in [PageIds -> PagesOf] /\ p.roomy \in SUBSET PageIds
       /\ p.current \in PageIds \cup {NoIndex} /\ p.retained \in Int
       /\ p.free \in Seq(PageIds) /\ p.next \in 0..PoolPages
       /\ p.flags \in [PoolBlocks -> Flags] /\ p.link \in [PoolBlocks -> 0..Corrupt]
  BY <1>3 DEF Pools
<1>12. q.pages[i] = now /\ \A j \in PageIds : j # i => q.pages[j] = p.pages[j]
  BY <1>4, <1>10, <1>11
<1>13. q \in Pools
  <2>1. q.pages \in [PageIds -> PagesOf] /\ q.roomy \in SUBSET PageIds
    BY <1>4, <1>9, <1>10, <1>11
  <2>2. q.flags \in [PoolBlocks -> Flags]
    BY <1>10, <1>11 DEF Flags
  <2>3. q.link \in [PoolBlocks -> 0..Corrupt]
    BY <1>6, <1>10, <1>11, PoolAssumption DEF Corrupt
  <2> QED
    BY <1>10, <1>11, <2>1, <2>2, <2>3 DEF Pools
<1>14. ASSUME NEW j \in PageIds
       PROVE  /\ q.pages[j].slot = p.pages[j].slot /\ q.pages[j].bump = p.pages[j].bump
              /\ q.pages[j].retained = p.pages[j].retained /\ (There(q, j) <=> There(p, j))
  BY <1>5, <1>9, <1>12 DEF There
<1>15. ASSUME NEW c \in PoolBlocks
       PROVE  /\ Busy(q, c) <=> Busy(p, c) /\ c # b
              /\ c # b => q.flags[c] = p.flags[c] /\ q.link[c] = p.link[c]
  BY <1>10, <1>11 DEF Busy, BusyFlags
<1>16. PagesListed(q)
  <2>1. ASSUME NEW j \in PageIds, There(q, j)
        PROVE  j < q.next /\ (\A k \in 1..Len(q.free) : q.free[k] # j) /\ q.pages[j].head <= q.pages[j].bump
    BY <1>3, <1>14, <2>1, <1>4, <1>5, <1>9, <1>12, <1>10 DEF PagesListed
  <2>2. ASSUME NEW j \in PageIds, ~There(q, j)
        PROVE  q.pages[j] = NoPage /\ (j < q.next => \E k \in 1..Len(q.free) : q.free[k] = j)
    BY <1>4, <1>14, <2>2, <1>12, <1>3, <1>10 DEF PagesListed
  <2>3. /\ \A k \in 1..Len(q.free) : q.free[k] < q.next
        /\ \A j \in 1..Len(q.free) : \A k \in 1..Len(q.free) : q.free[j] = q.free[k] => j = k
    BY <1>3, <1>10 DEF PagesListed
  <2> QED
    BY <2>1, <2>2, <2>3 DEF PagesListed
<1>17. PagesApart(q)
  BY <1>3, <1>14 DEF PagesApart
<1>18. BusyGiven(q)
  BY <1>3, <1>14, <1>15 DEF BusyGiven
<1>19. BusyCounted(q)
  <2> SUFFICES ASSUME NEW j \in PageIds, There(q, j)
               PROVE  q.pages[j].busy = Cardinality(BusyOf(q, q.pages[j].slot))
    BY DEF BusyCounted
  <2>1. p.pages[j].busy = Cardinality(BusyOf(p, p.pages[j].slot)) /\ q.pages[j].slot = p.pages[j].slot
    BY <1>3, <1>14 DEF BusyCounted
  <2>2. CASE j = i
    <3>1. BusyOf(q, b.slot) = BusyOf(p, b.slot) \ {b} /\ b \in BusyOf(p, b.slot)
      BY <1>15 DEF BusyOf
    <3>2. Cardinality(BusyOf(q, b.slot)) = Cardinality(BusyOf(p, b.slot)) - 1
      BY <3>1, BusyOfFinite, CountOneLess
    <3> QED
      BY <1>4, <1>5, <1>9, <1>12, <2>1, <2>2, <3>2
  <2>3. CASE j # i
    BY <1>4, <2>3, <1>15, <1>12, <2>1 DEF BusyOf
  <2> QED
    BY <2>2, <2>3
<1>20. RoomIsThere(q)
  BY <1>3, <1>11, <1>4, <1>10, <1>14 DEF RoomIsThere
<1>21. RetainedCounted(q)
  <2>1. {j \in PageIds : q.pages[j].retained} = {j \in PageIds : p.pages[j].retained}
    BY <1>14
  <2>2. ASSUME NEW j \in PageIds, q.pages[j].retained PROVE q.pages[j].busy = 0
    BY <1>3, <1>14, <2>2, <1>4, <1>12 DEF RetainedCounted
  <2> QED
    BY <1>3, <1>10, <2>1, <2>2 DEF RetainedCounted
<1>22. ASSUME ~spoiled PROVE RoomIsKnown(q) /\ Chained(q)
  <2>1. RoomIsKnown(p) /\ Chained(p)
    BY <1>22 DEF PoolGood
  <2>2. RoomIsKnown(q)
    <3> SUFFICES ASSUME NEW j \in PageIds, There(q, j), q.pages[j].busy < PageBlocks PROVE j \in q.roomy
      BY DEF RoomIsKnown
    <3>1. CASE j = i
      BY <1>10, <3>1
    <3>2. CASE j # i
      BY <1>10, <1>12, <1>14, <2>1, <3>2 DEF RoomIsKnown
    <3> QED
      BY <3>1, <3>2
  <2>3. ASSUME NEW j \in PageIds, There(q, j) PROVE \E list : Chain(q, j, list)
    <3>1. PICK list : Chain(p, j, list)
      BY <1>14, <2>1, <2>3 DEF Chained
    <3>2. There(p, j) /\ \A k \in 1..PageBlocks :
              At(p, j, k) \in PoolBlocks /\ At(p, j, k).slot = p.pages[j].slot /\ At(p, j, k).index = k
      BY <1>3, <1>14, <2>3, SlotsTell
    <3>3. \A k : At(q, j, k) = At(p, j, k)
      BY <1>14 DEF At
    <3>4. CASE j # i
      <4>1. p.pages[j] \in PagesOf
        BY <1>11
      <4>2. q.pages[j] = p.pages[j] /\ p.pages[j].bump \in 0..PageBlocks
        BY <1>12, <3>4, <4>1 DEF PagesOf
      <4>3. \A k \in 1..PageBlocks : At(p, j, k) # b
        BY <1>4, <3>2, <3>4
      <4>4. \A k \in 1..PageBlocks : /\ q.flags[At(p, j, k)] = p.flags[At(p, j, k)]
                                     /\ q.link[At(p, j, k)] = p.link[At(p, j, k)]
        BY <1>15, <3>2, <4>3
      <4>5. Chain(q, j, list)
        BY <3>1, <4>2, <4>4, ChainStays
      <4> QED
        BY <4>5
    <3>5. CASE j = i
      <4>1. PICK n : n = Len(list)
        OBVIOUS
      <4>2. /\ list \in Seq(1..PageBlocks) /\ n \in Nat
            /\ \A k \in 1..n : list[k] \in 1..PageBlocks
        BY <3>1, <4>1, ElementsAre DEF Chain
      <4>3. /\ \A k \in 1..n : \A m \in 1..n : list[k] = list[m] => k = m
            /\ page.head = IF n = 0 THEN 0 ELSE list[n]
            /\ \A x \in 1..page.bump : ~Busy(p, At(p, i, x)) => \E k \in 1..n : list[k] = x
        BY <1>5, <3>1, <3>5, <4>1 DEF Chain
      <4>4. ASSUME NEW k \in 1..n
            PROVE  /\ p.flags[At(p, i, list[k])] = "free" /\ list[k] <= page.bump
                   /\ p.link[At(p, i, list[k])] = IF k = 1 THEN 0 ELSE list[k - 1]
        BY <1>5, <3>1, <3>5, <4>1 DEF Chain
      <4>5. PICK more : more = Append(list, b.index)
        OBVIOUS
      <4>6. /\ more \in Seq(1..PageBlocks) /\ Len(more) = n + 1
            /\ (\A k \in 1..n : more[k] = list[k]) /\ more[n + 1] = b.index
        BY <1>7, <4>1, <4>2, <4>5, AppendIs
      <4>7. b = At(p, i, b.index)
        BY <1>4 DEF At, PoolBlocks
      <4>8. ASSUME NEW k \in 1..n
            PROVE  /\ list[k] \in 1..PageBlocks /\ At(p, i, list[k]) \in PoolBlocks
                   /\ At(p, i, list[k]) # b /\ list[k] # b.index
        BY <3>2, <3>5, <4>2, <4>4, <4>7 DEF Busy, BusyFlags
      <4>9. \A k \in 1..(n + 1) : k \in 1..n \/ k = n + 1
        BY <4>2
      <4>10. ASSUME NEW k \in 1..(n + 1), NEW m \in 1..(n + 1), more[k] = more[m] PROVE k = m
        BY <4>3, <4>6, <4>10, <4>8, <4>9
      <4>11. ASSUME NEW k \in 1..(n + 1)
             PROVE  /\ q.flags[At(q, i, more[k])] = "free" /\ more[k] <= q.pages[i].bump
                    /\ q.link[At(q, i, more[k])] = IF k = 1 THEN 0 ELSE more[k - 1]
        <5>1. CASE k \in 1..n
          <6>1. more[k] = list[k] /\ At(q, i, more[k]) = At(p, i, list[k])
            BY <3>3, <3>5, <4>6, <5>1
          <6>2. /\ q.flags[At(p, i, list[k])] = p.flags[At(p, i, list[k])]
                /\ q.link[At(p, i, list[k])] = p.link[At(p, i, list[k])]
            BY <1>15, <4>8, <5>1
          <6>3. k # 1 => more[k - 1] = list[k - 1]
            BY <4>2, <5>1, <4>6
          <6>4. /\ p.flags[At(p, i, list[k])] = "free" /\ list[k] <= page.bump
                /\ p.link[At(p, i, list[k])] = IF k = 1 THEN 0 ELSE list[k - 1]
            BY <4>4, <5>1
          <6>5. q.pages[i].bump = page.bump
            BY <1>9, <1>12
          <6> QED
            BY <6>1, <6>2, <6>3, <6>4, <6>5
        <5>2. CASE k = n + 1
          <6>1. more[k] = b.index /\ At(q, i, more[k]) = b
            BY <3>3, <3>5, <4>6, <4>7, <5>2
          <6>2. q.flags[b] = "free" /\ q.link[b] = page.head
            BY <1>10, <1>11
          <6>3. n # 0 => k - 1 = n /\ n \in 1..n
            BY <4>2, <5>2
          <6>4. n # 0 => more[k - 1] = list[n]
            BY <4>6, <6>3
          <6>5. n = 0 <=> k = 1
            BY <4>2, <5>2
          <6>6. q.pages[i].bump = page.bump /\ b.index <= page.bump
            BY <1>4, <1>5, <1>9, <1>12
          <6> QED
            BY <4>3, <6>1, <6>2, <6>4, <6>5, <6>6
        <5> QED
          BY <4>9, <5>1, <5>2
      <4>12. ASSUME NEW x \in 1..q.pages[i].bump, ~Busy(q, At(q, i, x))
             PROVE  \E k \in 1..(n + 1) : more[k] = x
        <5>1. x \in 1..page.bump /\ x \in 1..PageBlocks
          BY <1>6, <1>9, <1>12, PoolAssumption
        <5>2. At(q, i, x) = At(p, i, x) /\ At(p, i, x) \in PoolBlocks
          BY <3>2, <3>3, <3>5, <5>1
        <5>3. CASE At(p, i, x) = b
          BY <3>2, <3>5, <5>1, <5>3, <4>2, <4>6
        <5>4. CASE At(p, i, x) # b
          <6>1. ~Busy(p, At(p, i, x))
            BY <1>15, <4>12, <5>2, <5>4
          <6>2. PICK k \in 1..n : list[k] = x
            BY <4>3, <5>1, <6>1
          <6>3. k \in 1..(n + 1) /\ more[k] = x
            BY <4>2, <4>6, <6>2
          <6> QED
            BY <6>3
        <5> QED
          BY <5>3, <5>4
      <4>13. q.pages[i].head = IF n + 1 = 0 THEN 0 ELSE more[n + 1]
        BY <4>2, <1>9, <1>12, <4>6
      <4>14. Chain(q, i, more)
        BY <4>6, <4>10, <4>11, <4>12, <4>13 DEF Chain
      <4> QED
        BY <3>5, <4>14
    <3> QED
      BY <3>4, <3>5
  <2> QED
    BY <2>2, <2>3 DEF Chained
<1>23. PoolGood(q, spoiled)
  BY <1>13, <1>16, <1>17, <1>18, <1>19, <1>20, <1>21, <1>22 DEF PoolGood
<1> QED
  BY <1>2, <1>15, <1>23 DEF BlockGone

(* The last busy block of a page leaves it empty: the page is kept as it is, *)
(* with all its blocks to give again, if few enough are kept.                *)
LEMMA RetainKeeps ==
    ASSUME NEW p, NEW spoiled, PoolGood(p, spoiled), NEW b \in PoolBlocks, Busy(p, b),
           p.pages[PageOf(p, b)].busy = 1, p.retained < RetainedPages
    PROVE  BlockGone(p, b, BlockReleased(p, b), spoiled)
<1>1. PICK i : i = PageOf(p, b)
  OBVIOUS
<1>2. PICK q : q = BlockReleased(p, b)
  OBVIOUS
<1>3. /\ p \in Pools /\ PagesListed(p) /\ PagesApart(p) /\ BusyGiven(p) /\ BusyCounted(p)
      /\ RoomIsThere(p) /\ RetainedCounted(p)
  BY DEF PoolGood
<1>4. /\ i \in PageIds /\ There(p, i) /\ p.pages[i].slot = b.slot
      /\ \A j \in PageIds : p.pages[j].slot = b.slot => j = i
      /\ p.pages[i].busy = 1 /\ BusyOf(p, b.slot) = {b}
  BY <1>1, <1>3, PageOfIs
<1>5. PICK page : page = p.pages[i]
  OBVIOUS
<1>6. page \in PagesOf /\ page.slot \in PageIds \cup {-1}
  BY <1>3, <1>4, <1>5 DEF Pools, PagesOf
<1>7. PICK now : now = [[page EXCEPT !.busy = 0, !.head = 0, !.bump = 0] EXCEPT !.retained = TRUE]
  OBVIOUS
<1>8. now = [slot |-> page.slot, busy |-> 0, bump |-> 0, head |-> 0, retained |-> TRUE]
  BY <1>6, <1>7 DEF PagesOf
<1>9. /\ now.slot = page.slot /\ now.busy = 0 /\ now.bump = 0 /\ now.head = 0
      /\ now.retained = TRUE /\ now \in PagesOf
  BY PoolAssumption, <1>6, <1>8 DEF PagesOf
<1>10. PICK links : links = [c \in PoolBlocks |-> IF c.slot = b.slot THEN 0 ELSE p.link[c]]
  OBVIOUS
<1>11. /\ p.pages \in [PageIds -> PagesOf] /\ p.roomy \in SUBSET PageIds
       /\ p.current \in PageIds \cup {NoIndex} /\ p.retained \in Int
       /\ p.free \in Seq(PageIds) /\ p.next \in 0..PoolPages
       /\ p.flags \in [PoolBlocks -> Flags] /\ p.link \in [PoolBlocks -> 0..Corrupt]
  BY <1>3 DEF Pools
<1>12. /\ q.pages = [p.pages EXCEPT ![i] = now] /\ q.free = p.free /\ q.next = p.next
       /\ q.current = p.current /\ q.roomy = p.roomy \cup {i} /\ q.retained = p.retained + 1
       /\ q.flags = [p.flags EXCEPT ![b] = "free"] /\ q.link = links
       /\ q = [pages |-> q.pages, current |-> q.current, free |-> q.free, next |-> q.next,
               roomy |-> q.roomy, retained |-> q.retained, flags |-> q.flags, link |-> q.link]
  <2>1. PICK bare : bare = [page EXCEPT !.busy = 0, !.head = 0, !.bump = 0]
    OBVIOUS
  <2>2. PICK x : x = [[p EXCEPT !.flags[b] = "free", !.roomy = @ \cup {i}]
                         EXCEPT !.pages[i] = bare, !.link = links]
    OBVIOUS
  <2>3. q = Emptied(x, i)
    BY <1>1, <1>2, <1>4, <1>5, <1>10, <2>1, <2>2 DEF BlockReleased
  <2>4. /\ x.pages = [p.pages EXCEPT ![i] = bare] /\ x.free = p.free /\ x.next = p.next
        /\ x.current = p.current /\ x.roomy = p.roomy \cup {i} /\ x.retained = p.retained
        /\ x.flags = [p.flags EXCEPT ![b] = "free"] /\ x.link = links
        /\ x = [pages |-> x.pages, current |-> x.current, free |-> x.free, next |-> x.next,
                roomy |-> x.roomy, retained |-> x.retained, flags |-> x.flags, link |-> x.link]
    BY <1>3, <2>2 DEF Pools
  <2>5. q = [x EXCEPT !.pages[i] = [@ EXCEPT !.retained = TRUE], !.retained = @ + 1]
    BY <2>3, <2>4 DEF Emptied
  <2>6. x.pages[i] = bare
    BY <1>4, <1>11, <2>4
  <2>7. q = [x EXCEPT !.pages[i] = now, !.retained = @ + 1]
    BY <1>7, <2>1, <2>5, <2>6
  <2> QED
    BY <1>4, <1>11, <2>4, <2>7
<1>13. q.pages[i] = now /\ \A j \in PageIds : j # i => q.pages[j] = p.pages[j]
  BY <1>4, <1>11, <1>12
<1>14. q \in Pools
  <2>1. q.pages \in [PageIds -> PagesOf] /\ q.roomy \in SUBSET PageIds
    BY <1>4, <1>9, <1>11, <1>12
  <2>2. q.flags \in [PoolBlocks -> Flags]
    BY <1>11, <1>12 DEF Flags
  <2>3. q.link \in [PoolBlocks -> 0..Corrupt]
    BY <1>10, <1>11, <1>12, PoolAssumption DEF Corrupt
  <2>4. q.retained \in Int
    BY <1>11, <1>12
  <2> QED
    BY <1>11, <1>12, <2>1, <2>2, <2>3, <2>4 DEF Pools
<1>15. ASSUME NEW j \in PageIds
       PROVE  q.pages[j].slot = p.pages[j].slot /\ (There(q, j) <=> There(p, j))
  BY <1>5, <1>9, <1>13 DEF There
<1>16. ASSUME NEW c \in PoolBlocks
       PROVE  /\ Busy(q, c) <=> Busy(p, c) /\ c # b
              /\ c # b => q.flags[c] = p.flags[c]
              /\ c.slot # b.slot => q.link[c] = p.link[c]
              /\ Busy(q, c) => c.slot # b.slot
  BY <1>11, <1>12, <1>4, <1>10 DEF Busy, BusyFlags, BusyOf
<1>17. PagesListed(q)
  BY <1>3, <1>15, <1>9, <1>13, <1>12, <1>4 DEF PagesListed
<1>18. PagesApart(q)
  BY <1>3, <1>15 DEF PagesApart
<1>19. BusyGiven(q)
  <2> SUFFICES ASSUME NEW c \in PoolBlocks, Busy(q, c)
               PROVE  \E j \in PageIds : q.pages[j].slot = c.slot /\ c.index <= q.pages[j].bump
    BY DEF BusyGiven
  <2>1. PICK j \in PageIds : p.pages[j].slot = c.slot /\ c.index <= p.pages[j].bump
    BY <1>3, <1>16 DEF BusyGiven
  <2>2. j # i
    BY <1>4, <1>16, <2>1
  <2> QED
    BY <1>13, <2>1, <2>2
<1>20. BusyCounted(q)
  <2> SUFFICES ASSUME NEW j \in PageIds, There(q, j)
               PROVE  q.pages[j].busy = Cardinality(BusyOf(q, q.pages[j].slot))
    BY DEF BusyCounted
  <2>1. p.pages[j].busy = Cardinality(BusyOf(p, p.pages[j].slot)) /\ q.pages[j].slot = p.pages[j].slot
    BY <1>3, <1>15 DEF BusyCounted
  <2>2. CASE j = i
    <3>1. BusyOf(q, b.slot) = {}
      BY <1>16 DEF BusyOf
    <3> QED
      BY <1>4, <1>9, <1>13, <2>1, <2>2, <3>1, FS_EmptySet
  <2>3. CASE j # i
    <3>1. p.pages[j].slot # b.slot
      BY <1>4, <2>3
    <3>2. BusyOf(q, p.pages[j].slot) = BusyOf(p, p.pages[j].slot)
      BY <1>16, <3>1 DEF BusyOf
    <3> QED
      BY <1>13, <2>1, <2>3, <3>2
  <2> QED
    BY <2>2, <2>3
<1>21. RoomIsThere(q)
  BY <1>3, <1>11, <1>4, <1>12, <1>15 DEF RoomIsThere
<1>22. RetainedCounted(q)
  <2> DEFINE R == {j \in PageIds : p.pages[j].retained}
             S == {j \in PageIds : q.pages[j].retained}
  <2>1. /\ p.retained = Cardinality(R)
        /\ \A j \in PageIds : p.pages[j].retained => p.pages[j].busy = 0
    BY <1>3 DEF RetainedCounted
  <2>2. i \notin R
    BY <1>4, <2>1
  <2>3. S = R \cup {i}
    BY <1>4, <1>9, <1>13
  <2>4. IsFiniteSet(R)
    BY BlocksAreFinite, FS_Subset
  <2>5. q.retained = Cardinality(S)
    <3> HIDE DEF R, S
    <3> QED
      BY <1>12, <2>1, <2>2, <2>3, <2>4, CountOneMore
  <2>6. q.retained <= RetainedPages
    BY <1>11, <1>12, PoolAssumption
  <2>7. \A j \in PageIds : q.pages[j].retained => q.pages[j].busy = 0
    BY <1>9, <1>13, <2>1
  <2> QED
    BY <2>5, <2>6, <2>7 DEF RetainedCounted
<1>23. ASSUME ~spoiled PROVE RoomIsKnown(q) /\ Chained(q)
  <2>1. RoomIsKnown(p) /\ Chained(p)
    BY <1>23 DEF PoolGood
  <2>2. RoomIsKnown(q)
    <3> SUFFICES ASSUME NEW j \in PageIds, There(q, j), q.pages[j].busy < PageBlocks PROVE j \in q.roomy
      BY DEF RoomIsKnown
    <3>1. CASE j = i
      BY <1>12, <3>1
    <3>2. CASE j # i
      BY <1>12, <1>13, <1>15, <2>1, <3>2 DEF RoomIsKnown
    <3> QED
      BY <3>1, <3>2
  <2>3. ASSUME NEW j \in PageIds, There(q, j) PROVE \E list : Chain(q, j, list)
    <3>1. CASE j = i
      <4>1. Chain(q, i, <<>>)
        BY <1>9, <1>13 DEF Chain
      <4> QED
        BY <3>1, <4>1
    <3>2. CASE j # i
      <4>1. There(p, j) /\ p.pages[j] \in PagesOf /\ p.pages[j].slot # b.slot
        BY <1>4, <1>11, <1>15, <2>3, <3>2
      <4>2. PICK list : Chain(p, j, list)
        BY <2>1, <4>1 DEF Chained
      <4>3. q.pages[j] = p.pages[j] /\ p.pages[j].bump \in 0..PageBlocks
        BY <1>13, <3>2, <4>1 DEF PagesOf
      <4>4. \A k \in 1..PageBlocks : At(p, j, k) \in PoolBlocks /\ At(p, j, k).slot # b.slot
        BY <1>3, <4>1, SlotsTell
      <4>5. \A k \in 1..PageBlocks : /\ q.flags[At(p, j, k)] = p.flags[At(p, j, k)]
                                     /\ q.link[At(p, j, k)] = p.link[At(p, j, k)]
        BY <1>16, <4>4
      <4>6. Chain(q, j, list)
        BY <4>2, <4>3, <4>5, ChainStays
      <4> QED
        BY <4>6
    <3> QED
      BY <3>1, <3>2
  <2> QED
    BY <2>2, <2>3 DEF Chained
<1>24. PoolGood(q, spoiled)
  BY <1>14, <1>17, <1>18, <1>19, <1>20, <1>21, <1>22, <1>23 DEF PoolGood
<1> QED
  BY <1>2, <1>16, <1>24 DEF BlockGone

(* Otherwise the page is given back, and its index is free to use again.     *)
LEMMA DropKeeps ==
    ASSUME NEW p, NEW spoiled, PoolGood(p, spoiled), NEW b \in PoolBlocks, Busy(p, b),
           p.pages[PageOf(p, b)].busy = 1, ~(p.retained < RetainedPages)
    PROVE  BlockGone(p, b, BlockReleased(p, b), spoiled)
<1>1. PICK i : i = PageOf(p, b)
  OBVIOUS
<1>2. PICK q : q = BlockReleased(p, b)
  OBVIOUS
<1>3. /\ p \in Pools /\ PagesListed(p) /\ PagesApart(p) /\ BusyGiven(p) /\ BusyCounted(p)
      /\ RoomIsThere(p) /\ RetainedCounted(p)
  BY DEF PoolGood
<1>4. /\ i \in PageIds /\ There(p, i) /\ p.pages[i].slot = b.slot
      /\ \A j \in PageIds : p.pages[j].slot = b.slot => j = i
      /\ p.pages[i].busy = 1 /\ BusyOf(p, b.slot) = {b}
  BY <1>1, <1>3, PageOfIs
<1>5. PICK page : page = p.pages[i]
  OBVIOUS
<1>6. page \in PagesOf /\ page.slot \in PageIds \cup {-1}
  BY <1>3, <1>4, <1>5 DEF Pools, PagesOf
<1>7. PICK links : links = [c \in PoolBlocks |-> IF c.slot = b.slot THEN 0 ELSE p.link[c]]
  OBVIOUS
<1>8. PICK flags : flags = [c \in PoolBlocks |-> IF c.slot = b.slot THEN "none" ELSE p.flags[c]]
  OBVIOUS
<1>9. PICK free : free = Append(p.free, i)
  OBVIOUS
<1>10. /\ NoPage \in PagesOf /\ NoPage.slot = -1 /\ NoPage.retained = FALSE
  BY PoolAssumption DEF NoPage, PagesOf
<1>11. /\ p.pages \in [PageIds -> PagesOf] /\ p.roomy \in SUBSET PageIds
       /\ p.current \in PageIds \cup {NoIndex} /\ p.retained \in Int
       /\ p.free \in Seq(PageIds) /\ p.next \in 0..PoolPages
       /\ p.flags \in [PoolBlocks -> Flags] /\ p.link \in [PoolBlocks -> 0..Corrupt]
  BY <1>3 DEF Pools
<1>12. /\ q.pages = [p.pages EXCEPT ![i] = NoPage] /\ q.free = free /\ q.next = p.next
       /\ q.current = (IF p.current = i THEN NoIndex ELSE p.current)
       /\ q.roomy = p.roomy \ {i} /\ q.retained = p.retained
       /\ q.flags = flags /\ q.link = links
       /\ q = [pages |-> q.pages, current |-> q.current, free |-> q.free, next |-> q.next,
               roomy |-> q.roomy, retained |-> q.retained, flags |-> q.flags, link |-> q.link]
  <2>1. PICK bare : bare = [page EXCEPT !.busy = 0, !.head = 0, !.bump = 0]
    OBVIOUS
  <2>2. PICK x : x = [[p EXCEPT !.flags[b] = "free", !.roomy = @ \cup {i}]
                         EXCEPT !.pages[i] = bare, !.link = links]
    OBVIOUS
  <2>3. q = Emptied(x, i)
    BY <1>1, <1>2, <1>4, <1>5, <1>7, <2>1, <2>2 DEF BlockReleased
  <2>4. /\ x.pages = [p.pages EXCEPT ![i] = bare] /\ x.free = p.free /\ x.next = p.next
        /\ x.current = p.current /\ x.roomy = p.roomy \cup {i} /\ x.retained = p.retained
        /\ x.flags = [p.flags EXCEPT ![b] = "free"] /\ x.link = links
        /\ x = [pages |-> x.pages, current |-> x.current, free |-> x.free, next |-> x.next,
                roomy |-> x.roomy, retained |-> x.retained, flags |-> x.flags, link |-> x.link]
    BY <1>3, <2>2 DEF Pools
  <2>5. x.pages[i] = bare /\ bare.slot = b.slot
    BY <1>4, <1>5, <1>6, <1>11, <2>1, <2>4 DEF PagesOf
  <2>6. q = [x EXCEPT !.pages[i] = NoPage,
                      !.current = IF @ = i THEN NoIndex ELSE @,
                      !.roomy = @ \ {i}, !.free = Append(@, i),
                      !.flags = [c \in PoolBlocks |-> IF c.slot = x.pages[i].slot THEN "none" ELSE @[c]]]
    BY <2>3, <2>4 DEF Emptied
  <2>7. [c \in PoolBlocks |-> IF c.slot = x.pages[i].slot THEN "none" ELSE x.flags[c]] = flags
    BY <1>8, <1>11, <2>4, <2>5
  <2>8. /\ q.pages = [x.pages EXCEPT ![i] = NoPage] /\ q.free = Append(x.free, i) /\ q.next = x.next
        /\ q.current = (IF x.current = i THEN NoIndex ELSE x.current)
        /\ q.roomy = x.roomy \ {i} /\ q.retained = x.retained
        /\ q.flags = [c \in PoolBlocks |-> IF c.slot = x.pages[i].slot THEN "none" ELSE x.flags[c]]
        /\ q.link = x.link
        /\ q = [pages |-> q.pages, current |-> q.current, free |-> q.free, next |-> q.next,
                roomy |-> q.roomy, retained |-> q.retained, flags |-> q.flags, link |-> q.link]
    BY <2>4, <2>6
  <2> QED
    BY <1>4, <1>9, <1>11, <2>4, <2>7, <2>8
<1>13. q.pages[i] = NoPage /\ \A j \in PageIds : j # i => q.pages[j] = p.pages[j]
  BY <1>4, <1>11, <1>12
<1>14. PICK n : n = Len(p.free)
  OBVIOUS
<1>15. /\ free \in Seq(PageIds) /\ Len(free) = n + 1 /\ n \in Nat
       /\ (\A k \in 1..n : free[k] = p.free[k]) /\ free[n + 1] = i
  BY <1>4, <1>9, <1>11, <1>14, AppendIs
<1>16. q \in Pools
  <2>1. q.pages \in [PageIds -> PagesOf] /\ q.roomy \in SUBSET PageIds
    BY <1>4, <1>10, <1>11, <1>12
  <2>2. q.flags \in [PoolBlocks -> Flags]
    BY <1>8, <1>11, <1>12 DEF Flags
  <2>3. q.link \in [PoolBlocks -> 0..Corrupt]
    BY <1>7, <1>11, <1>12, PoolAssumption DEF Corrupt
  <2>4. q.current \in PageIds \cup {NoIndex}
    BY <1>11, <1>12
  <2> QED
    BY <1>11, <1>12, <1>15, <2>1, <2>2, <2>3, <2>4 DEF Pools
<1>17. ASSUME NEW j \in PageIds
       PROVE  /\ There(q, j) <=> There(p, j) /\ j # i
              /\ j # i => q.pages[j] = p.pages[j]
  BY <1>10, <1>13 DEF There
<1>18. ASSUME NEW c \in PoolBlocks
       PROVE  /\ Busy(q, c) <=> Busy(p, c) /\ c # b
              /\ Busy(p, c) /\ c # b => q.flags[c] = p.flags[c]
              /\ c.slot # b.slot => q.flags[c] = p.flags[c] /\ q.link[c] = p.link[c]
              /\ Busy(q, c) => c.slot # b.slot
  BY <1>4, <1>8, <1>12, <1>7 DEF BusyOf, Busy, BusyFlags
<1>19. i < p.next /\ \A k \in 1..n : p.free[k] # i
  BY <1>3, <1>4, <1>14 DEF PagesListed
<1>20. \A k \in 1..(n + 1) : k \in 1..n \/ k = n + 1
  BY <1>15
<1>21. PagesListed(q)
  <2>1. ASSUME NEW j \in PageIds, There(q, j)
        PROVE  j < q.next /\ (\A k \in 1..Len(q.free) : q.free[k] # j) /\ q.pages[j].head <= q.pages[j].bump
    <3>1. There(p, j) /\ j # i /\ q.pages[j] = p.pages[j]
      BY <1>17, <2>1
    <3>2. j < p.next /\ (\A k \in 1..n : p.free[k] # j) /\ p.pages[j].head <= p.pages[j].bump
      BY <1>3, <1>14, <3>1 DEF PagesListed
    <3>3. ASSUME NEW k \in 1..(n + 1) PROVE free[k] # j
      BY <1>15, <3>2, <3>1, <1>20
    <3> QED
      BY <1>12, <1>15, <3>1, <3>2, <3>3
  <2>2. ASSUME NEW j \in PageIds, ~There(q, j)
        PROVE  q.pages[j] = NoPage /\ (j < q.next => \E k \in 1..Len(q.free) : q.free[k] = j)
    <3>1. CASE j = i
      BY <1>15, <1>12, <1>13, <3>1
    <3>2. CASE j # i
      BY <1>17, <2>2, <3>2, <1>3, <1>14, <1>15, <1>12 DEF PagesListed
    <3> QED
      BY <3>1, <3>2
  <2>3. ASSUME NEW k \in 1..(n + 1) PROVE free[k] < q.next
    BY <1>3, <1>12, <1>14, <1>15, <1>19, <1>20 DEF PagesListed
  <2>4. ASSUME NEW j \in 1..(n + 1), NEW k \in 1..(n + 1), free[j] = free[k] PROVE j = k
    <3>1. CASE j \in 1..n /\ k \in 1..n
      BY <1>3, <1>14, <1>15, <2>4, <3>1 DEF PagesListed
    <3>2. CASE j \in 1..n /\ k = n + 1
      BY <1>15, <1>19, <2>4, <3>2
    <3>3. CASE j = n + 1 /\ k \in 1..n
      BY <1>15, <1>19, <2>4, <3>3
    <3> QED
      BY <1>20, <3>1, <3>2, <3>3
  <2> QED
    BY <1>12, <1>15, <2>1, <2>2, <2>3, <2>4 DEF PagesListed
<1>22. PagesApart(q)
  <2> SUFFICES ASSUME NEW j \in PageIds, NEW k \in PageIds, There(q, j),
                      q.pages[j].slot = q.pages[k].slot
               PROVE  j = k
    BY DEF PagesApart
  <2>1. There(q, k)
    BY DEF There
  <2> QED
    BY <1>3, <1>17, <2>1 DEF PagesApart
<1>23. BusyGiven(q)
  <2> SUFFICES ASSUME NEW c \in PoolBlocks, Busy(q, c)
               PROVE  \E j \in PageIds : q.pages[j].slot = c.slot /\ c.index <= q.pages[j].bump
    BY DEF BusyGiven
  <2>1. PICK j \in PageIds : p.pages[j].slot = c.slot /\ c.index <= p.pages[j].bump
    BY <1>3, <1>18 DEF BusyGiven
  <2>2. j # i
    BY <1>4, <1>18, <2>1
  <2> QED
    BY <1>13, <2>1, <2>2
<1>24. BusyCounted(q)
  <2> SUFFICES ASSUME NEW j \in PageIds, There(q, j)
               PROVE  q.pages[j].busy = Cardinality(BusyOf(q, q.pages[j].slot))
    BY DEF BusyCounted
  <2>1. j # i /\ There(p, j) /\ q.pages[j] = p.pages[j]
    BY <1>17
  <2>2. p.pages[j].busy = Cardinality(BusyOf(p, p.pages[j].slot))
    BY <1>3, <2>1 DEF BusyCounted
  <2>3. p.pages[j].slot # b.slot
    BY <1>4, <2>1
  <2>4. BusyOf(q, p.pages[j].slot) = BusyOf(p, p.pages[j].slot)
    BY <1>18, <2>3 DEF BusyOf
  <2> QED
    BY <2>1, <2>2, <2>4
<1>25. RoomIsThere(q)
  BY <1>3, <1>11, <1>12, <1>17 DEF RoomIsThere
<1>26. RetainedCounted(q)
  <2>1. /\ \A j \in PageIds : p.pages[j].retained => p.pages[j].busy = 0
    BY <1>3 DEF RetainedCounted
  <2>2. ASSUME NEW j \in PageIds PROVE q.pages[j].retained <=> p.pages[j].retained
    BY <1>4, <1>10, <1>13, <2>1
  <2>3. {j \in PageIds : q.pages[j].retained} = {j \in PageIds : p.pages[j].retained}
    BY <2>2
  <2>4. ASSUME NEW j \in PageIds, q.pages[j].retained PROVE q.pages[j].busy = 0
    BY <1>10, <1>13, <2>4, <2>1
  <2> QED
    BY <1>3, <1>12, <2>3, <2>4 DEF RetainedCounted
<1>27. ASSUME ~spoiled PROVE RoomIsKnown(q) /\ Chained(q)
  <2>1. RoomIsKnown(p) /\ Chained(p)
    BY <1>27 DEF PoolGood
  <2>2. RoomIsKnown(q)
    BY <1>12, <1>17, <2>1 DEF RoomIsKnown
  <2>3. ASSUME NEW j \in PageIds, There(q, j) PROVE \E list : Chain(q, j, list)
    <3>1. There(p, j) /\ p.pages[j] \in PagesOf /\ p.pages[j].slot # b.slot /\ j # i
      BY <1>4, <1>11, <1>17, <2>3
    <3>2. PICK list : Chain(p, j, list)
      BY <2>1, <3>1 DEF Chained
    <3>3. q.pages[j] = p.pages[j] /\ p.pages[j].bump \in 0..PageBlocks
      BY <1>13, <3>1 DEF PagesOf
    <3>4. \A k \in 1..PageBlocks : At(p, j, k) \in PoolBlocks /\ At(p, j, k).slot # b.slot
      BY <1>3, <3>1, SlotsTell
    <3>5. \A k \in 1..PageBlocks : /\ q.flags[At(p, j, k)] = p.flags[At(p, j, k)]
                                   /\ q.link[At(p, j, k)] = p.link[At(p, j, k)]
      BY <1>18, <3>4
    <3>6. Chain(q, j, list)
      BY <3>2, <3>3, <3>5, ChainStays
    <3> QED
      BY <3>6
  <2> QED
    BY <2>2, <2>3 DEF Chained
<1>28. PoolGood(q, spoiled)
  BY <1>16, <1>21, <1>22, <1>23, <1>24, <1>25, <1>26, <1>27 DEF PoolGood
<1> QED
  BY <1>2, <1>18, <1>28 DEF BlockGone

(* Releasing a block that is busy leaves the pool good without it.           *)
LEMMA ReleasedIs ==
    ASSUME NEW p, NEW spoiled, PoolGood(p, spoiled), NEW b \in PoolBlocks, Busy(p, b)
    PROVE  BlockGone(p, b, BlockReleased(p, b), spoiled)
  BY PushKeeps, RetainKeeps, DropKeeps

(* Flushing a cache releases its blocks one after the other.                 *)
Flushing(p, blocks, m, f) ==
    f = [n \in 0..m |-> IF n = 0 THEN p ELSE BlockReleased(f[n - 1], blocks[n])]

(* The pool after each release is there for every number of releases.        *)
LEMMA FlushingIs ==
    ASSUME NEW p, NEW blocks, NEW m \in Nat
    PROVE  \E f : Flushing(p, blocks, m, f)
<1> DEFINE T == {n \in Nat : ~\E f : Flushing(p, blocks, n, f)}
<1>1. SUFFICES ASSUME T # {} PROVE FALSE
  OBVIOUS
<1>2. PICK n \in T : \A y \in T : n <= y
  <2>1. T \subseteq Nat
    OBVIOUS
  <2> HIDE DEF T
  <2> QED
    BY <1>1, <2>1, LeastOf
<1>3. n \in Nat /\ ~\E f : Flushing(p, blocks, n, f)
  BY <1>2
<1>4. CASE n = 0
  <2> DEFINE f == [k \in 0..0 |-> p]
  <2>1. f = [k \in 0..0 |-> IF k = 0 THEN p ELSE BlockReleased(f[k - 1], blocks[k])]
    OBVIOUS
  <2>2. Flushing(p, blocks, 0, f)
    BY <2>1 DEF Flushing
  <2> QED
    BY <1>3, <1>4, <2>2
<1>5. CASE n # 0
  <2>1. n - 1 \in Nat /\ ~(n <= n - 1)
    BY <1>3, <1>5
  <2>2. n - 1 \notin T
    BY <1>2, <2>1
  <2>3. PICK f : Flushing(p, blocks, n - 1, f)
    BY <2>1, <2>2
  <2>4. f = [k \in 0..(n - 1) |-> IF k = 0 THEN p ELSE BlockReleased(f[k - 1], blocks[k])]
    BY <2>3 DEF Flushing
  <2>5. PICK last : last = BlockReleased(f[n - 1], blocks[n])
    OBVIOUS
  <2>6. PICK g : g = [k \in 0..n |-> IF k = n THEN last ELSE f[k]]
    OBVIOUS
  <2>7. ASSUME NEW k \in 0..n
        PROVE  g[k] = IF k = 0 THEN p ELSE BlockReleased(g[k - 1], blocks[k])
    BY <1>3, <1>5, <2>6, <2>5, <2>4
  <2>8. g = [k \in 0..n |-> g[k]]
    BY <2>6
  <2>9. g = [k \in 0..n |-> IF k = 0 THEN p ELSE BlockReleased(g[k - 1], blocks[k])]
    BY <2>7, <2>8
  <2>10. Flushing(p, blocks, n, g)
    BY <2>9 DEF Flushing
  <2> QED
    BY <1>3, <2>10
<1> QED
  BY <1>4, <1>5

(* What is left of a pool when some of its busy blocks are flushed.          *)
BlocksGone(p, blocks, n, q, spoiled) ==
    /\ PoolGood(q, spoiled)
    /\ \A c \in PoolBlocks :
          /\ Busy(q, c) <=> Busy(p, c) /\ \A k \in 1..n : blocks[k] # c
          /\ Busy(q, c) => q.flags[c] = p.flags[c]

(* Flushing takes the blocks flushed from the busy ones, and no others.      *)
LEMMA FlushedIs ==
    ASSUME NEW p, NEW spoiled, PoolGood(p, spoiled), NEW blocks \in Seq(PoolBlocks),
           \A k \in 1..Len(blocks) : Busy(p, blocks[k]),
           \A j \in 1..Len(blocks) : \A k \in 1..Len(blocks) : blocks[j] = blocks[k] => j = k
    PROVE  BlocksGone(p, blocks, Len(blocks), CacheFlushed(p, blocks), spoiled)
<1>1. PICK m : m = Len(blocks)
  OBVIOUS
<1>2. m \in Nat /\ \A k \in 1..m : blocks[k] \in PoolBlocks
  BY <1>1, ElementsAre
<1>3. PICK f : f = CHOOSE g : Flushing(p, blocks, m, g)
  OBVIOUS
<1>4. Flushing(p, blocks, m, f)
  BY <1>2, <1>3, FlushingIs
<1>5. CacheFlushed(p, blocks) = f[m]
  BY <1>1, <1>3 DEF CacheFlushed, Flushing
<1>6. /\ f[0] = p
      /\ \A k \in 1..m : k - 1 \in 0..m /\ f[k] = BlockReleased(f[k - 1], blocks[k])
  BY <1>4, <1>2 DEF Flushing
<1> DEFINE T == {n \in 0..m : ~BlocksGone(p, blocks, n, f[n], spoiled)}
<1>7. T = {}
  <2>1. SUFFICES ASSUME T # {} PROVE FALSE
    OBVIOUS
  <2>2. PICK n \in T : \A y \in T : n <= y
    <3>1. T \subseteq Nat
      BY <1>2
    <3> HIDE DEF T
    <3> QED
      BY <2>1, <3>1, LeastOf
  <2>3. n \in 0..m /\ ~BlocksGone(p, blocks, n, f[n], spoiled)
    BY <2>2
  <2>4. n # 0
    BY <1>6, <2>3 DEF BlocksGone
  <2>5. n \in 1..m /\ n - 1 \in 0..m /\ ~(n <= n - 1)
    BY <1>2, <2>3, <2>4
  <2>6. n - 1 \notin T
    BY <2>2, <2>5
  <2>7. BlocksGone(p, blocks, n - 1, f[n - 1], spoiled)
    BY <2>5, <2>6
  <2>8. PICK b : b = blocks[n]
    OBVIOUS
  <2>9. b \in PoolBlocks /\ Busy(p, b) /\ \A k \in 1..(n - 1) : blocks[k] # b
    BY <1>1, <1>2, <2>5, <2>8
  <2>10. PoolGood(f[n - 1], spoiled) /\ Busy(f[n - 1], b)
    BY <2>7, <2>9 DEF BlocksGone
  <2>11. BlockGone(f[n - 1], b, BlockReleased(f[n - 1], b), spoiled)
    BY <2>9, <2>10, ReleasedIs
  <2>12. f[n] = BlockReleased(f[n - 1], b)
    BY <1>6, <2>5, <2>8
  <2>13. BlockGone(f[n - 1], b, f[n], spoiled)
    BY <2>11, <2>12
  <2>14. PICK before, after : before = f[n - 1] /\ after = f[n]
    OBVIOUS
  <2>15. PoolGood(after, spoiled) /\
         \A c \in PoolBlocks : /\ Busy(after, c) <=> Busy(before, c) /\ c # b
                               /\ Busy(before, c) /\ c # b => after.flags[c] = before.flags[c]
    BY <2>13, <2>14 DEF BlockGone
  <2>16. \A c \in PoolBlocks :
          /\ Busy(before, c) <=> Busy(p, c) /\ \A k \in 1..(n - 1) : blocks[k] # c
          /\ Busy(before, c) => before.flags[c] = p.flags[c]
    BY <2>7, <2>14 DEF BlocksGone
  <2>17. ASSUME NEW c \in PoolBlocks
         PROVE  /\ Busy(after, c) <=> Busy(p, c) /\ \A k \in 1..n : blocks[k] # c
                /\ Busy(after, c) => after.flags[c] = p.flags[c]
    BY <1>2, <2>5, <2>8, <2>15, <2>16
  <2>18. BlocksGone(p, blocks, n, after, spoiled)
    BY <2>15, <2>17 DEF BlocksGone
  <2> QED
    BY <2>3, <2>14, <2>18
<1>8. m \in 0..m
  BY <1>2
<1>9. BlocksGone(p, blocks, m, f[m], spoiled)
  BY <1>7, <1>8
<1> QED
  BY <1>1, <1>5, <1>9

(* Refilling a cache takes blocks one after the other.                       *)
Refilling(first, m, f) ==
    f = [n \in 0..m |-> IF n = 0 THEN first ELSE RefilledOnce(f[n - 1], n)]

(* The outcomes after each turn are there for every number of turns.         *)
LEMMA RefillingIs ==
    ASSUME NEW first, NEW m \in Nat
    PROVE  \E f : Refilling(first, m, f)
<1> DEFINE T == {n \in Nat : ~\E f : Refilling(first, n, f)}
<1>1. SUFFICES ASSUME T # {} PROVE FALSE
  OBVIOUS
<1>2. PICK n \in T : \A y \in T : n <= y
  <2>1. T \subseteq Nat
    OBVIOUS
  <2> HIDE DEF T
  <2> QED
    BY <1>1, <2>1, LeastOf
<1>3. n \in Nat /\ ~\E f : Refilling(first, n, f)
  BY <1>2
<1>4. CASE n = 0
  <2> DEFINE f == [k \in 0..0 |-> first]
  <2>1. f = [k \in 0..0 |-> IF k = 0 THEN first ELSE RefilledOnce(f[k - 1], k)]
    OBVIOUS
  <2>2. Refilling(first, 0, f)
    BY <2>1 DEF Refilling
  <2> QED
    BY <1>3, <1>4, <2>2
<1>5. CASE n # 0
  <2>1. n - 1 \in Nat /\ ~(n <= n - 1)
    BY <1>3, <1>5
  <2>2. n - 1 \notin T
    BY <1>2, <2>1
  <2>3. PICK f : Refilling(first, n - 1, f)
    BY <2>1, <2>2
  <2>4. f = [k \in 0..(n - 1) |-> IF k = 0 THEN first ELSE RefilledOnce(f[k - 1], k)]
    BY <2>3 DEF Refilling
  <2>5. PICK last : last = RefilledOnce(f[n - 1], n)
    OBVIOUS
  <2>6. PICK g : g = [k \in 0..n |-> IF k = n THEN last ELSE f[k]]
    OBVIOUS
  <2>7. ASSUME NEW k \in 0..n
        PROVE  g[k] = IF k = 0 THEN first ELSE RefilledOnce(g[k - 1], k)
    BY <1>3, <1>5, <2>6, <2>5, <2>4
  <2>8. g = [k \in 0..n |-> g[k]]
    BY <2>6
  <2>9. g = [k \in 0..n |-> IF k = 0 THEN first ELSE RefilledOnce(g[k - 1], k)]
    BY <2>7, <2>8
  <2>10. Refilling(first, n, g)
    BY <2>9 DEF Refilling
  <2> QED
    BY <1>3, <2>10
<1> QED
  BY <1>4, <1>5

(* What a pool and a cache are after it: the blocks are new to everybody.    *)
RefillGood(p, r, n, spoiled) ==
    /\ r.blocks \in Seq(PoolBlocks) /\ Len(r.blocks) <= n /\ PoolGood(r.pool, spoiled)
    /\ \A j \in 1..Len(r.blocks) : \A k \in 1..Len(r.blocks) : r.blocks[j] = r.blocks[k] => j = k
    /\ \A k \in 1..Len(r.blocks) :
          ~Busy(p, r.blocks[k]) /\ r.pool.flags[r.blocks[k]] = "cached"
    /\ \A c \in PoolBlocks :
          /\ Busy(r.pool, c) <=> Busy(p, c) \/ \E k \in 1..Len(r.blocks) : r.blocks[k] = c
          /\ Busy(p, c) => r.pool.flags[c] = p.flags[c]

(* A turn puts one more block on, or none.                                   *)
LEMMA RefillStep ==
    ASSUME NEW p, NEW spoiled, NEW n \in Nat, NEW r, RefillGood(p, r, n, spoiled),
           NEW x \in Prepared(r.pool, "cached"), NEW s,
           s.blocks = IF x.block = NoPoolBlock THEN r.blocks ELSE Append(r.blocks, x.block),
           s.pool = x.pool
    PROVE  RefillGood(p, s, n + 1, spoiled)
<1>1. PICK old : old = r.blocks
  OBVIOUS
<1>2. PICK m : m = Len(old)
  OBVIOUS
<1>3. /\ old \in Seq(PoolBlocks) /\ m <= n /\ PoolGood(r.pool, spoiled)
      /\ \A j \in 1..m : \A k \in 1..m : old[j] = old[k] => j = k
      /\ \A k \in 1..m : ~Busy(p, old[k]) /\ r.pool.flags[old[k]] = "cached"
      /\ \A c \in PoolBlocks : /\ Busy(r.pool, c) <=> Busy(p, c) \/ \E k \in 1..m : old[k] = c
                               /\ Busy(p, c) => r.pool.flags[c] = p.flags[c]
  BY <1>1, <1>2 DEF RefillGood
<1>4. m \in Nat /\ \A k \in 1..m : old[k] \in PoolBlocks
  BY <1>2, <1>3, ElementsAre
<1>5. "cached" \in BusyFlags
  BY DEF BusyFlags
<1>6. NothingGot(r.pool, x, spoiled) \/ GaveBlock(r.pool, x, "cached", spoiled)
  BY <1>3, <1>5, PreparedIs
<1>7. NoPoolBlock \notin PoolBlocks
  BY PoolAssumption DEF PageIds, NoPoolBlock, PoolBlocks
<1>8. CASE NothingGot(r.pool, x, spoiled)
  <2>1. s.blocks = old /\ s.pool.flags = r.pool.flags /\ PoolGood(s.pool, spoiled)
    BY <1>1, <1>8 DEF NothingGot
  <2>2. m <= n + 1
    BY <1>3, <1>4
  <2>3. \A c \in PoolBlocks : Busy(s.pool, c) <=> Busy(r.pool, c)
    BY <2>1 DEF Busy
  <2>4. \A c \in PoolBlocks :
            /\ Busy(s.pool, c) <=> Busy(p, c) \/ \E k \in 1..m : old[k] = c
            /\ Busy(p, c) => s.pool.flags[c] = p.flags[c]
    BY <1>3, <2>1, <2>3
  <2>5. PICK new : new = s.blocks
    OBVIOUS
  <2>7. new = old /\ Len(new) = m
    BY <1>2, <2>1, <2>5
  <2>6. \A k \in 1..m : ~Busy(p, old[k]) /\ s.pool.flags[old[k]] = "cached"
    BY <1>3, <2>1
  <2> QED
    <3>1. /\ new \in Seq(PoolBlocks) /\ Len(new) <= n + 1 /\ PoolGood(s.pool, spoiled)
          /\ \A j \in 1..Len(new) : \A k \in 1..Len(new) : new[j] = new[k] => j = k
          /\ \A k \in 1..Len(new) : ~Busy(p, new[k]) /\ s.pool.flags[new[k]] = "cached"
          /\ \A c \in PoolBlocks :
                /\ Busy(s.pool, c) <=> Busy(p, c) \/ \E k \in 1..Len(new) : new[k] = c
                /\ Busy(p, c) => s.pool.flags[c] = p.flags[c]
      BY <1>3, <2>1, <2>2, <2>4, <2>6, <2>7
    <3> QED
      BY <2>5, <3>1 DEF RefillGood
<1>9. CASE GaveBlock(r.pool, x, "cached", spoiled)
  <2>1. PICK b : b = x.block
    OBVIOUS
  <2>2. /\ b \in PoolBlocks /\ ~Busy(r.pool, b) /\ PoolGood(s.pool, spoiled)
        /\ s.pool.flags = [r.pool.flags EXCEPT ![b] = "cached"]
    BY <1>9, <2>1 DEF GaveBlock
  <2>3. PICK new : new = s.blocks
    OBVIOUS
  <2>4. new = Append(old, b)
    BY <1>1, <1>7, <2>1, <2>2, <2>3
  <2>5. /\ new \in Seq(PoolBlocks) /\ Len(new) = m + 1
        /\ (\A k \in 1..m : new[k] = old[k]) /\ new[m + 1] = b
    BY <1>2, <1>3, <2>2, <2>4, AppendIs
  <2>6. r.pool.flags \in [PoolBlocks -> Flags]
    BY <1>3 DEF PoolGood, Pools
  <2>7. s.pool.flags[b] = "cached" /\ \A c \in PoolBlocks : c # b => s.pool.flags[c] = r.pool.flags[c]
    BY <2>2, <2>6
  <2>8. ~Busy(p, b) /\ \A k \in 1..m : old[k] # b
    BY <1>3, <2>2
  <2>9. \A k \in 1..(m + 1) : k \in 1..m \/ k = m + 1
    BY <1>4
  <2>10. (\A k \in 1..m : k \in 1..(m + 1)) /\ m + 1 \in 1..(m + 1) /\ m + 1 <= n + 1
    BY <1>3, <1>4
  <2>11. ASSUME NEW j \in 1..(m + 1), NEW k \in 1..(m + 1), new[j] = new[k] PROVE j = k
    BY <1>3, <2>5, <2>11, <2>8, <2>9
  <2>12. ASSUME NEW k \in 1..(m + 1)
         PROVE  ~Busy(p, new[k]) /\ s.pool.flags[new[k]] = "cached"
    BY <1>3, <1>4, <2>5, <2>7, <2>8, <2>9
  <2>13. ASSUME NEW c \in PoolBlocks
         PROVE  /\ Busy(s.pool, c) <=> Busy(p, c) \/ \E k \in 1..(m + 1) : new[k] = c
                /\ Busy(p, c) => s.pool.flags[c] = p.flags[c]
    BY <2>5, <2>7, <2>8, <2>10, <2>9, <1>3 DEF Busy, BusyFlags
  <2> QED
    BY <2>2, <2>3, <2>5, <2>10, <2>11, <2>12, <2>13 DEF RefillGood
<1> QED
  BY <1>6, <1>8, <1>9

(* A refill gives blocks that nobody had, each once, and marks them cached.  *)
LEMMA RefilledIs ==
    ASSUME PoolGood(pool, overwritten), NEW r \in PoolRefilled[CacheCap]
    PROVE  RefillGood(pool, r, CacheCap, overwritten)
<1>1. PICK first : first = {[blocks |-> <<>>, pool |-> pool]}
  OBVIOUS
<1>2. PICK m : m = CacheCap
  OBVIOUS
<1>3. m \in Nat
  BY <1>2, PoolAssumption
<1>4. PICK f : f = CHOOSE g : Refilling(first, m, g)
  OBVIOUS
<1>5. Refilling(first, m, f)
  BY <1>3, <1>4, RefillingIs
<1>6. PoolRefilled = f
  BY <1>1, <1>2, <1>4 DEF PoolRefilled, Refilling
<1>7. /\ f[0] = first
      /\ \A k \in 1..m : k - 1 \in 0..m /\ f[k] = RefilledOnce(f[k - 1], k)
  BY <1>5, <1>3 DEF Refilling
<1>8. PICK p, spoiled : p = pool /\ spoiled = overwritten
  OBVIOUS
<1> DEFINE T == {n \in 0..m : ~\A s \in f[n] : RefillGood(p, s, n, spoiled)}
<1>9. T = {}
  <2>1. SUFFICES ASSUME T # {} PROVE FALSE
    OBVIOUS
  <2>2. PICK n \in T : \A y \in T : n <= y
    <3>1. T \subseteq Nat
      BY <1>3
    <3> HIDE DEF T
    <3> QED
      BY <2>1, <3>1, LeastOf
  <2>3. n \in 0..m /\ ~\A s \in f[n] : RefillGood(p, s, n, spoiled)
    BY <2>2
  <2>4. n # 0
    <3>1. ASSUME NEW s \in first PROVE RefillGood(p, s, 0, spoiled)
      <4>1. s.blocks = <<>> /\ s.pool = p
        BY <1>1, <1>8, <3>1
      <4>2. PoolGood(p, spoiled)
        BY <1>8
      <4> QED
        BY <4>1, <4>2 DEF RefillGood
    <3> QED
      BY <1>7, <2>3, <3>1
  <2>5. n \in 1..m /\ n - 1 \in 0..m /\ ~(n <= n - 1)
    BY <1>3, <2>3, <2>4
  <2>6. n - 1 \notin T
    BY <2>2, <2>5
  <2>7. \A t \in f[n - 1] : RefillGood(p, t, n - 1, spoiled)
    BY <2>5, <2>6
  <2>8. f[n] = RefilledOnce(f[n - 1], n)
    BY <1>7, <2>5
  <2>9. ASSUME NEW s \in RefilledOnce(f[n - 1], n) PROVE RefillGood(p, s, n, spoiled)
    <3>1. PICK t \in f[n - 1] :
             \/ Len(t.blocks) < n - 1 /\ s = t
             \/ \E x \in Prepared(t.pool, "cached") :
                   s = [blocks |-> IF x.block = NoPoolBlock THEN t.blocks ELSE Append(t.blocks, x.block),
                        pool |-> x.pool]
      BY <2>9 DEF RefilledOnce
    <3>2. RefillGood(p, t, n - 1, spoiled)
      BY <2>7
    <3>3. n - 1 \in Nat /\ (n - 1) + 1 = n
      BY <1>3, <2>5
    <3>4. CASE Len(t.blocks) < n - 1 /\ s = t
      BY <3>2, ElementsAre, <3>3, <3>4 DEF RefillGood
    <3>5. CASE \E x \in Prepared(t.pool, "cached") :
                  s = [blocks |-> IF x.block = NoPoolBlock THEN t.blocks ELSE Append(t.blocks, x.block),
                       pool |-> x.pool]
      <4>1. PICK x \in Prepared(t.pool, "cached") :
                  s = [blocks |-> IF x.block = NoPoolBlock THEN t.blocks ELSE Append(t.blocks, x.block),
                       pool |-> x.pool]
        BY <3>5
      <4>2. /\ s.blocks = IF x.block = NoPoolBlock THEN t.blocks ELSE Append(t.blocks, x.block)
            /\ s.pool = x.pool
        BY <4>1
      <4>3. RefillGood(p, s, (n - 1) + 1, spoiled)
        BY <3>2, <3>3, <4>2, RefillStep
      <4> QED
        BY <3>3, <4>3
    <3> QED
      BY <3>1, <3>4, <3>5
  <2> QED
    BY <2>3, <2>8, <2>9
<1>10. m \in 0..m
  BY <1>3
<1>11. \A s \in f[m] : RefillGood(p, s, m, spoiled)
  BY <1>9, <1>10
<1> QED
  BY <1>2, <1>6, <1>8, <1>11

(* The users of the pool: every thread's cache holds blocks of its own, once *)
(* each, and who has what is what the blocks' flags say.                     *)
OneBin(s) ==
    /\ s \in Seq(PoolBlocks) /\ Len(s) <= CacheCap
    /\ \A j \in 1..Len(s) : \A k \in 1..Len(s) : s[j] = s[k] => j = k
OwnedBy(bn, owner) == \A t \in PoolThreads : \A k \in 1..Len(bn[t]) : owner[bn[t][k]] = t
BinsGood(bn, p) ==
    /\ bn \in [PoolThreads -> Seq(PoolBlocks)] /\ \A t \in PoolThreads : OneBin(bn[t])
    /\ \E owner : OwnedBy(bn, owner)
    /\ \A t \in PoolThreads : \A k \in 1..Len(bn[t]) : p.flags[bn[t][k]] = "cached"

LiveFlags == {"used", "counted"}
Counted(p) == {b \in PoolBlocks : p.flags[b] = "counted"}
Ledger(p, users, ends, lives) ==
    /\ users = {b \in PoolBlocks : Lives(p.flags[b])}
    /\ ends \in [PoolThreads -> {<<>>} \cup (PoolBlocks \X LiveFlags)]
    /\ \A t \in PoolThreads : ends[t] # <<>> =>
          (Lives(p.flags[ends[t][1]]) => p.flags[ends[t][1]] = ends[t][2])
    /\ lives = Cardinality(Counted(p))

PoolsInv ==
    /\ PoolGood(pool, overwritten) /\ overwritten \in BOOLEAN /\ exited \subseteq PoolThreads
    /\ BinsGood(bins, pool) /\ Ledger(pool, inUse, freeing, liveBlocks)

(* The flags of the blocks in use, but for one, are what they were.          *)
AllButOne(p, q, b) ==
    \A c \in PoolBlocks : c # b =>
        /\ Lives(q.flags[c]) <=> Lives(p.flags[c])
        /\ Lives(p.flags[c]) => q.flags[c] = p.flags[c]

(* What is counted of the blocks is finite.                                  *)
LEMMA CountedIsFinite == \A p : IsFiniteSet(Counted(p)) /\ Cardinality(Counted(p)) \in Nat
<1> SUFFICES ASSUME NEW p PROVE IsFiniteSet(Counted(p)) /\ Cardinality(Counted(p)) \in Nat
  OBVIOUS
<1>1. Counted(p) \subseteq PoolBlocks
  BY DEF Counted
<1> QED
  BY <1>1, BlocksAreFinite, FS_Subset, FS_CardinalityType

(* Who has what does not change with blocks that nobody has.                 *)
LEMMA LedgerStays ==
    ASSUME NEW p, NEW q, NEW users, NEW ends, NEW lives, Ledger(p, users, ends, lives),
           \A c \in PoolBlocks : /\ Lives(q.flags[c]) <=> Lives(p.flags[c])
                                 /\ Lives(p.flags[c]) => q.flags[c] = p.flags[c]
    PROVE  Ledger(q, users, ends, lives)
  BY DEF Counted, Lives, Ledger

(* A block that is handed out has a user, and is counted if it is to be.     *)
LEMMA LedgerGains ==
    ASSUME NEW p, NEW q, NEW users, NEW ends, NEW lives, Ledger(p, users, ends, lives),
           NEW b \in PoolBlocks, ~Lives(p.flags[b]), Lives(q.flags[b]), AllButOne(p, q, b),
           \A t \in PoolThreads : ends[t] # <<>> => ends[t][1] # b
    PROVE  Ledger(q, users \cup {b}, ends,
                  IF q.flags[b] = "counted" THEN lives + 1 ELSE lives)
<1>1. users \cup {b} = {c \in PoolBlocks : Lives(q.flags[c])}
  BY DEF Ledger, AllButOne
<1>2. ASSUME NEW t \in PoolThreads, ends[t] # <<>>, Lives(q.flags[ends[t][1]])
      PROVE  q.flags[ends[t][1]] = ends[t][2]
  BY <1>2 DEF Ledger, AllButOne
<1>3. b \notin Counted(p) /\ lives = Cardinality(Counted(p))
  BY DEF Counted, Lives, Ledger
<1>4. CASE q.flags[b] = "counted"
  <2>1. Counted(q) = Counted(p) \cup {b}
    BY <1>4 DEF Counted, Lives, AllButOne
  <2>2. Cardinality(Counted(q)) = lives + 1
    BY <1>3, <2>1, CountedIsFinite, CountOneMore
  <2> QED
    BY <1>1, <1>2, <1>4, <2>2 DEF Ledger
<1>5. CASE q.flags[b] # "counted"
  <2>1. Counted(q) = Counted(p)
    BY <1>3, <1>5 DEF Counted, Lives, AllButOne
  <2> QED
    BY <1>1, <1>2, <1>3, <1>5, <2>1 DEF Ledger
<1> QED
  BY <1>4, <1>5

(* A block that is freed has none, and is not counted any more.              *)
LEMMA LedgerLoses ==
    ASSUME NEW p, NEW q, NEW users, NEW ends, NEW lives, Ledger(p, users, ends, lives),
           NEW b \in PoolBlocks, Lives(p.flags[b]), ~Lives(q.flags[b]), AllButOne(p, q, b)
    PROVE  Ledger(q, users \ {b}, ends,
                  IF p.flags[b] = "counted" THEN lives - 1 ELSE lives)
<1>1. users \ {b} = {c \in PoolBlocks : Lives(q.flags[c])}
  BY DEF Ledger, AllButOne
<1>2. ASSUME NEW t \in PoolThreads, ends[t] # <<>>, Lives(q.flags[ends[t][1]])
      PROVE  q.flags[ends[t][1]] = ends[t][2]
  BY <1>2 DEF Ledger, AllButOne
<1>3. lives = Cardinality(Counted(p))
  BY DEF Ledger
<1>4. CASE p.flags[b] = "counted"
  BY <1>4, <1>3, CountedIsFinite, CountOneLess, <1>1, <1>2 DEF Counted, Lives, AllButOne, Ledger
<1>5. CASE p.flags[b] # "counted"
  <2>1. Counted(q) = Counted(p)
    BY <1>5 DEF Counted, Lives, AllButOne
  <2> QED
    BY <1>1, <1>2, <1>3, <1>5, <2>1 DEF Ledger
<1> QED
  BY <1>4, <1>5

(* A thread that has done with a free has none to end.                       *)
LEMMA LedgerEnds ==
    ASSUME NEW p, NEW users, NEW ends, NEW lives, Ledger(p, users, ends, lives),
           NEW t \in PoolThreads
    PROVE  Ledger(p, users, [ends EXCEPT ![t] = <<>>], lives)
  BY DEF Ledger

(* A cached block is in one thread's cache.                                  *)
LEMMA BinsApart ==
    ASSUME NEW bn, NEW p, BinsGood(bn, p), NEW t \in PoolThreads, NEW u \in PoolThreads,
           NEW j \in 1..Len(bn[t]), NEW k \in 1..Len(bn[u]), bn[t][j] = bn[u][k]
    PROVE  t = u
<1>1. PICK owner : OwnedBy(bn, owner)
  BY DEF BinsGood
<1> QED
  BY <1>1 DEF OwnedBy

(* A cache whose blocks were its own or nobody's leaves the others alone.    *)
BinFits(bn, p, t, new, q) ==
    /\ OneBin(new)
    /\ \A k \in 1..Len(new) :
          /\ q.flags[new[k]] = "cached"
          /\ (\E j \in 1..Len(bn[t]) : bn[t][j] = new[k]) \/ p.flags[new[k]] # "cached"
    /\ \A u \in PoolThreads : u # t => \A k \in 1..Len(bn[u]) : q.flags[bn[u][k]] = "cached"

(* Such a cache leaves every thread with blocks of its own.                  *)
LEMMA BinChanges ==
    ASSUME NEW bn, NEW p, BinsGood(bn, p), NEW q, NEW t \in PoolThreads, NEW new,
           BinFits(bn, p, t, new, q)
    PROVE  BinsGood([bn EXCEPT ![t] = new], q)
<1>0. /\ OneBin(new)
      /\ \A k \in 1..Len(new) :
            /\ q.flags[new[k]] = "cached"
            /\ (\E j \in 1..Len(bn[t]) : bn[t][j] = new[k]) \/ p.flags[new[k]] # "cached"
      /\ \A u \in PoolThreads : u # t => \A k \in 1..Len(bn[u]) : q.flags[bn[u][k]] = "cached"
  BY DEF BinFits
<1>1. PICK after : after = [bn EXCEPT ![t] = new]
  OBVIOUS
<1>2. /\ bn \in [PoolThreads -> Seq(PoolBlocks)] /\ new \in Seq(PoolBlocks)
      /\ \A u \in PoolThreads : OneBin(bn[u])
  BY <1>0 DEF BinsGood, OneBin
<1>3. after[t] = new /\ \A u \in PoolThreads : u # t => after[u] = bn[u]
  BY <1>1, <1>2
<1>4. after \in [PoolThreads -> Seq(PoolBlocks)] /\ \A u \in PoolThreads : OneBin(after[u])
  BY <1>0, <1>1, <1>2, <1>3
<1>5. PICK owner : OwnedBy(bn, owner)
  BY DEF BinsGood
<1>6. ASSUME NEW k \in 1..Len(new), NEW u \in PoolThreads, u # t, NEW j \in 1..Len(bn[u])
      PROVE  bn[u][j] # new[k]
  <2>1. SUFFICES ASSUME bn[u][j] = new[k] PROVE FALSE
    OBVIOUS
  <2>2. p.flags[new[k]] = "cached"
    BY <2>1 DEF BinsGood
  <2>3. PICK i \in 1..Len(bn[t]) : bn[t][i] = new[k]
    BY <1>0, <2>2
  <2>4. t = u
    BY <2>1, <2>3, BinsApart
  <2> QED
    BY <1>6, <2>4
<1>7. PICK S : S = {new[k] : k \in 1..Len(new)}
  OBVIOUS
<1>8. PICK now : now = [c \in PoolBlocks |-> IF c \in S THEN t ELSE owner[c]]
  OBVIOUS
<1>9. OwnedBy(after, now)
  <2> SUFFICES ASSUME NEW u \in PoolThreads, NEW k \in 1..Len(after[u])
               PROVE  now[after[u][k]] = u
    BY DEF OwnedBy
  <2>1. CASE u = t
    BY <1>3, <2>1, <1>2, <1>7, ElementsAre, <1>8
  <2>2. CASE u # t
    BY <1>3, <2>2, <1>2, <1>6, <1>7, ElementsAre, <1>5, <1>8 DEF OwnedBy
  <2> QED
    BY <2>1, <2>2
<1>10. ASSUME NEW u \in PoolThreads, NEW k \in 1..Len(after[u])
       PROVE  q.flags[after[u][k]] = "cached"
  BY <1>0, <1>3
<1> QED
  BY <1>1, <1>4, <1>9, <1>10 DEF BinsGood

(* The pool begins without pages, and nobody has a block of it.              *)
LEMMA PoolsStart == PoolStart => PoolsInv
<1> SUFFICES ASSUME PoolStart PROVE PoolsInv
  OBVIOUS
<1>1. PICK p : p = pool
  OBVIOUS
<1>2. p = [pages |-> [i \in PageIds |-> NoPage], current |-> NoIndex,
           free |-> <<>>, next |-> 0, roomy |-> {}, retained |-> 0,
           flags |-> [b \in PoolBlocks |-> "none"], link |-> [b \in PoolBlocks |-> 0]]
  BY <1>1 DEF PoolStart
<1>3. /\ p.pages = [i \in PageIds |-> NoPage] /\ p.current = NoIndex /\ p.free = <<>> /\ p.next = 0
      /\ p.roomy = {} /\ p.retained = 0 /\ p.flags = [b \in PoolBlocks |-> "none"]
      /\ p.link = [b \in PoolBlocks |-> 0]
  BY <1>2
<1>4. NoPage \in PagesOf /\ NoPage.slot = -1 /\ NoPage.retained = FALSE
  BY PoolAssumption DEF NoPage, PagesOf
<1>5. p \in Pools
  BY <1>4, PoolAssumption, <1>2 DEF Flags, Corrupt, Pools
<1>6. \A i \in PageIds : ~There(p, i) /\ p.pages[i] = NoPage
  BY <1>3, <1>4 DEF There
<1>7. \A b \in PoolBlocks : ~Busy(p, b) /\ ~Lives(p.flags[b])
  BY <1>3 DEF Busy, BusyFlags, Lives
<1>8. PagesListed(p)
  BY <1>3, <1>6, PoolAssumption DEF PagesListed, PageIds
<1>9. PagesApart(p) /\ BusyGiven(p) /\ BusyCounted(p) /\ RoomIsThere(p) /\ RoomIsKnown(p) /\ Chained(p)
  BY <1>3, <1>6, <1>7 DEF PagesApart, BusyGiven, BusyCounted, RoomIsThere, RoomIsKnown,
      Chained
<1>10. RetainedCounted(p)
  <2>1. {i \in PageIds : p.pages[i].retained} = {}
    BY <1>4, <1>6
  <2>2. \A i \in PageIds : ~p.pages[i].retained
    BY <1>4, <1>6
  <2>3. p.retained = Cardinality({i \in PageIds : p.pages[i].retained})
    BY <1>3, <2>1, FS_EmptySet
  <2>4. p.retained <= RetainedPages
    BY <1>3, PoolAssumption
  <2> QED
    BY <2>2, <2>3, <2>4 DEF RetainedCounted
<1>11. PoolGood(p, FALSE)
  BY <1>5, <1>8, <1>9, <1>10 DEF PoolGood
<1>12. BinsGood(bins, p)
  BY PoolAssumption DEF PoolStart, OneBin, OwnedBy, BinsGood
<1>13. Ledger(p, inUse, freeing, liveBlocks)
  BY <1>7, FS_EmptySet DEF Counted, Lives, PoolStart, Ledger
<1> QED
  BY <1>1, <1>11, <1>12, <1>13 DEF PoolStart, PoolsInv

(* A flag that a user gets.                                                  *)
LEMMA LiveFlagIs ==
    /\ LiveFlag \in BusyFlags /\ Lives(LiveFlag) /\ (LiveFlag = "counted" <=> counting)
  BY DEF LiveFlag, BusyFlags, Lives

(* What a thread that allocates has to choose from.                          *)
Offered(t, r) ==
    /\ OneBin(r.blocks) /\ PoolGood(r.pool, overwritten)
    /\ \A k \in 1..Len(r.blocks) :
          /\ r.pool.flags[r.blocks[k]] = "cached"
          /\ \/ \E j \in 1..Len(bins[t]) : bins[t][j] = r.blocks[k]
             \/ pool.flags[r.blocks[k]] # "cached"
    /\ \A c \in PoolBlocks : /\ Lives(r.pool.flags[c]) <=> Lives(pool.flags[c])
                             /\ Busy(pool, c) => r.pool.flags[c] = pool.flags[c]

(* What it has are cached blocks, its own or nobody's, each once.            *)
LEMMA OfferedIs ==
    ASSUME PoolsInv, NEW t \in PoolThreads,
           NEW r \in (IF bins[t] = <<>> THEN PoolRefilled[CacheCap]
                      ELSE {[blocks |-> bins[t], pool |-> pool]})
    PROVE  Offered(t, r)
<1>1. PoolGood(pool, overwritten) /\ BinsGood(bins, pool)
  BY DEF PoolsInv
<1>2. CASE bins[t] = <<>>
  <2>1. RefillGood(pool, r, CacheCap, overwritten)
    BY <1>1, <1>2, RefilledIs
  <2>2. OneBin(r.blocks) /\ PoolGood(r.pool, overwritten)
    BY <2>1 DEF RefillGood, OneBin
  <2>3. \A k \in 1..Len(r.blocks) :
            r.pool.flags[r.blocks[k]] = "cached" /\ pool.flags[r.blocks[k]] # "cached"
    BY <2>1 DEF RefillGood, Busy, BusyFlags
  <2>4. ASSUME NEW c \in PoolBlocks
        PROVE  /\ Lives(r.pool.flags[c]) <=> Lives(pool.flags[c])
               /\ Busy(pool, c) => r.pool.flags[c] = pool.flags[c]
    BY <2>1, <2>3 DEF RefillGood, Busy, BusyFlags, Lives
  <2> QED
    BY <2>2, <2>3, <2>4 DEF Offered
<1>3. CASE bins[t] # <<>>
  BY <1>3, <1>1 DEF Offered, BinsGood
<1> QED
  BY <1>2, <1>3

(* An allocation gives a block that nobody has, or none.                     *)
LEMMA AllocCachedKeeps ==
    ASSUME PoolsInv, NEW t \in PoolThreads, AllocCached(t) PROVE PoolsInv'
<1>1. PICK r \in (IF bins[t] = <<>> THEN PoolRefilled[CacheCap]
                  ELSE {[blocks |-> bins[t], pool |-> pool]}) :
          IF r.blocks = <<>>
          THEN pool' = r.pool /\ UNCHANGED <<bins, inUse, liveBlocks>>
          ELSE /\ HandOut(Last(r.blocks))
               /\ bins' = [bins EXCEPT ![t] = Front(r.blocks)]
               /\ pool' = [r.pool EXCEPT !.flags[Last(r.blocks)] = LiveFlag]
  BY DEF AllocCached
<1>2. Offered(t, r)
  BY <1>1, OfferedIs
<1>3. /\ PoolGood(pool, overwritten) /\ overwritten \in BOOLEAN /\ exited \subseteq PoolThreads
      /\ BinsGood(bins, pool) /\ Ledger(pool, inUse, freeing, liveBlocks)
  BY DEF PoolsInv
<1>4. exited' = exited /\ freeing' = freeing /\ overwritten' = overwritten
  BY DEF AllocCached
<1>5. PICK blocks, p : blocks = r.blocks /\ p = r.pool
  OBVIOUS
<1>q. PICK q : q = pool'
  OBVIOUS
<1>6. /\ OneBin(blocks) /\ PoolGood(p, overwritten)
      /\ \A k \in 1..Len(blocks) :
            /\ p.flags[blocks[k]] = "cached"
            /\ \/ \E j \in 1..Len(bins[t]) : bins[t][j] = blocks[k]
               \/ pool.flags[blocks[k]] # "cached"
      /\ \A c \in PoolBlocks : /\ Lives(p.flags[c]) <=> Lives(pool.flags[c])
                               /\ Busy(pool, c) => p.flags[c] = pool.flags[c]
  BY <1>2, <1>5 DEF Offered
<1>7. ASSUME NEW u \in PoolThreads, NEW k \in 1..Len(bins[u])
      PROVE  bins[u][k] \in PoolBlocks /\ p.flags[bins[u][k]] = "cached"
  BY <1>3, ElementsAre, <1>6 DEF BinsGood, Busy, BusyFlags
<1>8. BinsGood(bins, p)
  BY <1>3, <1>7 DEF BinsGood
<1>9. Ledger(p, inUse, freeing, liveBlocks)
  BY <1>6, <1>3, LedgerStays DEF Busy, BusyFlags, Lives
<1>10. CASE blocks = <<>>
  BY <1>1, <1>5, <1>10, <1>3, <1>4, <1>6, <1>8, <1>9 DEF PoolsInv
<1>11. CASE blocks # <<>>
  <2>1. PICK b, less : b = Last(blocks) /\ less = Front(blocks)
    OBVIOUS
  <2>2. PICK n : n = Len(blocks)
    OBVIOUS
  <2>3. /\ n \in Nat \ {0} /\ b = blocks[n] /\ b \in PoolBlocks
        /\ less \in Seq(PoolBlocks) /\ Len(less) = n - 1 /\ \A k \in 1..(n - 1) : less[k] = blocks[k]
    BY <1>6, <1>11, <2>1, <2>2, FrontIs DEF OneBin
  <2>4. n \in 1..n /\ \A k \in 1..(n - 1) : k \in 1..n /\ k # n
    BY <2>3
  <2>5. /\ HandOut(b) /\ bins' = [bins EXCEPT ![t] = less]
        /\ q = [p EXCEPT !.flags[b] = LiveFlag]
    BY <1>1, <1>5, <1>q, <1>11, <2>1
  <2>6. p.flags[b] = "cached" /\ Busy(p, b)
    BY <1>6, <2>2, <2>3, <2>4 DEF Busy, BusyFlags
  <2>7. PoolGood(q, overwritten) /\ q.flags = [p.flags EXCEPT ![b] = LiveFlag]
    BY <1>6, <2>3, <2>5, <2>6, FlagKeeps, LiveFlagIs
  <2>8. p.flags \in [PoolBlocks -> Flags]
    BY <1>6 DEF PoolGood, Pools
  <2>9. q.flags[b] = LiveFlag /\ \A c \in PoolBlocks : c # b => q.flags[c] = p.flags[c]
    BY <2>3, <2>7, <2>8
  <2>10. Ledger(q, inUse \cup {b}, freeing, IF q.flags[b] = "counted" THEN liveBlocks + 1 ELSE liveBlocks)
    <3>1. ~Lives(p.flags[b]) /\ Lives(q.flags[b]) /\ AllButOne(p, q, b)
      BY <2>6, <2>9, LiveFlagIs DEF Lives, AllButOne
    <3>2. \A u \in PoolThreads : freeing[u] # <<>> => freeing[u][1] # b
      BY <2>5 DEF HandOut, Unraced
    <3>3. b \in PoolBlocks
      BY <2>3
    <3>4. Ledger(p, inUse, freeing, liveBlocks)
      BY <1>9
    <3> QED
      BY <3>1, <3>2, <3>3, <3>4, LedgerGains
  <2>11. Ledger(q, inUse', freeing', liveBlocks')
    BY <2>5, <1>4, <2>9, <2>10, LiveFlagIs DEF HandOut
  <2>12. /\ OneBin(less)
         /\ \A k \in 1..Len(less) :
               /\ q.flags[less[k]] = "cached"
               /\ (\E j \in 1..Len(bins[t]) : bins[t][j] = less[k]) \/ pool.flags[less[k]] # "cached"
    <3>1. ASSUME NEW k \in 1..(n - 1)
          PROVE  less[k] = blocks[k] /\ less[k] \in PoolBlocks /\ less[k] # b /\ k \in 1..Len(blocks)
      BY <2>3, <2>4, <1>6, <2>2, ElementsAre DEF OneBin
    <3>2. \A j \in 1..(n - 1) : \A k \in 1..(n - 1) : less[j] = less[k] => j = k
      BY <1>6, <3>1 DEF OneBin
    <3>3. n - 1 <= CacheCap
      BY <1>6, <2>2, <2>3, PoolAssumption DEF OneBin
    <3>4. ASSUME NEW k \in 1..(n - 1)
          PROVE  /\ q.flags[less[k]] = "cached"
                 /\ (\E j \in 1..Len(bins[t]) : bins[t][j] = less[k]) \/ pool.flags[less[k]] # "cached"
      BY <1>6, <2>9, <3>1
    <3> QED
      BY <2>3, <3>2, <3>3, <3>4 DEF OneBin
  <2>13. \A u \in PoolThreads : u # t => \A k \in 1..Len(bins[u]) : q.flags[bins[u][k]] = "cached"
    <3> SUFFICES ASSUME NEW u \in PoolThreads, u # t, NEW k \in 1..Len(bins[u])
                 PROVE  q.flags[bins[u][k]] = "cached"
      OBVIOUS
    <3>1. bins[u][k] # b
      <4>1. SUFFICES ASSUME bins[u][k] = b PROVE FALSE
        OBVIOUS
      <4>2. pool.flags[blocks[n]] = "cached"
        BY <1>3, <2>3, <4>1 DEF BinsGood
      <4>3. PICK j \in 1..Len(bins[t]) : bins[t][j] = blocks[n]
        BY <1>6, <2>2, <2>4, <4>2
      <4>4. t = u
        BY <1>3, <2>3, <4>1, <4>3, BinsApart
      <4> QED
        BY <4>4
    <3> QED
      BY <1>7, <2>9, <3>1
  <2>14. BinsGood([bins EXCEPT ![t] = less], q)
    <3>1. BinFits(bins, pool, t, less, q)
      BY <2>12, <2>13 DEF BinFits
    <3> QED
      BY <1>3, <3>1, BinChanges
  <2> QED
    BY <1>3, <1>4, <1>q, <2>5, <2>7, <2>11, <2>14 DEF PoolsInv
<1> QED
  BY <1>10, <1>11

(* So does an allocation of a thread whose cache is gone.                    *)
LEMMA AllocFromPoolKeeps ==
    ASSUME PoolsInv, NEW t \in PoolThreads, AllocFromPool(t) PROVE PoolsInv'
<1>1. PICK x \in Prepared(pool, LiveFlag) :
          /\ pool' = x.pool
          /\ IF x.block = NoPoolBlock THEN UNCHANGED <<inUse, liveBlocks>> ELSE HandOut(x.block)
  BY DEF AllocFromPool
<1>2. bins' = bins /\ exited' = exited /\ freeing' = freeing /\ overwritten' = overwritten
  BY DEF AllocFromPool
<1>3. /\ PoolGood(pool, overwritten) /\ overwritten \in BOOLEAN /\ exited \subseteq PoolThreads
      /\ BinsGood(bins, pool) /\ Ledger(pool, inUse, freeing, liveBlocks)
  BY DEF PoolsInv
<1>4. NothingGot(pool, x, overwritten) \/ GaveBlock(pool, x, LiveFlag, overwritten)
  BY <1>3, LiveFlagIs, PreparedIs
<1>5. CASE NothingGot(pool, x, overwritten)
  BY <1>1, <1>5, <1>3, LedgerStays, <1>2 DEF NothingGot, BinsGood, PoolsInv
<1>6. CASE GaveBlock(pool, x, LiveFlag, overwritten)
  <2>1. PICK b : b = x.block
    OBVIOUS
  <2>2. /\ b \in PoolBlocks /\ ~Busy(pool, b) /\ PoolGood(pool', overwritten)
        /\ pool'.flags = [pool.flags EXCEPT ![b] = LiveFlag]
    BY <1>1, <1>6, <2>1 DEF GaveBlock
  <2>3. b # NoPoolBlock
    BY PoolAssumption, <2>2 DEF PageIds, NoPoolBlock, PoolBlocks
  <2>4. HandOut(b)
    BY <1>1, <2>1, <2>3
  <2>5. pool.flags \in [PoolBlocks -> Flags]
    BY <1>3 DEF PoolGood, Pools
  <2>6. pool'.flags[b] = LiveFlag /\ \A c \in PoolBlocks : c # b => pool'.flags[c] = pool.flags[c]
    BY <2>2, <2>5
  <2>7. Ledger(pool', inUse \cup {b}, freeing, IF pool'.flags[b] = "counted" THEN liveBlocks + 1 ELSE liveBlocks)
    <3>1. ~Lives(pool.flags[b]) /\ Lives(pool'.flags[b]) /\ AllButOne(pool, pool', b)
      BY <2>2, <2>6, LiveFlagIs DEF Lives, AllButOne, Busy, BusyFlags
    <3>2. \A u \in PoolThreads : freeing[u] # <<>> => freeing[u][1] # b
      BY <2>4 DEF HandOut, Unraced
    <3> QED
      BY <1>3, <2>2, <3>1, <3>2, LedgerGains
  <2>8. Ledger(pool', inUse', freeing', liveBlocks')
    BY <2>4, <1>2, <2>6, <2>7, LiveFlagIs DEF HandOut
  <2>9. ASSUME NEW u \in PoolThreads, NEW k \in 1..Len(bins[u]) PROVE pool'.flags[bins[u][k]] = "cached"
    BY <1>3, ElementsAre, <2>2, <2>6 DEF BinsGood, Busy, BusyFlags
  <2>10. BinsGood(bins', pool')
    BY <1>2, <1>3, <2>9 DEF BinsGood
  <2> QED
    BY <1>2, <1>3, <2>2, <2>8, <2>10 DEF PoolsInv
<1> QED
  BY <1>4, <1>5, <1>6

(* What is left of a cache once its first blocks are gone and one is put on. *)
LEMMA RestIs ==
    ASSUME NEW S, NEW s \in Seq(S), NEW m \in 0..Len(s), NEW b \in S
    PROVE  LET rest == Append(SubSeq(s, m + 1, Len(s)), b) IN
           /\ rest \in Seq(S) /\ Len(rest) = Len(s) - m + 1 /\ rest[Len(s) - m + 1] = b
           /\ \A k \in 1..(Len(s) - m) : rest[k] = s[m + k]
<1>1. PICK n : n = Len(s)
  OBVIOUS
<1>2. PICK u : u = SubSeq(s, m + 1, n)
  OBVIOUS
<1>3. n \in Nat /\ m \in 0..n /\ n - m \in Nat
  BY <1>1
<1>4. u \in Seq(S) /\ Len(u) = n - m /\ \A k \in 1..(n - m) : u[k] = s[m + k]
  BY <1>1, <1>2, <1>3, ElementsAre
<1>5. PICK r : r = Append(u, b)
  OBVIOUS
<1>6. r \in Seq(S) /\ Len(r) = Len(u) + 1 /\ r[Len(u) + 1] = b /\ \A k \in 1..Len(u) : r[k] = u[k]
  BY <1>4, <1>5, AppendIs
<1>7. r \in Seq(S) /\ Len(r) = n - m + 1 /\ r[n - m + 1] = b /\ \A k \in 1..(n - m) : r[k] = s[m + k]
  BY <1>4, <1>6
<1> QED
  BY <1>1, <1>2, <1>5, <1>7

(* The first elements of a sequence are a sequence of them.                  *)
LEMMA HeadIs ==
    ASSUME NEW S, NEW s \in Seq(S), NEW m \in 0..Len(s)
    PROVE  LET head == SubSeq(s, 1, m) IN
           head \in Seq(S) /\ Len(head) = m /\ \A k \in 1..m : head[k] = s[k]
<1>1. PICK n : n = Len(s)
  OBVIOUS
<1>2. PICK u : u = SubSeq(s, 1, m)
  OBVIOUS
<1>3. u = [k \in 1..m |-> s[k]]
  BY <1>1, <1>2
<1>4. ASSUME NEW k \in 1..m PROVE s[k] \in S
  BY <1>1, ElementsAre
<1> QED
  BY <1>2, <1>3, <1>4

(* The first blocks of a thread's cache go back to the pool: the others stay *)
(* cached, and the users keep theirs.                                        *)
CacheCut(bn, p, t, m, q, spoiled) ==
    /\ PoolGood(q, spoiled)
    /\ \A c \in PoolBlocks : /\ Lives(q.flags[c]) <=> Lives(p.flags[c])
                             /\ Lives(p.flags[c]) => q.flags[c] = p.flags[c]
                             /\ p.flags[c] = "cached" /\ (\A k \in 1..m : bn[t][k] # c)
                                  => q.flags[c] = "cached"

(* Flushing the first blocks of a cache does that.                           *)
LEMMA CacheCutIs ==
    ASSUME NEW bn, NEW p, NEW spoiled, PoolGood(p, spoiled), BinsGood(bn, p),
           NEW t \in PoolThreads, NEW head \in Seq(PoolBlocks), Len(head) <= Len(bn[t]),
           \A k \in 1..Len(head) : head[k] = bn[t][k]
    PROVE  CacheCut(bn, p, t, Len(head), CacheFlushed(p, head), spoiled)
<1>1. PICK m : m = Len(head)
  OBVIOUS
<1>2. PICK s : s = bn[t]
  OBVIOUS
<1>3. PICK n : n = Len(s)
  OBVIOUS
<1>4. PICK q : q = CacheFlushed(p, head)
  OBVIOUS
<1>5. OneBin(s) /\ s \in Seq(PoolBlocks) /\ \A k \in 1..n : p.flags[s[k]] = "cached"
  BY <1>2, <1>3 DEF BinsGood, OneBin
<1>6. m \in Nat /\ n \in Nat /\ m <= n
  BY <1>1, <1>2, <1>3, <1>5
<1>7. \A k \in 1..m : k \in 1..n /\ head[k] = s[k]
  BY <1>1, <1>2, <1>6
<1>8. \A k \in 1..m : Busy(p, head[k]) /\ p.flags[head[k]] = "cached"
  BY <1>5, <1>7 DEF Busy, BusyFlags
<1>9. \A j \in 1..m : \A k \in 1..m : head[j] = head[k] => j = k
  BY <1>3, <1>5, <1>7 DEF OneBin
<1>10. BlocksGone(p, head, m, q, spoiled)
  BY <1>1, <1>4, <1>8, <1>9, FlushedIs
<1>11. PoolGood(q, spoiled)
  BY <1>10 DEF BlocksGone
<1>12. ASSUME NEW c \in PoolBlocks
       PROVE  /\ Lives(q.flags[c]) <=> Lives(p.flags[c])
              /\ Lives(p.flags[c]) => q.flags[c] = p.flags[c]
              /\ p.flags[c] = "cached" /\ (\A k \in 1..m : s[k] # c) => q.flags[c] = "cached"
  BY <1>10, <1>8, <1>7 DEF BlocksGone, Lives, Busy, BusyFlags
<1> QED
  BY <1>1, <1>2, <1>4, <1>11, <1>12 DEF CacheCut

(* Beginning a free is reading the flags.                                    *)
LEMMA BeginFreeKeeps ==
    ASSUME PoolsInv, NEW t \in PoolThreads, NEW b \in PoolBlocks, BeginFree(t, b)
    PROVE  PoolsInv'
<1>1. /\ PoolGood(pool, overwritten) /\ overwritten \in BOOLEAN /\ exited \subseteq PoolThreads
      /\ BinsGood(bins, pool) /\ Ledger(pool, inUse, freeing, liveBlocks)
  BY DEF PoolsInv
<1>2. /\ pool' = pool /\ bins' = bins /\ exited' = exited /\ overwritten' = overwritten
      /\ inUse' = inUse /\ liveBlocks' = liveBlocks /\ Lives(pool.flags[b])
      /\ freeing' = [freeing EXCEPT ![t] = <<b, pool.flags[b]>>]
  BY DEF BeginFree
<1>3. PICK ends : ends = [freeing EXCEPT ![t] = <<b, pool.flags[b]>>]
  OBVIOUS
<1>4. PICK end : end = <<b, pool.flags[b]>>
  OBVIOUS
<1>5. end \in PoolBlocks \X LiveFlags /\ end[1] = b /\ end[2] = pool.flags[b]
  BY <1>2, <1>4 DEF LiveFlags, Lives
<1>6. freeing \in [PoolThreads -> {<<>>} \cup (PoolBlocks \X LiveFlags)]
  BY <1>1 DEF Ledger
<1>7. /\ ends \in [PoolThreads -> {<<>>} \cup (PoolBlocks \X LiveFlags)]
      /\ ends[t] = end /\ \A u \in PoolThreads : u # t => ends[u] = freeing[u]
  BY <1>3, <1>4, <1>5, <1>6
<1>8. Ledger(pool, inUse, ends, liveBlocks)
  BY <1>1, <1>5, <1>7 DEF Ledger
<1> QED
  BY <1>1, <1>2, <1>3, <1>8 DEF PoolsInv

(* An ended free leaves the books right, whether or not it freed the block.  *)
LEMMA FreeEnds ==
    ASSUME PoolsInv, NEW t \in PoolThreads, NEW p, PoolGood(p, overwritten),
           NEW b \in PoolBlocks, NEW flag, pool.flags[b] = flag, Lives(flag),
           ~Lives(p.flags[b]), AllButOne(pool, p, b)
    PROVE  Ledger(p, inUse \ {b}, [freeing EXCEPT ![t] = <<>>],
                  IF flag = "counted" THEN liveBlocks - 1 ELSE liveBlocks)
<1>1. Ledger(pool, inUse, freeing, liveBlocks)
  BY DEF PoolsInv
<1>2. Lives(pool.flags[b])
  OBVIOUS
<1>3. Ledger(p, inUse \ {b}, freeing, IF pool.flags[b] = "counted" THEN liveBlocks - 1 ELSE liveBlocks)
  BY <1>1, <1>2, LedgerLoses
<1>4. PICK lives : lives = IF flag = "counted" THEN liveBlocks - 1 ELSE liveBlocks
  OBVIOUS
<1>5. Ledger(p, inUse \ {b}, freeing, lives)
  BY <1>3, <1>4
<1> QED
  BY <1>4, <1>5, LedgerEnds

(* A free that was too late changes nothing.                                 *)
LEMMA FreeTooLate ==
    ASSUME PoolsInv, NEW t \in PoolThreads, freeing' = [freeing EXCEPT ![t] = <<>>],
           pool' = pool, bins' = bins, exited' = exited, inUse' = inUse,
           liveBlocks' = liveBlocks, overwritten' = overwritten
    PROVE  PoolsInv'
  BY LedgerEnds DEF PoolsInv

(* The block that a thread frees, and the flags it has read.                 *)
LEMMA EndingIs ==
    ASSUME PoolsInv, NEW t \in PoolThreads, freeing[t] # <<>>
    PROVE  /\ freeing[t][1] \in PoolBlocks /\ Lives(freeing[t][2])
           /\ Lives(pool.flags[freeing[t][1]]) => pool.flags[freeing[t][1]] = freeing[t][2]
  BY DEF PoolsInv, Ledger, LiveFlags, Lives

(* A free under the lock: the page gets its block back.                      *)
LEMMA EndFreeToPoolKeeps ==
    ASSUME PoolsInv, NEW t \in PoolThreads, EndFreeToPool(t) PROVE PoolsInv'
<1>1. PICK b, seen : b = freeing[t][1] /\ seen = freeing[t][2]
  OBVIOUS
<1>2. /\ b \in PoolBlocks /\ Lives(seen)
      /\ Lives(pool.flags[b]) => pool.flags[b] = seen
  BY <1>1, EndingIs DEF EndFreeToPool
<1>3. /\ PoolGood(pool, overwritten) /\ overwritten \in BOOLEAN /\ exited \subseteq PoolThreads
      /\ BinsGood(bins, pool) /\ Ledger(pool, inUse, freeing, liveBlocks)
  BY DEF PoolsInv
<1>4. /\ freeing' = [freeing EXCEPT ![t] = <<>>] /\ bins' = bins /\ exited' = exited
      /\ overwritten' = overwritten
  BY DEF EndFreeToPool
<1>5. CASE ~Lives(pool.flags[b])
  BY <1>1, <1>5, <1>4, FreeTooLate DEF EndFreeToPool
<1>6. CASE Lives(pool.flags[b])
  <2>1. PICK q : q = BlockReleased(pool, b)
    OBVIOUS
  <2>2. /\ pool' = q /\ inUse' = inUse \ {b}
        /\ liveBlocks' = IF seen = "counted" THEN liveBlocks - 1 ELSE liveBlocks
    BY <1>1, <1>6, <2>1 DEF EndFreeToPool, Uncount
  <2>3. Busy(pool, b)
    BY <1>6 DEF Busy, BusyFlags, Lives
  <2>4. BlockGone(pool, b, q, overwritten)
    BY <1>2, <1>3, <2>1, <2>3, ReleasedIs
  <2>5. /\ PoolGood(q, overwritten)
        /\ \A c \in PoolBlocks : /\ Busy(q, c) <=> Busy(pool, c) /\ c # b
                                 /\ Busy(pool, c) /\ c # b => q.flags[c] = pool.flags[c]
    BY <2>4 DEF BlockGone
  <2>6. ~Lives(q.flags[b]) /\ AllButOne(pool, q, b)
    BY <1>2, <2>5 DEF AllButOne, Lives, Busy, BusyFlags
  <2>7. Ledger(q, inUse \ {b}, [freeing EXCEPT ![t] = <<>>],
               IF seen = "counted" THEN liveBlocks - 1 ELSE liveBlocks)
    BY <1>2, <1>6, <2>5, <2>6, FreeEnds
  <2>8. ASSUME NEW u \in PoolThreads, NEW k \in 1..Len(bins[u]) PROVE q.flags[bins[u][k]] = "cached"
    BY <1>3, <1>6, ElementsAre, <2>5 DEF BinsGood, Lives, Busy, BusyFlags
  <2>9. BinsGood(bins, q)
    BY <1>3, <2>8 DEF BinsGood
  <2>10. Ledger(q, inUse', freeing', liveBlocks')
    BY <1>4, <2>2, <2>7
  <2> QED
    BY <1>3, <1>4, <2>2, <2>5, <2>9, <2>10 DEF PoolsInv
<1> QED
  BY <1>5, <1>6

(* A free into the cache, of which the first blocks go back if it is full.   *)
LEMMA EndFreeKeeps ==
    ASSUME PoolsInv, NEW t \in PoolThreads, EndFree(t) PROVE PoolsInv'
<1>1. PICK b, seen : b = freeing[t][1] /\ seen = freeing[t][2]
  OBVIOUS
<1>2. /\ b \in PoolBlocks /\ Lives(seen)
  BY <1>1, EndingIs DEF EndFree
<1>3. /\ PoolGood(pool, overwritten) /\ overwritten \in BOOLEAN /\ exited \subseteq PoolThreads
      /\ BinsGood(bins, pool) /\ Ledger(pool, inUse, freeing, liveBlocks)
  BY DEF PoolsInv
<1>4. /\ freeing' = [freeing EXCEPT ![t] = <<>>] /\ exited' = exited /\ overwritten' = overwritten
  BY DEF EndFree
<1>5. CASE ~TryCache(b, seen)
  BY <1>1, <1>5, <1>4, FreeTooLate DEF EndFree
<1>6. CASE TryCache(b, seen)
  <2>1. pool.flags[b] = seen /\ Busy(pool, b) /\ pool.flags[b] # "cached"
    BY <1>2, <1>6 DEF TryCache, Lives, Busy, BusyFlags
  <2>2. PICK s, n : s = bins[t] /\ n = Len(s)
    OBVIOUS
  <2>3. /\ OneBin(s) /\ s \in Seq(PoolBlocks) /\ n \in 0..CacheCap
        /\ \A k \in 1..n : pool.flags[s[k]] = "cached"
    BY <1>3, <2>2, PoolAssumption DEF BinsGood, OneBin
  <2>4. PICK m : m = IF n = CacheCap THEN CacheBatch ELSE 0
    OBVIOUS
  <2>5. m \in 0..n /\ n - m + 1 <= CacheCap /\ n \in Nat /\ n - m \in Nat
    BY <2>3, <2>4, PoolAssumption
  <2>6. PICK head : head = IF n = CacheCap THEN SubSeq(s, 1, CacheBatch) ELSE <<>>
    OBVIOUS
  <2>7. head \in Seq(PoolBlocks) /\ Len(head) = m /\ \A k \in 1..m : head[k] = s[k]
    <3>1. CASE n = CacheCap
      <4>1. head = SubSeq(s, 1, m) /\ m \in 0..Len(s)
        BY <2>2, <2>4, <2>5, <2>6, <3>1
      <4> QED
        BY <2>3, <4>1, HeadIs
    <3>2. CASE n # CacheCap
      BY <2>4, <2>6, <3>2
    <3> QED
      BY <3>1, <3>2
  <2>8. PICK p : p = [pool EXCEPT !.flags[b] = "cached"]
    OBVIOUS
  <2>9. PICK q : q = CacheFlushed(p, head)
    OBVIOUS
  <2>10. PICK new : new = Append(SubSeq(s, m + 1, n), b)
    OBVIOUS
  <2>11. /\ pool' = q /\ bins' = [bins EXCEPT ![t] = new] /\ inUse' = inUse \ {b}
         /\ liveBlocks' = IF seen = "counted" THEN liveBlocks - 1 ELSE liveBlocks
    <3>1. /\ pool' = CacheFlushed([pool EXCEPT !.flags[b] = "cached"],
                                  IF Len(bins[t]) = CacheCap THEN SubSeq(bins[t], 1, CacheBatch) ELSE <<>>)
          /\ bins' = [bins EXCEPT ![t] = Append(SubSeq(bins[t],
                 Len(IF Len(bins[t]) = CacheCap THEN SubSeq(bins[t], 1, CacheBatch) ELSE <<>>) + 1,
                 Len(bins[t])), b)]
          /\ inUse' = inUse \ {b}
          /\ liveBlocks' = IF seen = "counted" THEN liveBlocks - 1 ELSE liveBlocks
      BY <1>1, <1>3, <1>6 DEF EndFree, Uncount, BinsGood
    <3>2. pool' = q
      BY <2>2, <2>6, <2>8, <2>9, <3>1
    <3>3. bins' = [bins EXCEPT ![t] = Append(SubSeq(s, Len(head) + 1, n), b)]
      BY <2>2, <2>6, <3>1
    <3>4. bins' = [bins EXCEPT ![t] = new]
      BY <2>7, <2>10, <3>3
    <3> QED
      BY <3>1, <3>2, <3>4
  <2>12. PoolGood(p, overwritten) /\ p.flags = [pool.flags EXCEPT ![b] = "cached"]
    BY <1>2, <1>3, <2>1, <2>8, FlagKeeps DEF BusyFlags
  <2>13. p.flags[b] = "cached" /\ \A c \in PoolBlocks : c # b => p.flags[c] = pool.flags[c]
    BY <1>3, <1>2, <2>12 DEF PoolGood, Pools
  <2>14. ASSUME NEW u \in PoolThreads, NEW k \in 1..Len(bins[u])
         PROVE  bins[u][k] \in PoolBlocks /\ bins[u][k] # b /\ p.flags[bins[u][k]] = "cached"
    BY <1>3, <2>1, ElementsAre, <2>13 DEF BinsGood
  <2>15. BinsGood(bins, p)
    BY <1>3, <2>14 DEF BinsGood
  <2>16. CacheCut(bins, p, t, m, q, overwritten)
    BY <2>2, <2>5, <2>7, <2>12, <2>15, CacheCutIs, <2>9
  <2>17. /\ PoolGood(q, overwritten)
         /\ \A c \in PoolBlocks : /\ Lives(q.flags[c]) <=> Lives(p.flags[c])
                                  /\ Lives(p.flags[c]) => q.flags[c] = p.flags[c]
                                  /\ p.flags[c] = "cached" /\ (\A k \in 1..m : s[k] # c)
                                       => q.flags[c] = "cached"
    BY <2>2, <2>16 DEF CacheCut
  <2>18. ~Lives(q.flags[b]) /\ AllButOne(pool, q, b)
    BY <1>2, <2>13, <2>17 DEF AllButOne, Lives
  <2>19. Ledger(q, inUse \ {b}, [freeing EXCEPT ![t] = <<>>],
                IF seen = "counted" THEN liveBlocks - 1 ELSE liveBlocks)
    BY <1>2, <2>1, <2>17, <2>18, FreeEnds
  <2>20. /\ new \in Seq(PoolBlocks) /\ Len(new) = n - m + 1 /\ new[n - m + 1] = b
         /\ \A k \in 1..(n - m) : new[k] = s[m + k]
    BY <2>2, <2>5, <1>2, <2>3, <2>10, RestIs
  <2>21. \A k \in 1..m : s[k] # b
    BY <2>2, <2>5, <2>14
  <2>22. ASSUME NEW k \in 1..(n - m)
         PROVE  new[k] = s[m + k] /\ m + k \in 1..n /\ new[k] # b /\ q.flags[new[k]] = "cached"
    <3>1. new[k] = s[m + k] /\ m + k \in 1..n
      BY <2>5, <2>20
    <3>2. new[k] \in PoolBlocks /\ new[k] # b /\ p.flags[new[k]] = "cached"
      BY <2>2, <2>14, <3>1
    <3>3. \A j \in 1..m : j \in 1..n /\ j # m + k
      BY <2>5
    <3>4. \A j \in 1..m : s[j] # new[k]
      BY <2>2, <2>3, <3>1, <3>3 DEF OneBin
    <3> QED
      BY <2>17, <3>1, <3>2, <3>4
  <2>23. \A k \in 1..(n - m + 1) : k \in 1..(n - m) \/ k = n - m + 1
    BY <2>5
  <2>24. q.flags[b] = "cached"
    BY <1>2, <2>13, <2>17, <2>21
  <2>25. OneBin(new)
    <3>1. ASSUME NEW j \in 1..(n - m), NEW k \in 1..(n - m), new[j] = new[k] PROVE j = k
      BY <2>22, <3>1, <2>2, <2>3, <2>5 DEF OneBin
    <3>2. \A j \in 1..(n - m + 1) : \A k \in 1..(n - m + 1) : new[j] = new[k] => j = k
      BY <2>20, <2>22, <2>23, <3>1
    <3> QED
      BY <2>5, <2>20, <3>2 DEF OneBin
  <2>26. ASSUME NEW k \in 1..(n - m + 1)
         PROVE  /\ q.flags[new[k]] = "cached"
                /\ (\E j \in 1..n : s[j] = new[k]) \/ pool.flags[new[k]] # "cached"
    BY <2>22, <2>1, <2>20, <2>24, <2>23
  <2>27. ASSUME NEW u \in PoolThreads, u # t, NEW k \in 1..Len(bins[u])
         PROVE  q.flags[bins[u][k]] = "cached"
    <3>1. ASSUME NEW j \in 1..m PROVE s[j] # bins[u][k]
      BY <2>2, <2>5, <1>3, <2>27, BinsApart
    <3> QED
      BY <2>14, <2>17, <3>1
  <2>28. BinFits(bins, pool, t, new, q)
    BY <2>2, <2>20, <2>25, <2>26, <2>27 DEF BinFits
  <2>29. BinsGood([bins EXCEPT ![t] = new], q)
    BY <1>3, <2>28, BinChanges
  <2>30. Ledger(q, inUse', freeing', liveBlocks')
    BY <1>4, <2>11, <2>19
  <2> QED
    BY <1>3, <1>4, <2>11, <2>17, <2>29, <2>30 DEF PoolsInv
<1> QED
  BY <1>5, <1>6

(* The cache of a thread that ends goes back to the pool.                    *)
LEMMA FlushThreadCacheKeeps ==
    ASSUME PoolsInv, NEW t \in PoolThreads, FlushThreadCache(t) PROVE PoolsInv'
<1>1. /\ PoolGood(pool, overwritten) /\ overwritten \in BOOLEAN /\ exited \subseteq PoolThreads
      /\ BinsGood(bins, pool) /\ Ledger(pool, inUse, freeing, liveBlocks)
  BY DEF PoolsInv
<1>2. PICK s, m, q : s = bins[t] /\ m = Len(s) /\ q = CacheFlushed(pool, s)
  OBVIOUS
<1>3. /\ pool' = q /\ bins' = [bins EXCEPT ![t] = <<>>] /\ exited' = exited \cup {t}
      /\ freeing' = freeing /\ inUse' = inUse /\ liveBlocks' = liveBlocks
      /\ overwritten' = overwritten
  BY <1>2 DEF FlushThreadCache
<1>4. s \in Seq(PoolBlocks) /\ OneBin(s)
  BY <1>1, <1>2 DEF BinsGood
<1>5. CacheCut(bins, pool, t, m, q, overwritten)
  BY <1>2, <1>4, <1>1, CacheCutIs
<1>6. /\ PoolGood(q, overwritten)
      /\ \A c \in PoolBlocks : /\ Lives(q.flags[c]) <=> Lives(pool.flags[c])
                               /\ Lives(pool.flags[c]) => q.flags[c] = pool.flags[c]
                               /\ pool.flags[c] = "cached" /\ (\A k \in 1..m : s[k] # c)
                                    => q.flags[c] = "cached"
  BY <1>2, <1>5 DEF CacheCut
<1>7. Ledger(q, inUse, freeing, liveBlocks)
  BY <1>6, <1>1, LedgerStays
<1>8. ASSUME NEW u \in PoolThreads, u # t, NEW k \in 1..Len(bins[u])
      PROVE  q.flags[bins[u][k]] = "cached"
  <2>1. bins[u] \in Seq(PoolBlocks) /\ pool.flags[bins[u][k]] = "cached"
    BY <1>1 DEF BinsGood
  <2>2. bins[u][k] \in PoolBlocks
    BY <2>1, ElementsAre
  <2>3. ASSUME NEW j \in 1..m PROVE s[j] # bins[u][k]
    BY <1>2, <1>1, <1>8, BinsApart
  <2> QED
    BY <1>6, <2>1, <2>2, <2>3
<1>9. PICK new : new = <<>>
  OBVIOUS
<1>10. new \in Seq(PoolBlocks) /\ Len(new) = 0 /\ 0 <= CacheCap
  BY <1>9, PoolAssumption
<1>11. OneBin(new)
  BY <1>10 DEF OneBin
<1>12. BinFits(bins, pool, t, new, q)
  BY <1>8, <1>10, <1>11 DEF BinFits
<1>13. BinsGood([bins EXCEPT ![t] = new], q)
  BY <1>1, <1>12, BinChanges
<1> QED
  BY <1>1, <1>3, <1>6, <1>7, <1>9, <1>13 DEF PoolsInv

(* A write to a freed block spoils a link.                                   *)
LEMMA OverwriteStepKeeps ==
    ASSUME PoolsInv, NEW b \in PoolBlocks, Overwrite(b) PROVE PoolsInv'
<1>1. /\ PoolGood(pool, overwritten) /\ overwritten \in BOOLEAN /\ exited \subseteq PoolThreads
      /\ BinsGood(bins, pool) /\ Ledger(pool, inUse, freeing, liveBlocks)
  BY DEF PoolsInv
<1>2. PICK link \in 0..Corrupt : pool' = [pool EXCEPT !.link[b] = link]
  BY DEF Overwrite
<1>3. /\ bins' = bins /\ exited' = exited /\ freeing' = freeing /\ inUse' = inUse
      /\ liveBlocks' = liveBlocks /\ overwritten' = TRUE
  BY DEF Overwrite
<1>4. PICK q : q = [pool EXCEPT !.link[b] = link]
  OBVIOUS
<1>5. PoolGood(q, TRUE) /\ q.flags = pool.flags
  BY <1>1, <1>4, OverwriteKeeps
<1>6. BinsGood(bins, q)
  BY <1>1, <1>5 DEF BinsGood
<1>7. Ledger(q, inUse, freeing, liveBlocks)
  BY <1>1, <1>5, LedgerStays
<1> QED
  BY <1>1, <1>2, <1>3, <1>4, <1>5, <1>6, <1>7 DEF PoolsInv

(* Every step of the pool keeps it whole.                                    *)
LEMMA PoolsStepKeeps == PoolsInv /\ [PoolNext]_poolVars => PoolsInv'
<1> SUFFICES ASSUME PoolsInv, [PoolNext]_poolVars PROVE PoolsInv'
  OBVIOUS
<1>1. ASSUME NEW t \in PoolThreads, AllocCached(t) PROVE PoolsInv'
  BY <1>1, AllocCachedKeeps
<1>2. ASSUME NEW t \in PoolThreads, AllocFromPool(t) PROVE PoolsInv'
  BY <1>2, AllocFromPoolKeeps
<1>3. ASSUME NEW t \in PoolThreads, EndFree(t) PROVE PoolsInv'
  BY <1>3, EndFreeKeeps
<1>4. ASSUME NEW t \in PoolThreads, EndFreeToPool(t) PROVE PoolsInv'
  BY <1>4, EndFreeToPoolKeeps
<1>5. ASSUME NEW t \in PoolThreads, FlushThreadCache(t) PROVE PoolsInv'
  BY <1>5, FlushThreadCacheKeeps
<1>6. ASSUME NEW t \in PoolThreads, NEW b \in PoolBlocks, BeginFree(t, b) PROVE PoolsInv'
  BY <1>6, BeginFreeKeeps
<1>7. CASE EnableStatistics
  BY <1>7 DEF EnableStatistics, PoolsInv
<1>8. ASSUME NEW b \in PoolBlocks, Overwrite(b) PROVE PoolsInv'
  BY <1>8, OverwriteStepKeeps
<1>9. CASE UNCHANGED poolVars
  BY <1>9 DEF poolVars, PoolsInv
<1> QED
  BY <1>1, <1>2, <1>3, <1>4, <1>5, <1>6, <1>7, <1>8, <1>9 DEF PoolNext

(* A set with one element at most has a count of one at most.                *)
LEMMA OneAtMost ==
    ASSUME NEW S, \A x \in S : \A y \in S : x = y
    PROVE  IsFiniteSet(S) /\ Cardinality(S) <= 1
<1>1. CASE S = {}
  BY <1>1, FS_EmptySet
<1>2. CASE S # {}
  <2>1. PICK x \in S : TRUE
    BY <1>2
  <2>2. S = {x}
    BY <2>1
  <2>3. IsFiniteSet({x}) /\ Cardinality({x}) = 1
    BY FS_Singleton
  <2>4. IsFiniteSet(S) /\ Cardinality(S) = 1
    BY <2>2, <2>3
  <2> QED
    BY <2>4
<1> QED
  BY <1>1, <1>2

(* A block in use is in no cache, and a cached one is in one cache once.     *)
LEMMA BlocksAreOnes == PoolsInv => BlocksHaveOneUser
<1> SUFFICES ASSUME PoolsInv, NEW b \in PoolBlocks
             PROVE  Cardinality({use \in PoolThreads \X (1 .. CacheCap) :
                        use[2] \in DOMAIN bins[use[1]] /\ bins[use[1]][use[2]] = b})
                    <= IF b \in inUse THEN 0 ELSE 1
  BY DEF BlocksHaveOneUser
<1>1. BinsGood(bins, pool) /\ Ledger(pool, inUse, freeing, liveBlocks)
  BY DEF PoolsInv
<1>2. PICK S : S = {use \in PoolThreads \X (1 .. CacheCap) :
                        use[2] \in DOMAIN bins[use[1]] /\ bins[use[1]][use[2]] = b}
  OBVIOUS
<1>3. ASSUME NEW use \in S
      PROVE  /\ use \in PoolThreads \X (1 .. CacheCap) /\ use[1] \in PoolThreads
             /\ use[2] \in 1..Len(bins[use[1]]) /\ bins[use[1]][use[2]] = b
             /\ pool.flags[b] = "cached"
  BY <1>2, <1>3, <1>1 DEF BinsGood
<1>4. ASSUME NEW x \in S, NEW y \in S PROVE x = y
  <2>1. x[1] \in PoolThreads /\ y[1] \in PoolThreads /\ x[2] \in 1..Len(bins[x[1]]) /\ y[2] \in 1..Len(bins[y[1]])
        /\ bins[x[1]][x[2]] = bins[y[1]][y[2]]
    BY <1>3
  <2>2. x[1] = y[1]
    BY <1>1, <2>1, BinsApart
  <2>3. OneBin(bins[x[1]])
    BY <1>1, <2>1 DEF BinsGood
  <2>4. x[2] = y[2]
    BY <2>1, <2>2, <2>3 DEF OneBin
  <2>5. x = <<x[1], x[2]>> /\ y = <<y[1], y[2]>>
    BY <1>3
  <2> QED
    BY <2>2, <2>4, <2>5
<1>5. Cardinality(S) <= 1
  BY <1>4, OneAtMost
<1>6. CASE b \in inUse
  <2>1. Lives(pool.flags[b])
    BY <1>1, <1>6 DEF Ledger
  <2>2. S = {}
    BY <1>3, <2>1 DEF Lives
  <2>3. Cardinality(S) = 0
    BY <2>2, FS_EmptySet
  <2> QED
    BY <1>2, <1>6, <2>3
<1> QED
  BY <1>2, <1>5, <1>6

(* What the invariant says of the pool is what the run checks of it.         *)
LEMMA PoolIsWholeThen == PoolsInv => PoolIsWhole
<1> SUFFICES ASSUME PoolsInv PROVE PoolIsWhole
  OBVIOUS
<1>1. PICK p : p = pool
  OBVIOUS
<1>2. PoolGood(p, overwritten) /\ Ledger(p, inUse, freeing, liveBlocks) /\ overwritten \in BOOLEAN
  BY <1>1 DEF PoolsInv
<1>3. /\ p \in Pools /\ PagesListed(p) /\ BusyCounted(p) /\ RoomIsThere(p) /\ RetainedCounted(p)
      /\ ~overwritten => RoomIsKnown(p)
  BY <1>2 DEF PoolGood
<1>4. p.free \in Seq(PageIds) /\ p.current \in {NoIndex} \cup PageIds /\ p.roomy \in SUBSET PageIds
  BY <1>3 DEF Pools
<1>5. DOMAIN p.free = 1..Len(p.free)
  BY <1>4
<1>6. \A i \in PageIds : PageExists(i) <=> There(p, i)
  BY <1>1, <1>3 DEF NoPage, PageExists, There, PagesListed
<1>7. ASSUME NEW i \in PageIds, There(p, i)
      PROVE  p.pages[i].busy = Cardinality({b \in PoolBlocks :
                /\ b.slot = p.pages[i].slot
                /\ Lives(p.flags[b]) \/ p.flags[b] = "cached"})
  BY <1>3, <1>7 DEF BusyOf, Busy, BusyFlags, Lives, BusyCounted
<1>8. \A b \in PoolBlocks : Lives(p.flags[b]) <=> b \in inUse
  BY <1>2 DEF Ledger
<1>9. /\ p.retained = Cardinality({i \in PageIds : p.pages[i].retained})
      /\ p.retained <= RetainedPages
  BY <1>3 DEF RetainedCounted
<1>10. ASSUME NEW i \in PageIds
       PROVE  (~There(p, i) /\ i < p.next) <=> i \in ToSet(p.free)
  BY <1>5, <1>3 DEF ToSet, PagesListed
<1>11. IsInjective(p.free)
  BY <1>3, <1>5 DEF PagesListed, IsInjective
<1>12. \A i \in p.roomy \cup ({p.current} \ {NoIndex}) : i \in PageIds /\ There(p, i)
  BY <1>3, <1>4 DEF RoomIsThere
<1>13. \A i \in PageIds :
          There(p, i) /\ p.pages[i].busy < PageBlocks => i \in p.roomy \/ overwritten
  BY <1>2, <1>3 DEF RoomIsKnown
<1>14. liveBlocks = Cardinality({b \in PoolBlocks : p.flags[b] = "counted"})
  BY <1>2 DEF Ledger, Counted
<1> QED
  BY <1>1, <1>6, <1>7, <1>8, <1>9, <1>10, <1>11, <1>12, <1>13, <1>14 DEF PoolIsWhole

-----------------------------------------------------------------------------
(* Sums over finite sets, as the library computes them: one element after    *)
(* the other, in whatever order they are chosen.                             *)
AnyOf(T) == CHOOSE x \in T : TRUE
SumOf(w, T) == MapThenSumSet(LAMBDA s : w[s], T)
SumStep(f, w, U) == IF U = {} THEN 0 ELSE w[AnyOf(U)] + f[U \ {AnyOf(U)}]
Sums(f, w, T) == f = [U \in SUBSET T |-> SumStep(f, w, U)]

LEMMA AnyOfIs == ASSUME NEW T, T # {} PROVE AnyOf(T) \in T
  BY DEF AnyOf

(* The sum is the value of the function that the library defines.            *)
LEMMA SumIsItsFunction ==
    ASSUME NEW w, NEW T
    PROVE  SumOf(w, T) = (CHOOSE f : Sums(f, w, T))[T]
  BY DEF SumOf, MapThenSumSet, MapThenFoldSet, Sums, SumStep, AnyOf

(* There is such a function for every finite set.                            *)
LEMMA SumsThere ==
    ASSUME NEW T, IsFiniteSet(T), NEW w, \A x \in T : w[x] \in Int
    PROVE  \E f \in [SUBSET T -> Int] : Sums(f, w, T)
<1> DEFINE Upto(f, n) == \A U \in SUBSET T : Cardinality(U) <= n => f[U] = SumStep(f, w, U)
           bad == {n \in Nat : ~\E f \in [SUBSET T -> Int] : Upto(f, n)}
<1>0. \A U \in SUBSET T : IsFiniteSet(U) /\ Cardinality(U) \in Nat /\ Cardinality(U) <= Cardinality(T)
  BY FS_Subset, FS_CardinalityType
<1>1. bad = {}
  <2>1. SUFFICES ASSUME bad # {} PROVE FALSE
    OBVIOUS
  <2>2. PICK n \in bad : \A m \in bad : n <= m
    BY <2>1, LeastOf
  <2>3. PICK g \in [SUBSET T -> Int] : n = 0 \/ Upto(g, n - 1)
    <3>1. CASE n = 0
      <4>1. [U \in SUBSET T |-> 0] \in [SUBSET T -> Int]
        OBVIOUS
      <4> QED
        BY <3>1, <4>1
    <3>2. CASE n # 0
      <4>1. n \in Nat /\ bad \subseteq Nat /\ \A m \in bad : n <= m
        BY <2>2
      <4>2. n - 1 \in Nat /\ n - 1 \notin bad
        <5> HIDE DEF bad
        <5> QED
          BY <3>2, <4>1
      <4> QED
        BY <4>2
    <3> QED
      BY <3>1, <3>2
  <2> DEFINE h == [U \in SUBSET T |-> IF Cardinality(U) = n THEN SumStep(g, w, U) ELSE g[U]]
  <2>4. ASSUME NEW U \in SUBSET T, U # {}
        PROVE  /\ AnyOf(U) \in U /\ w[AnyOf(U)] \in Int
               /\ U \ {AnyOf(U)} \in SUBSET T
               /\ Cardinality(U \ {AnyOf(U)}) = Cardinality(U) - 1
    BY <2>4, AnyOfIs, <1>0, CountOneLess
  <2>5. \A U \in SUBSET T : SumStep(g, w, U) \in Int
    <3>1. ASSUME NEW U \in SUBSET T, U # {} PROVE SumStep(g, w, U) \in Int
      <4>1. w[AnyOf(U)] \in Int /\ g[U \ {AnyOf(U)}] \in Int
        BY <2>4, <3>1
      <4> QED
        BY <3>1, <4>1 DEF SumStep
    <3>2. ASSUME NEW U \in SUBSET T, U = {} PROVE SumStep(g, w, U) \in Int
      BY <3>2 DEF SumStep
    <3> QED
      BY <3>1, <3>2
  <2>6. h \in [SUBSET T -> Int]
    BY <2>5
  <2>7. ASSUME NEW U \in SUBSET T, Cardinality(U) <= n PROVE h[U] = SumStep(h, w, U)
    <3>1. CASE U = {}
      BY <3>1, FS_EmptySet, <2>2, <2>3 DEF SumStep
    <3>2. CASE U # {}
      <4> DEFINE x == AnyOf(U)
                 V == U \ {x}
      <4>1. x \in U /\ V \in SUBSET T /\ Cardinality(V) = Cardinality(U) - 1
        BY <2>4, <3>2
      <4>2. Cardinality(U) \in Nat /\ Cardinality(V) \in Nat /\ n \in Nat
        BY <1>0, <2>2, <4>1
      <4>3. Cardinality(V) # n
        BY <2>7, <4>1, <4>2
      <4>4. h[V] = g[V]
        BY <4>1, <4>3
      <4>5. SumStep(h, w, U) = SumStep(g, w, U)
        BY <3>2, <4>4 DEF SumStep
      <4>6. CASE Cardinality(U) = n
        BY <4>5, <4>6
      <4>7. CASE Cardinality(U) # n
        BY <2>7, <4>1, <4>2, <4>7, <2>3, <4>5
      <4> QED
        BY <4>6, <4>7
    <3> QED
      BY <3>1, <3>2
  <2>8. Upto(h, n)
    BY <2>7
  <2> HIDE DEF h, Upto
  <2> QED
    BY <2>2, <2>6, <2>8
<1>2. PICK f \in [SUBSET T -> Int] : Upto(f, Cardinality(T))
  BY FS_CardinalityType, <1>1
<1>3. \A U \in SUBSET T : f[U] = SumStep(f, w, U)
  BY <1>0, <1>2
<1>4. f = [U \in SUBSET T |-> SumStep(f, w, U)]
  BY <1>3
<1> QED
  BY <1>4 DEF Sums

(* Two such functions agree where their weights do.                          *)
LEMMA SumsAgree ==
    ASSUME NEW S, NEW T, NEW f, NEW g, NEW w, NEW v, Sums(f, w, S), Sums(g, v, T),
           NEW W, W \subseteq S, W \subseteq T, IsFiniteSet(W), \A x \in W : w[x] = v[x]
    PROVE  f[W] = g[W]
<1> DEFINE bad == {U \in SUBSET W : f[U] # g[U]}
           sizes == {Cardinality(U) : U \in bad}
<1>0. \A U \in SUBSET W : IsFiniteSet(U) /\ Cardinality(U) \in Nat
  BY FS_Subset, FS_CardinalityType
<1>1. SUFFICES ASSUME bad # {} PROVE FALSE
  OBVIOUS
<1>2. sizes \subseteq Nat /\ sizes # {}
  BY <1>0, <1>1
<1>3. PICK n \in sizes : \A m \in sizes : n <= m
  BY <1>2, LeastOf
<1>4. PICK U \in bad : n = Cardinality(U)
  OBVIOUS
<1>5. f[U] = SumStep(f, w, U) /\ g[U] = SumStep(g, v, U)
  BY DEF Sums
<1>6. CASE U = {}
  BY <1>5, <1>6 DEF SumStep
<1>7. CASE U # {}
  <2> DEFINE x == AnyOf(U)
             V == U \ {x}
  <2>1. x \in U /\ V \in SUBSET W /\ w[x] = v[x]
    BY <1>7, AnyOfIs
  <2>2. Cardinality(V) = n - 1 /\ n \in Nat
    BY <1>0, <1>4, <2>1, CountOneLess
  <2>3. V \notin bad
    BY <1>3, <2>2
  <2>4. f[V] = g[V]
    BY <2>1, <2>3
  <2> QED
    BY <1>4, <1>5, <1>7, <2>1, <2>4 DEF SumStep
<1> QED
  BY <1>6, <1>7

(* So the sum is any such function's value.                                  *)
LEMMA SumIs ==
    ASSUME NEW T, IsFiniteSet(T), NEW w, \A x \in T : w[x] \in Int
    PROVE  /\ SumOf(w, T) \in Int
           /\ \A S : \A f : IsFiniteSet(S) /\ T \subseteq S /\ Sums(f, w, S) => SumOf(w, T) = f[T]
<1> DEFINE g == CHOOSE f : Sums(f, w, T)
<1>1. PICK h \in [SUBSET T -> Int] : Sums(h, w, T)
  BY SumsThere
<1>2. Sums(g, w, T)
  BY <1>1
<1>3. SumOf(w, T) = g[T]
  BY SumIsItsFunction
<1> HIDE DEF g
<1>4. g[T] = h[T]
  BY <1>1, <1>2, SumsAgree
<1>5. ASSUME NEW S, NEW f, T \subseteq S, Sums(f, w, S) PROVE g[T] = f[T]
  BY <1>2, <1>5, SumsAgree
<1> QED
  BY <1>1, <1>3, <1>4, <1>5

(* Equal weights, equal sums.                                                *)
LEMMA SumAgrees ==
    ASSUME NEW T, IsFiniteSet(T), NEW w, NEW v, \A x \in T : w[x] = v[x] /\ w[x] \in Int
    PROVE  SumOf(w, T) = SumOf(v, T)
<1>1. PICK f \in [SUBSET T -> Int] : Sums(f, w, T)
  BY SumsThere
<1>2. PICK g \in [SUBSET T -> Int] : Sums(g, v, T)
  BY SumsThere
<1>3. f[T] = g[T]
  BY <1>1, <1>2, SumsAgree
<1> QED
  BY <1>1, <1>2, <1>3, SumIs

LEMMA SumOfNone == ASSUME NEW w PROVE SumOf(w, {}) = 0
<1>1. PICK f \in [SUBSET {} -> Int] : Sums(f, w, {})
  BY SumsThere, FS_EmptySet
<1>2. f[{}] = SumStep(f, w, {})
  BY <1>1 DEF Sums
<1>3. SumOf(w, {}) = f[{}]
  BY <1>1, SumIs, FS_EmptySet
<1> QED
  BY <1>2, <1>3 DEF SumStep

(* Whichever element is taken out first, the sum is what it weighs and the   *)
(* sum of the others.                                                        *)
LEMMA SumTakesOut ==
    ASSUME NEW T, IsFiniteSet(T), NEW w, \A x \in T : w[x] \in Int, NEW e \in T
    PROVE  /\ SumOf(w, T) = w[e] + SumOf(w, T \ {e})
           /\ SumOf(w, T) \in Int /\ SumOf(w, T \ {e}) \in Int
<1>1. PICK f \in [SUBSET T -> Int] : Sums(f, w, T)
  BY SumsThere
<1> DEFINE bad == {U \in SUBSET T : ~\A x \in U : f[U] = w[x] + f[U \ {x}]}
           sizes == {Cardinality(U) : U \in bad}
<1>0. \A U \in SUBSET T : IsFiniteSet(U) /\ Cardinality(U) \in Nat
  BY FS_Subset, FS_CardinalityType
<1>2. bad = {}
  <2>1. SUFFICES ASSUME bad # {} PROVE FALSE
    OBVIOUS
  <2>2. sizes \subseteq Nat /\ sizes # {}
    BY <1>0, <2>1
  <2>3. PICK n \in sizes : \A m \in sizes : n <= m
    BY <2>2, LeastOf
  <2>4. PICK U \in bad : n = Cardinality(U)
    OBVIOUS
  <2>5. PICK x \in U : f[U] # w[x] + f[U \ {x}]
    OBVIOUS
  <2> DEFINE y == AnyOf(U)
  <2>6. y \in U
    BY AnyOfIs
  <2>7. f[U] = w[y] + f[U \ {y}]
    BY <1>1, <2>5 DEF Sums, SumStep
  <2> HIDE DEF y
  <2>8. x # y
    BY <2>5, <2>7
  <2>9. \A z \in U : U \ {z} \notin bad /\ U \ {z} \in SUBSET T
    <3>1. ASSUME NEW z \in U PROVE U \ {z} \notin bad
      <4>1. Cardinality(U \ {z}) = n - 1 /\ n \in Nat
        BY <1>0, <2>4, CountOneLess
      <4>2. Cardinality(U \ {z}) \notin sizes
        BY <2>3, <4>1
      <4> QED
        BY <4>2
    <3> QED
      BY <3>1
  <2>10. f[U \ {y}] = w[x] + f[(U \ {y}) \ {x}]
    BY <2>6, <2>8, <2>9
  <2>11. f[U \ {x}] = w[y] + f[(U \ {x}) \ {y}]
    BY <2>6, <2>8, <2>9
  <2>12. (U \ {y}) \ {x} = (U \ {x}) \ {y} /\ (U \ {x}) \ {y} \in SUBSET T
    OBVIOUS
  <2>13. PICK rest \in Int : rest = f[(U \ {x}) \ {y}]
    BY <2>12
  <2>14. w[x] \in Int /\ w[y] \in Int
    BY <2>6
  <2>15. f[U] = w[y] + (w[x] + rest)
    BY <2>7, <2>10, <2>12, <2>13
  <2>16. f[U] # w[x] + (w[y] + rest)
    BY <2>5, <2>11, <2>13
  <2> HIDE DEF bad, sizes
  <2> QED
    BY <2>13, <2>14, <2>15, <2>16
<1>3. f[T] = w[e] + f[T \ {e}]
  BY <1>2
<1>4. T \ {e} \subseteq T /\ IsFiniteSet(T \ {e})
  BY <1>0
<1>5. SumOf(w, T) = f[T] /\ SumOf(w, T \ {e}) = f[T \ {e}]
  BY <1>1, <1>4, SumIs
<1> QED
  BY <1>1, <1>3, <1>5

(* One element more.                                                         *)
LEMMA SumPutsIn ==
    ASSUME NEW T, IsFiniteSet(T), NEW w, \A x \in T : w[x] \in Int, NEW e, e \notin T, w[e] \in Int
    PROVE  SumOf(w, T \cup {e}) = SumOf(w, T) + w[e] /\ SumOf(w, T) \in Int
<1>1. IsFiniteSet(T \cup {e}) /\ (T \cup {e}) \ {e} = T
  BY FS_AddElement
<1>2. /\ SumOf(w, T \cup {e}) = w[e] + SumOf(w, (T \cup {e}) \ {e})
      /\ SumOf(w, (T \cup {e}) \ {e}) \in Int
  BY <1>1, SumTakesOut
<1>3. SumOf(w, T) \in Int /\ SumOf(w, T \cup {e}) = w[e] + SumOf(w, T)
  BY <1>1, <1>2
<1> QED
  BY <1>3

(* One element weighs something else.                                        *)
LEMMA SumChanges ==
    ASSUME NEW T, IsFiniteSet(T), NEW w, \A x \in T : w[x] \in Int, NEW e \in T, NEW n \in Int,
           NEW v, v[e] = n, \A x \in T : x # e => v[x] = w[x]
    PROVE  SumOf(v, T) = SumOf(w, T) + n - w[e] /\ SumOf(w, T) \in Int
<1>1. SumOf(v, T) = v[e] + SumOf(v, T \ {e})
  BY SumTakesOut
<1>2. SumOf(w, T) = w[e] + SumOf(w, T \ {e}) /\ SumOf(w, T \ {e}) \in Int
  BY SumTakesOut
<1>3. IsFiniteSet(T \ {e})
  BY FS_RemoveElement
<1>4. SumOf(w, T \ {e}) = SumOf(v, T \ {e})
  BY <1>3, SumAgrees
<1> QED
  BY <1>1, <1>2, <1>4

(* What weighs nothing sums up to nothing.                                   *)
LEMMA SumOfZeros ==
    ASSUME NEW T, IsFiniteSet(T), NEW w, \A x \in T : w[x] = 0
    PROVE  SumOf(w, T) = 0
<1>1. PICK f \in [SUBSET T -> Int] : Sums(f, w, T)
  <2>1. \A x \in T : w[x] \in Int
    OBVIOUS
  <2> QED
    BY <2>1, SumsThere
<1> DEFINE bad == {U \in SUBSET T : f[U] # 0}
           sizes == {Cardinality(U) : U \in bad}
<1>0. \A U \in SUBSET T : IsFiniteSet(U) /\ Cardinality(U) \in Nat
  BY FS_Subset, FS_CardinalityType
<1>2. SUFFICES ASSUME bad # {} PROVE FALSE
  BY <1>1, SumIs
<1>3. sizes \subseteq Nat /\ sizes # {}
  BY <1>0, <1>2
<1>4. PICK n \in sizes : \A m \in sizes : n <= m
  BY <1>3, LeastOf
<1>5. PICK U \in bad : n = Cardinality(U)
  OBVIOUS
<1>6. f[U] = SumStep(f, w, U)
  BY <1>1 DEF Sums
<1>7. CASE U = {}
  BY <1>5, <1>6, <1>7 DEF SumStep
<1>8. CASE U # {}
  <2> DEFINE x == AnyOf(U)
             V == U \ {x}
  <2>1. x \in U /\ V \in SUBSET T /\ w[x] = 0
    BY <1>8, AnyOfIs
  <2>2. Cardinality(V) = n - 1 /\ n \in Nat
    BY <1>0, <1>5, <2>1, CountOneLess
  <2>3. V \notin bad
    BY <1>4, <2>2
  <2>4. f[V] = 0
    BY <2>1, <2>3
  <2> QED
    BY <1>5, <1>6, <1>8, <2>1, <2>4 DEF SumStep
<1> QED
  BY <1>7, <1>8

-----------------------------------------------------------------------------
(* The slots of the large blocks.  Every slot is in one place: available,    *)
(* kept, a user's, or marked by a thread that is still to give it back.      *)

Held == {h[1] : h \in holders}
KeptOf(k) == UNION {ToSet(k[c]) : c \in Classes}
Distinct(q) == \A i \in 1..Len(q) : \A j \in 1..Len(q) : q[i] = q[j] => i = j

SlotTypes ==
    /\ committed \in [Slots -> Nat]
    /\ available \subseteq Slots
    /\ kept \in [Classes -> Seq(Slots)]
    /\ \A c \in Classes : \A i \in 1..Len(kept[c]) : kept[c][i].class = c
    /\ budget \in Int
    /\ usedCount \in [Classes -> Int] /\ total \in [Classes -> Int]
    /\ asking \in [SlotThreads -> {<<>>} \cup (Classes \X Nat)]
    /\ returning \in [SlotThreads -> {<<>>} \cup {<<s>> : s \in Slots}]
    /\ holders \subseteq Slots \X Nat

SlotPlaces ==
    /\ Held \cup Unreleased \cup KeptOf(kept) \cup available = Slots
    /\ Held \cap Unreleased = {} /\ Held \cap KeptOf(kept) = {} /\ Held \cap available = {}
    /\ Unreleased \cap KeptOf(kept) = {} /\ Unreleased \cap available = {}
    /\ KeptOf(kept) \cap available = {}
    /\ \A g \in holders : \A h \in holders : g[1] = h[1] => g = h
    /\ \A t \in SlotThreads : \A u \in SlotThreads :
          returning[t] # <<>> /\ returning[t] = returning[u] => t = u
    /\ \A c \in Classes : Distinct(kept[c])

SlotContents ==
    /\ \A h \in holders : committed[h[1]] = h[2]
    /\ \A s \in available : committed[s] = 0

OfClass(c) == {s \in Slots : s.class = c}
HeldOf(c) == {h \in holders : h[1].class = c}
UnreleasedOf(c) == {s \in Unreleased : s.class = c}
SlotCounts ==
    /\ IsFiniteSet(holders)
    /\ \A c \in Classes :
          /\ total[c] = SumOf(committed, OfClass(c))
          /\ usedCount[c] = Cardinality(HeldOf(c)) + Cardinality(UnreleasedOf(c))
          /\ Len(kept[c]) <= KeptSlots

SlotBudget == budget = SumOf(committed, KeptOf(kept)) /\ budget <= KeptPages

SlotsInv == SlotTypes /\ SlotPlaces /\ SlotContents /\ SlotCounts /\ SlotBudget

LEMMA SlotsAreFinite == IsFiniteSet(Slots) /\ \A S \in SUBSET Slots : IsFiniteSet(S)
<1>1. Classes = 1..Len(SlotPages) /\ Len(SlotPages) \in Nat
  BY SlotAssumption DEF Classes
<1>2. IsFiniteSet(Classes) /\ IsFiniteSet(0 .. SlotCount - 1)
  BY <1>1, SlotAssumption, FS_Interval
<1> DEFINE pairs == Classes \X (0 .. SlotCount - 1)
           f == [x \in pairs |-> [class |-> x[1], index |-> x[2]]]
<1>3. IsFiniteSet(pairs)
  BY <1>2, FS_Product
<1>4. f \in Surjection(pairs, Slots)
  <2>1. f \in [pairs -> Slots]
    BY DEF Slots
  <2>2. ASSUME NEW s \in Slots PROVE \E x \in pairs : f[x] = s
    <3>1. <<s.class, s.index>> \in pairs /\ s = [class |-> s.class, index |-> s.index]
      BY DEF Slots
    <3>2. f[<<s.class, s.index>>] = s
      BY <3>1
    <3> QED
      BY <3>1, <3>2
  <2> HIDE DEF f, pairs
  <2> QED
    BY <2>1, <2>2 DEF Surjection
<1> HIDE DEF f, pairs
<1>5. IsFiniteSet(Slots)
  BY <1>3, <1>4, FS_Surjection
<1> QED
  BY <1>5, FS_Subset

(* A sequence of distinct slots without its last, and with one more.         *)
LEMMA DistinctFront ==
    ASSUME NEW S, NEW q \in Seq(S), q # <<>>, Distinct(q)
    PROVE  /\ Last(q) \in ToSet(q) /\ Last(q) \in S
           /\ Front(q) \in Seq(S) /\ Len(Front(q)) = Len(q) - 1 /\ Len(q) \in Nat \ {0}
           /\ ToSet(Front(q)) = ToSet(q) \ {Last(q)} /\ Distinct(Front(q))
<1> DEFINE f == Front(q)
           n == Len(q)
<1>1. /\ f \in Seq(S) /\ Len(f) = n - 1 /\ n \in Nat \ {0}
      /\ \A i \in 1..Len(f) : f[i] = q[i]
      /\ Last(q) = q[n] /\ Last(q) \in S
  BY FrontIs
<1>2. DOMAIN q = 1..n /\ DOMAIN f = 1..(n - 1)
  BY <1>1
<1> HIDE DEF f, n
<1>3. \A i \in 1..(n - 1) : i \in 1..n /\ i # n /\ f[i] = q[i]
  BY <1>1
<1>4. n \in 1..n /\ \A i \in 1..n : i = n \/ i \in 1..(n - 1)
  BY <1>1
<1>5. ToSet(f) = ToSet(q) \ {q[n]}
  <2>1. ASSUME NEW i \in 1..(n - 1) PROVE f[i] \in ToSet(q) \ {q[n]}
    BY <1>2, <1>3, <1>4 DEF ToSet, Distinct, n
  <2>2. ASSUME NEW i \in 1..n, q[i] # q[n] PROVE q[i] \in ToSet(f)
    BY <1>2, <1>3, <1>4, <2>2 DEF ToSet
  <2> QED
    BY <1>2, <2>1, <2>2 DEF ToSet
<1>6. Distinct(f)
  BY <1>1, <1>3 DEF Distinct, n
<1>7. q[n] \in ToSet(q)
  BY <1>2, <1>4 DEF ToSet
<1> QED
  BY <1>1, <1>5, <1>6, <1>7 DEF f, n

LEMMA DistinctAppend ==
    ASSUME NEW S, NEW q \in Seq(S), Distinct(q), NEW e \in S, e \notin ToSet(q)
    PROVE  /\ Append(q, e) \in Seq(S) /\ Len(Append(q, e)) = Len(q) + 1 /\ Len(q) \in Nat
           /\ ToSet(Append(q, e)) = ToSet(q) \cup {e} /\ Distinct(Append(q, e))
<1> DEFINE f == Append(q, e)
           n == Len(q)
<1>1. /\ f \in Seq(S) /\ Len(f) = n + 1 /\ n \in Nat
      /\ \A i \in 1..n : f[i] = q[i]
      /\ f[n + 1] = e
  BY AppendIs
<1>2. DOMAIN q = 1..n /\ DOMAIN f = 1..(n + 1)
  BY <1>1
<1> HIDE DEF f, n
<1>3. \A i \in 1..n : i \in 1..(n + 1) /\ i # n + 1 /\ f[i] = q[i] /\ q[i] # e
  BY <1>1, <1>2 DEF ToSet
<1>4. n + 1 \in 1..(n + 1) /\ \A i \in 1..(n + 1) : i = n + 1 \/ i \in 1..n
  BY <1>1
<1>5. ToSet(f) = ToSet(q) \cup {e}
  BY <1>1, <1>2, <1>3, <1>4 DEF ToSet
<1>6. Distinct(f)
  <2>1. ASSUME NEW i \in 1..(n + 1), NEW j \in 1..(n + 1), f[i] = f[j] PROVE i = j
    BY <1>3, <2>1, <1>1, <1>4 DEF Distinct, n
  <2> QED
    BY <1>1, <2>1 DEF Distinct
<1> QED
  BY <1>1, <1>5, <1>6 DEF f, n

(* What is kept changes for one class.                                       *)
KeptBecomes(k, c, q) ==
    k \in [Classes -> Seq(Slots)] /\ k[c] = q /\ \A d \in Classes : d # c => k[d] = kept[d]
AllOfClass(T, c) == \A x \in T : x.class = c
IsWithout(A, B, s) == A = B \ {s}
IsWith(A, B, s) == A = B \cup {s}
KeptByClass(k) == \A d \in Classes : \A i \in 1..Len(k[d]) : k[d][i].class = d
KeptDistinct(k) == \A d \in Classes : Distinct(k[d])

LEMMA KeptChanges ==
    ASSUME SlotTypes, NEW c \in Classes, NEW q \in Seq(Slots), NEW k, KeptBecomes(k, c, q),
           NEW s \in Slots, s.class = c, AllOfClass(ToSet(q), c), Distinct(q), KeptDistinct(kept)
    PROVE  /\ IsWithout(ToSet(q), ToSet(kept[c]), s) => IsWithout(KeptOf(k), KeptOf(kept), s)
           /\ IsWith(ToSet(q), ToSet(kept[c]), s) => IsWith(KeptOf(k), KeptOf(kept), s)
           /\ k \in [Classes -> Seq(Slots)] /\ KeptByClass(k) /\ KeptDistinct(k)
<1>1. k \in [Classes -> Seq(Slots)] /\ k[c] = q /\ \A d \in Classes : d # c => k[d] = kept[d]
  BY DEF KeptBecomes
<1>2. ASSUME NEW d \in Classes, NEW i \in 1..Len(k[d]) PROVE k[d][i].class = d
  <2>1. CASE d = c
    BY <1>1, <1>2, <2>1 DEF ToSet, AllOfClass
  <2>2. CASE d # c
    BY <1>1, <1>2, <2>2 DEF SlotTypes
  <2> QED
    BY <2>1, <2>2
<1>3. ASSUME NEW d \in Classes, d # c PROVE s \notin ToSet(kept[d])
  <2>1. kept[d] \in Seq(Slots) /\ DOMAIN kept[d] = 1..Len(kept[d])
    BY DEF SlotTypes
  <2>2. ASSUME NEW i \in 1..Len(kept[d]) PROVE kept[d][i] # s
    BY <1>3 DEF SlotTypes
  <2>3. \A x \in ToSet(kept[d]) : \E i \in 1..Len(kept[d]) : kept[d][i] = x
    BY <2>1 DEF ToSet
  <2> QED
    BY <2>2, <2>3
<1>4. ASSUME ToSet(q) = ToSet(kept[c]) \ {s} PROVE KeptOf(k) = KeptOf(kept) \ {s}
  BY <1>1, <1>3, <1>4 DEF KeptOf
<1>5. ASSUME ToSet(q) = ToSet(kept[c]) \cup {s} PROVE KeptOf(k) = KeptOf(kept) \cup {s}
  <2> HIDE DEF ToSet
  <2>1. \A d \in Classes : ToSet(k[d]) = IF d = c THEN ToSet(kept[c]) \cup {s} ELSE ToSet(kept[d])
    BY <1>1, <1>5
  <2> QED
    BY <2>1 DEF KeptOf
<1>6. KeptByClass(k)
  BY <1>2 DEF KeptByClass
<1>7. KeptDistinct(k)
  BY <1>1 DEF KeptDistinct
<1>8. IsWithout(ToSet(q), ToSet(kept[c]), s) => IsWithout(KeptOf(k), KeptOf(kept), s)
  BY <1>4 DEF IsWithout
<1>9. IsWith(ToSet(q), ToSet(kept[c]), s) => IsWith(KeptOf(k), KeptOf(kept), s)
  BY <1>5 DEF IsWith
<1> QED
  BY <1>1, <1>6, <1>7, <1>8, <1>9

LEMMA KeptClasses ==
    ASSUME SlotTypes, NEW c \in Classes PROVE \A x \in ToSet(kept[c]) : x.class = c
  BY DEF SlotTypes, ToSet

LEMMA SlotsStart == SlotStart => SlotsInv
<1> SUFFICES ASSUME SlotStart PROVE SlotsInv
  OBVIOUS
<1>1. SlotTypes
  BY SlotAssumption DEF SlotStart, SlotTypes
<1>2. Held = {} /\ Unreleased = {} /\ KeptOf(kept) = {}
  BY DEF SlotStart, ToSet, Held, Unreleased, KeptOf
<1>3. SlotPlaces
  BY <1>2 DEF SlotStart, SlotPlaces, Distinct
<1>4. SlotContents
  BY DEF SlotStart, SlotContents
<1>5. SlotCounts
  <2>1. IsFiniteSet(holders)
    BY FS_EmptySet DEF SlotStart
  <2>2. ASSUME NEW c \in Classes
        PROVE  /\ total[c] = SumOf(committed, OfClass(c))
               /\ usedCount[c] = Cardinality(HeldOf(c)) + Cardinality(UnreleasedOf(c))
               /\ Len(kept[c]) <= KeptSlots
    <3>1. HeldOf(c) = {} /\ UnreleasedOf(c) = {} /\ usedCount[c] = 0
      BY <1>2 DEF SlotStart, HeldOf, UnreleasedOf
    <3>2. Cardinality(HeldOf(c)) + Cardinality(UnreleasedOf(c)) = 0
      BY <3>1, FS_EmptySet
    <3>3. SumOf(committed, OfClass(c)) = 0
      BY SlotsAreFinite, SumOfZeros DEF OfClass, SlotStart
    <3>4. kept[c] = <<>> /\ total[c] = 0
      BY DEF SlotStart
    <3> QED
      BY <3>1, <3>2, <3>3, <3>4, SlotAssumption
  <2> QED
    BY <2>1, <2>2 DEF SlotCounts
<1>6. SlotBudget
  <2>1. SumOf(committed, KeptOf(kept)) = 0
    BY <1>2, SumOfNone
  <2> QED
    BY <2>1, SlotAssumption DEF SlotStart, SlotBudget
<1> QED
  BY <1>1, <1>3, <1>4, <1>5, <1>6 DEF SlotsInv

(* A thread asks, or is sent on to the next class: only that changes.        *)
LEMMA SlotsStay ==
    ASSUME SlotsInv,
           UNCHANGED <<committed, available, kept, budget, usedCount, total, returning, holders>>,
           asking' \in [SlotThreads -> {<<>>} \cup (Classes \X Nat)]
    PROVE  SlotsInv'
<1>1. SlotTypes'
  BY DEF SlotsInv, SlotTypes
<1>2. SlotPlaces'
  <2>1. Held' = Held /\ Unreleased' = Unreleased /\ KeptOf(kept)' = KeptOf(kept)
    BY DEF Held, Unreleased, KeptOf
  <2>2. \A c \in Classes : Distinct(kept[c])'
    BY DEF SlotsInv, SlotPlaces, Distinct
  <2> QED
    BY <2>1, <2>2 DEF SlotsInv, SlotPlaces
<1>3. SlotContents'
  BY DEF SlotsInv, SlotContents
<1>4. SlotCounts'
  BY ZenonT(60) DEF SlotsInv, SlotCounts, HeldOf, UnreleasedOf, Unreleased
<1>5. SlotBudget'
  BY DEF SlotsInv, SlotBudget, KeptOf
<1> QED
  BY <1>1, <1>2, <1>3, <1>4, <1>5 DEF SlotsInv

LEMMA AskingKeeps ==
    ASSUME SlotsInv, NEW t \in SlotThreads,
           (\E pages \in 1 .. Max(ToSet(SlotPages)) : BeginLarge(t, pages)) \/ TakeNone(t)
    PROVE  SlotsInv'
<1>0. Classes = 1..Len(SlotPages) /\ Len(SlotPages) \in Nat \ {0}
  BY SlotAssumption DEF Classes
<1>1. CASE \E pages \in 1 .. Max(ToSet(SlotPages)) : BeginLarge(t, pages)
  <2>1. PICK pages \in 1 .. Max(ToSet(SlotPages)) : BeginLarge(t, pages)
    BY <1>1
  <2>2. pages \in Nat /\ 1 \in Classes
    BY <1>0
  <2>3. asking' \in [SlotThreads -> {<<>>} \cup (Classes \X Nat)]
    BY <2>1, <2>2 DEF BeginLarge, SlotsInv, SlotTypes
  <2> QED
    BY <2>1, <2>3, SlotsStay DEF BeginLarge
<1>2. CASE TakeNone(t)
  <2>1. asking[t] \in Classes \X Nat
    BY <1>2 DEF TakeNone, SlotsInv, SlotTypes
  <2>2. asking[t][1] # Len(SlotPages) => asking[t][1] + 1 \in Classes
    BY <1>0, <2>1
  <2>3. asking' \in [SlotThreads -> {<<>>} \cup (Classes \X Nat)]
    BY <1>2, <2>1, <2>2 DEF TakeNone, PassOver, SlotsInv, SlotTypes
  <2> QED
    BY <1>2, <2>3, SlotsStay DEF TakeNone
<1> QED
  BY <1>1, <1>2

(* A slot that is somebody's is one that nobody else holds.                  *)
LEMMA ChoiceIs ==
    ASSUME SlotsInv, NEW c \in Classes, NEW s \in Choice(c)
    PROVE  /\ s \in Slots /\ s.class = c /\ s \notin Held /\ s \notin Unreleased
           /\ kept[c] # <<>> => s = Last(kept[c]) /\ s \in KeptOf(kept) /\ s \notin available
           /\ kept[c] = <<>> => s \in available /\ s \notin KeptOf(kept)
<1>1. CASE kept[c] # <<>>
  <2>1. s = Last(kept[c])
    BY <1>1 DEF Choice
  <2>2. kept[c] \in Seq(Slots) /\ Distinct(kept[c])
    BY DEF SlotsInv, SlotTypes, SlotPlaces
  <2>3. s \in ToSet(kept[c]) /\ s \in Slots
    BY <1>1, <2>1, <2>2, DistinctFront
  <2>4. s \in KeptOf(kept)
    BY <2>3 DEF KeptOf
  <2>5. s.class = c
    BY <2>3, KeptClasses DEF SlotsInv
  <2> QED
    BY <1>1, <2>1, <2>3, <2>4, <2>5 DEF SlotsInv, SlotPlaces
<1>2. CASE kept[c] = <<>>
  BY <1>2 DEF Choice, SlotsInv, SlotTypes, SlotPlaces
<1> QED
  BY <1>1, <1>2

LEMMA TakeSlotKeeps ==
    ASSUME SlotsInv, NEW t \in SlotThreads, TakeSlot(t)
    PROVE  SlotsInv'
<1>1. asking[t] \in Classes \X Nat
  BY DEF TakeSlot, SlotsInv, SlotTypes
<1>2. PICK c \in Classes, pages \in Nat : asking[t][1] = c /\ asking[t][2] = pages
  BY <1>1
<1>3. PICK s \in Choice(c) :
        /\ committed' = [committed EXCEPT ![s] = pages]
        /\ total' = [total EXCEPT ![c] = @ + pages - committed[s]]
        /\ IF kept[c] # <<>>
           THEN /\ kept' = [kept EXCEPT ![c] = Front(@)]
                /\ budget' = budget - committed[s]
                /\ UNCHANGED available
           ELSE /\ available' = available \ {s}
                /\ UNCHANGED <<kept, budget>>
        /\ holders' = holders \cup {<<s, pages>>}
  BY <1>2 DEF TakeSlot, Charge
<1>4. /\ usedCount' = [usedCount EXCEPT ![c] = @ + 1]
      /\ asking' = [asking EXCEPT ![t] = <<>>] /\ returning' = returning
  BY <1>2 DEF TakeSlot
<1>5. /\ s \in Slots /\ s.class = c /\ s \notin Held /\ s \notin Unreleased
      /\ kept[c] # <<>> => s = Last(kept[c]) /\ s \in KeptOf(kept) /\ s \notin available
      /\ kept[c] = <<>> => s \in available /\ s \notin KeptOf(kept)
  BY ChoiceIs
<1>6. /\ committed \in [Slots -> Nat] /\ committed[s] \in Nat
      /\ total[c] \in Int /\ usedCount[c] \in Int /\ budget \in Int
      /\ kept[c] \in Seq(Slots) /\ Distinct(kept[c])
  BY <1>5 DEF SlotsInv, SlotTypes, SlotPlaces
<1>7. /\ KeptOf(kept') = KeptOf(kept) \ {s}
      /\ kept' \in [Classes -> Seq(Slots)]
      /\ \A d \in Classes : \A i \in 1..Len(kept'[d]) : kept'[d][i].class = d
      /\ \A d \in Classes : Distinct(kept'[d])
      /\ \A d \in Classes : Len(kept'[d]) <= KeptSlots
  <2>1. CASE kept[c] = <<>>
    BY <1>3, <1>5, <2>1 DEF SlotsInv, SlotTypes, SlotPlaces, SlotCounts
  <2>2. CASE kept[c] # <<>>
    <3> DEFINE q == Front(kept[c])
    <3>1. /\ q \in Seq(Slots) /\ Len(q) = Len(kept[c]) - 1 /\ Len(kept[c]) \in Nat
          /\ ToSet(q) = ToSet(kept[c]) \ {s} /\ Distinct(q)
      BY <1>5, <1>6, <2>2, DistinctFront
    <3>2. \A x \in ToSet(q) : x.class = c
      BY <3>1, KeptClasses DEF SlotsInv
    <3>3. kept' = [kept EXCEPT ![c] = q]
      BY <1>3, <2>2
    <3>4. SlotTypes /\ \A d \in Classes : Distinct(kept[d])
      BY DEF SlotsInv, SlotPlaces
    <3> HIDE DEF q
    <3>5. /\ KeptOf(kept') = KeptOf(kept) \ {s}
          /\ kept' \in [Classes -> Seq(Slots)]
          /\ \A d \in Classes : \A i \in 1..Len(kept'[d]) : kept'[d][i].class = d
          /\ \A d \in Classes : Distinct(kept'[d])
      <4>1. PICK k : k = kept'
        OBVIOUS
      <4>2. KeptBecomes(k, c, q)
        BY <3>1, <3>3, <3>4, <4>1 DEF SlotTypes, KeptBecomes
      <4>3. /\ AllOfClass(ToSet(q), c) /\ KeptDistinct(kept) /\ SlotTypes
            /\ IsWithout(ToSet(q), ToSet(kept[c]), s)
        BY <3>1, <3>2, <3>4 DEF AllOfClass, KeptDistinct, IsWithout
      <4>4. /\ IsWithout(KeptOf(k), KeptOf(kept), s)
            /\ k \in [Classes -> Seq(Slots)] /\ KeptByClass(k) /\ KeptDistinct(k)
        BY <1>5, <3>1, <4>2, <4>3, KeptChanges
      <4> QED
        BY <4>1, <4>4 DEF KeptByClass, KeptDistinct, IsWithout
    <3>6. ASSUME NEW d \in Classes PROVE Len(kept'[d]) <= KeptSlots
      BY <3>1, <3>3, SlotAssumption DEF SlotsInv, SlotCounts, SlotTypes
    <3> QED
      BY <3>5, <3>6
  <2> QED
    BY <2>1, <2>2
<1>8. available' = available \ {s}
  BY <1>3, <1>5
<1>9. Held' = Held \cup {s} /\ Unreleased' = Unreleased
  <2>1. <<s, pages>>[1] = s
    OBVIOUS
  <2>2. Held' = Held \cup {s}
    BY <1>3, <2>1 DEF Held
  <2>3. Unreleased' = Unreleased
    BY <1>4 DEF Unreleased
  <2> QED
    BY <2>2, <2>3
<1>10. SlotTypes'
  <2>1. committed' \in [Slots -> Nat] /\ total' \in [Classes -> Int] /\ usedCount' \in [Classes -> Int]
    <3>1. total[c] + pages - committed[s] \in Int /\ usedCount[c] + 1 \in Int
      BY <1>6
    <3>2. total' = [total EXCEPT ![c] = total[c] + pages - committed[s]]
      BY <1>3
    <3>3. usedCount' = [usedCount EXCEPT ![c] = usedCount[c] + 1]
      BY <1>4
    <3>4. committed \in [Slots -> Nat] /\ total \in [Classes -> Int] /\ usedCount \in [Classes -> Int]
      BY DEF SlotsInv, SlotTypes
    <3>5. committed' \in [Slots -> Nat]
      BY <1>3, <3>4
    <3>6. total' \in [Classes -> Int]
      BY <3>1, <3>2, <3>4
    <3>7. usedCount' \in [Classes -> Int]
      BY <3>1, <3>3, <3>4
    <3> QED
      BY <3>5, <3>6, <3>7
  <2>2. budget' \in Int
    BY <1>3, <1>6
  <2>3. asking' \in [SlotThreads -> {<<>>} \cup (Classes \X Nat)]
    BY <1>4 DEF SlotsInv, SlotTypes
  <2>4. holders' \subseteq Slots \X Nat
    BY <1>3, <1>5 DEF SlotsInv, SlotTypes
  <2>5. available' \subseteq Slots /\ returning' \in [SlotThreads -> {<<>>} \cup {<<x>> : x \in Slots}]
    BY <1>4, <1>8 DEF SlotsInv, SlotTypes
  <2> QED
    BY <1>7, <2>1, <2>2, <2>3, <2>4, <2>5 DEF SlotTypes
<1>11. SlotPlaces'
  <2>1. KeptOf(kept)' = KeptOf(kept) \ {s}
    BY <1>7 DEF KeptOf
  <2>2. /\ (Held \cup Unreleased \cup KeptOf(kept) \cup available)' = Slots
        /\ (Held \cap Unreleased)' = {} /\ (Held \cap KeptOf(kept))' = {}
        /\ (Held \cap available)' = {}
        /\ (Unreleased \cap KeptOf(kept))' = {} /\ (Unreleased \cap available)' = {}
        /\ (KeptOf(kept) \cap available)' = {}
    BY <1>5, <1>8, <1>9, <2>1 DEF SlotsInv, SlotPlaces
  <2>3. \A g \in holders' : \A h \in holders' : g[1] = h[1] => g = h
    BY <1>3, <1>5 DEF SlotsInv, SlotPlaces, Held
  <2>4. \A c1 \in Classes : Distinct(kept[c1])'
    BY <1>7 DEF Distinct
  <2> QED
    BY <1>4, <2>2, <2>3, <2>4 DEF SlotsInv, SlotPlaces
<1>12. SlotContents'
  <2>1. ASSUME NEW h \in holders' PROVE committed'[h[1]] = h[2]
    BY <1>3, <1>5, <1>6, <2>1 DEF Held, SlotsInv, SlotTypes, SlotContents
  <2>2. ASSUME NEW x \in available' PROVE committed'[x] = 0
    BY <1>3, <1>6, <1>8, <2>2 DEF SlotsInv, SlotContents, SlotTypes
  <2> QED
    BY <2>1, <2>2 DEF SlotContents
<1>13. SlotCounts'
  <2>1. IsFiniteSet(holders) /\ <<s, pages>> \notin holders
    BY <1>5 DEF SlotsInv, SlotCounts, Held
  <2>2. IsFiniteSet(holders')
    BY <1>3, <2>1, FS_AddElement
  <2>3. ASSUME NEW d \in Classes
        PROVE  /\ total'[d] = SumOf(committed', OfClass(d))
               /\ usedCount'[d] = Cardinality(HeldOf(d)') + Cardinality(UnreleasedOf(d)')
    <3>1. /\ total[d] = SumOf(committed, OfClass(d))
          /\ usedCount[d] = Cardinality(HeldOf(d)) + Cardinality(UnreleasedOf(d))
          /\ total \in [Classes -> Int] /\ usedCount \in [Classes -> Int]
      BY DEF SlotsInv, SlotCounts, SlotTypes
    <3>2. OfClass(d) \subseteq Slots /\ IsFiniteSet(OfClass(d))
      BY SlotsAreFinite DEF OfClass
    <3>3. \A x \in OfClass(d) : committed[x] \in Int
      BY <1>6, <3>2
    <3>4. UnreleasedOf(d)' = UnreleasedOf(d)
      BY <1>9 DEF UnreleasedOf
    <3>5. IsFiniteSet(HeldOf(d)) /\ <<s, pages>> \notin HeldOf(d)
      BY <2>1, FS_Subset DEF HeldOf
    <3>6. Cardinality(UnreleasedOf(d)) \in Nat /\ Cardinality(HeldOf(d)) \in Nat
      BY <3>5, SlotsAreFinite, FS_CardinalityType DEF UnreleasedOf, SlotsInv, SlotPlaces
    <3>7. CASE d = c
      <4>1. s \in OfClass(d)
        BY <1>5, <3>7 DEF OfClass
      <4>2. committed'[s] = pages /\ \A x \in OfClass(d) : x # s => committed'[x] = committed[x]
        BY <1>3, <1>5, <1>6, <3>2
      <4>3. pages \in Int
        OBVIOUS
      <4>4. SumOf(committed', OfClass(d)) = SumOf(committed, OfClass(d)) + pages - committed[s]
        BY <3>2, <3>3, <4>1, <4>2, <4>3, SumChanges
      <4>5. HeldOf(d)' = HeldOf(d) \cup {<<s, pages>>}
        BY <1>3, <1>5, <3>7 DEF HeldOf
      <4>6. Cardinality(HeldOf(d)') = Cardinality(HeldOf(d)) + 1
        BY <3>5, <4>5, FS_AddElement
      <4>7. total'[d] = total[d] + pages - committed[s] /\ usedCount'[d] = usedCount[d] + 1
        BY <1>3, <1>4, <3>1, <3>7
      <4> QED
        BY <3>1, <3>4, <3>6, <4>4, <4>6, <4>7
    <3>8. CASE d # c
      <4>1. \A x \in OfClass(d) : x # s /\ committed'[x] = committed[x]
        BY <1>3, <1>5, <1>6, <3>2, <3>8 DEF OfClass
      <4>2. SumOf(committed, OfClass(d)) = SumOf(committed', OfClass(d))
        BY <3>2, <3>3, <4>1, SumAgrees
      <4>3. HeldOf(d)' = HeldOf(d)
        BY <1>3, <1>5, <3>8 DEF HeldOf
      <4>4. total'[d] = total[d] /\ usedCount'[d] = usedCount[d]
        BY <1>3, <1>4, <3>1, <3>8
      <4> QED
        BY <3>1, <3>4, <4>2, <4>3, <4>4
    <3> QED
      BY <3>7, <3>8
  <2> QED
    BY <1>7, <2>2, <2>3 DEF SlotCounts, OfClass
<1>14. SlotBudget'
  <2>1. budget = SumOf(committed, KeptOf(kept)) /\ budget <= KeptPages
    BY DEF SlotsInv, SlotBudget
  <2>2. KeptOf(kept) \subseteq Slots /\ IsFiniteSet(KeptOf(kept)) /\ IsFiniteSet(KeptOf(kept'))
    BY <1>7, SlotsAreFinite DEF SlotsInv, SlotPlaces
  <2>3. \A x \in KeptOf(kept) : committed[x] \in Int
    BY <1>6, <2>2
  <2>4. \A x \in KeptOf(kept') : committed[x] = committed'[x] /\ committed[x] \in Int
    BY <1>3, <1>6, <1>7, <2>2
  <2>5. SumOf(committed, KeptOf(kept')) = SumOf(committed', KeptOf(kept'))
    BY <2>2, <2>4, SumAgrees
  <2>6. CASE kept[c] # <<>>
    <3>1. s \in KeptOf(kept)
      BY <1>5, <2>6
    <3>2. /\ SumOf(committed, KeptOf(kept)) = committed[s] + SumOf(committed, KeptOf(kept) \ {s})
          /\ SumOf(committed, KeptOf(kept) \ {s}) \in Int
      BY <2>2, <2>3, <3>1, SumTakesOut
    <3>3. budget' = SumOf(committed', KeptOf(kept'))
      BY <1>3, <1>6, <1>7, <2>1, <2>5, <2>6, <3>2
    <3>4. budget' <= KeptPages
      BY <1>3, <1>6, <2>1, <2>6, SlotAssumption
    <3> QED
      BY <3>3, <3>4 DEF SlotBudget, KeptOf
  <2>7. CASE kept[c] = <<>>
    BY <1>3, <2>7, <2>1, <2>5 DEF SlotBudget, KeptOf
  <2> QED
    BY <2>6, <2>7
<1> QED
  BY <1>10, <1>11, <1>12, <1>13, <1>14 DEF SlotsInv

(* A slot that a thread has marked is nobody else's.                         *)
LEMMA ReturningIs ==
    ASSUME SlotsInv, NEW t \in SlotThreads, returning[t] # <<>>, NEW s, s = returning[t][1]
    PROVE  /\ s \in Slots /\ returning[t] = <<s>> /\ s \in Unreleased /\ s.class \in Classes
           /\ s \notin Held /\ s \notin KeptOf(kept) /\ s \notin available
           /\ committed[s] \in Nat
           /\ \A u \in SlotThreads : u # t /\ returning[u] # <<>> => returning[u][1] # s
<1>1. s \in Slots /\ returning[t] = <<s>>
  BY DEF SlotsInv, SlotTypes
<1>2. s \in Unreleased
  BY <1>1 DEF Unreleased
<1>3. s \notin Held /\ s \notin KeptOf(kept) /\ s \notin available /\ committed[s] \in Nat
  BY <1>1, <1>2 DEF SlotsInv, SlotPlaces, SlotTypes
<1>4. ASSUME NEW u \in SlotThreads, u # t, returning[u] # <<>> PROVE returning[u][1] # s
  <2>1. PICK x \in Slots : returning[u] = <<x>>
    BY <1>4 DEF SlotsInv, SlotTypes
  <2>2. x # s
    BY <1>1, <1>4, <2>1 DEF SlotsInv, SlotPlaces
  <2> QED
    BY <2>1, <2>2
<1>5. s.class \in Classes
  BY <1>1 DEF Slots
<1> QED
  BY <1>1, <1>2, <1>3, <1>4, <1>5

(* A user's slot is marked: its class's count stays.                         *)
LEMMA BeginReturnKeeps ==
    ASSUME SlotsInv, NEW t \in SlotThreads, NEW h \in holders, BeginReturn(t, h)
    PROVE  SlotsInv'
<1>1. PICK s \in Slots, pages \in Nat : h = <<s, pages>>
  BY DEF SlotsInv, SlotTypes
<1>2. /\ returning[t] = <<>> /\ holders' = holders \ {h}
      /\ returning' = [returning EXCEPT ![t] = <<s>>]
      /\ UNCHANGED <<committed, available, kept, budget, usedCount, total, asking>>
  BY <1>1 DEF BeginReturn, AtRest
<1>3. h[1] = s /\ s \in Held /\ s \notin Unreleased /\ s \notin KeptOf(kept) /\ s \notin available
  BY <1>1 DEF Held, SlotsInv, SlotPlaces
<1>4. Held' = Held \ {s}
  BY <1>3, <1>2 DEF SlotsInv, SlotPlaces, Held
<1>5. returning' \in [SlotThreads -> {<<>>} \cup {<<x>> : x \in Slots}]
  BY <1>2 DEF SlotsInv, SlotTypes
<1>6. \A u \in SlotThreads : returning'[u] = IF u = t THEN <<s>> ELSE returning[u]
  BY <1>2 DEF SlotsInv, SlotTypes
<1>7. <<s>> # <<>> /\ <<s>>[1] = s
  OBVIOUS
<1>8. Unreleased' = Unreleased \cup {s}
  BY <1>2, <1>6, <1>7 DEF Unreleased
<1>9. SlotTypes'
  BY <1>2, <1>5 DEF SlotsInv, SlotTypes
<1>10. SlotPlaces'
  <2>1. KeptOf(kept)' = KeptOf(kept)
    BY <1>2 DEF KeptOf
  <2>2. /\ (Held \cup Unreleased \cup KeptOf(kept) \cup available)' = Slots
        /\ (Held \cap Unreleased)' = {} /\ (Held \cap KeptOf(kept))' = {}
        /\ (Held \cap available)' = {}
        /\ (Unreleased \cap KeptOf(kept))' = {} /\ (Unreleased \cap available)' = {}
        /\ (KeptOf(kept) \cap available)' = {}
    BY <1>2, <1>3, <1>4, <1>8, <2>1 DEF SlotsInv, SlotPlaces
  <2>3. \A g \in holders' : \A k \in holders' : g[1] = k[1] => g = k
    BY <1>2 DEF SlotsInv, SlotPlaces
  <2>4. \A c \in Classes : Distinct(kept[c])'
    BY <1>2 DEF Distinct, SlotsInv, SlotPlaces
  <2>5. ASSUME NEW u \in SlotThreads, NEW v \in SlotThreads,
               returning'[u] # <<>>, returning'[u] = returning'[v]
        PROVE  u = v
    BY <1>3, <1>7, <1>6, <2>5 DEF Unreleased, SlotsInv, SlotPlaces
  <2> QED
    BY <2>2, <2>3, <2>4, <2>5 DEF SlotPlaces
<1>11. SlotContents'
  BY <1>2 DEF SlotsInv, SlotContents
<1>12. SlotCounts'
  <2>1. IsFiniteSet(holders) /\ IsFiniteSet(holders')
    BY <1>2, FS_RemoveElement DEF SlotsInv, SlotCounts
  <2>2. ASSUME NEW d \in Classes
        PROVE  /\ total'[d] = SumOf(committed', OfClass(d))
               /\ usedCount'[d] = Cardinality(HeldOf(d)') + Cardinality(UnreleasedOf(d)')
               /\ Len(kept'[d]) <= KeptSlots
    <3>1. /\ total[d] = SumOf(committed, OfClass(d)) /\ Len(kept[d]) <= KeptSlots
          /\ usedCount[d] = Cardinality(HeldOf(d)) + Cardinality(UnreleasedOf(d))
      BY DEF SlotsInv, SlotCounts
    <3>2. IsFiniteSet(HeldOf(d)) /\ IsFiniteSet(UnreleasedOf(d))
      BY <2>1, SlotsAreFinite, FS_Subset DEF HeldOf, UnreleasedOf, SlotsInv, SlotPlaces
    <3>3. Cardinality(HeldOf(d)) \in Nat /\ Cardinality(UnreleasedOf(d)) \in Nat
      BY <3>2, FS_CardinalityType
    <3>4. CASE s.class = d
      <4>1. HeldOf(d)' = HeldOf(d) \ {h} /\ h \in HeldOf(d)
        BY <1>2, <1>3, <3>4 DEF HeldOf
      <4>2. UnreleasedOf(d)' = UnreleasedOf(d) \cup {s} /\ s \notin UnreleasedOf(d)
        BY <1>3, <1>8, <3>4 DEF UnreleasedOf
      <4>3. Cardinality(HeldOf(d)') = Cardinality(HeldOf(d)) - 1
        BY <3>2, <4>1, CountOneLess
      <4>4. Cardinality(UnreleasedOf(d)') = Cardinality(UnreleasedOf(d)) + 1
        BY <3>2, <4>2, FS_AddElement
      <4> QED
        BY <1>2, <3>1, <3>3, <4>3, <4>4
    <3>5. CASE s.class # d
      BY <1>2, <1>3, <1>8, <3>5, <3>1 DEF HeldOf, UnreleasedOf
    <3> QED
      BY <3>4, <3>5
  <2> QED
    BY <2>1, <2>2 DEF SlotCounts, OfClass
<1>13. SlotBudget'
  BY <1>2 DEF SlotsInv, SlotBudget, KeptOf
<1> QED
  BY <1>9, <1>10, <1>11, <1>12, <1>13 DEF SlotsInv

(* A marked slot goes: what its class has left of marked ones.               *)
LEMMA UnreleasedLess ==
    ASSUME SlotsInv, NEW t \in SlotThreads, returning[t] # <<>>, NEW s, s = returning[t][1],
           returning' = [returning EXCEPT ![t] = <<>>], holders' = holders,
           usedCount' = [usedCount EXCEPT ![s.class] = @ - 1]
    PROVE  /\ Unreleased' = Unreleased \ {s} /\ Held' = Held
           /\ returning' \in [SlotThreads -> {<<>>} \cup {<<x>> : x \in Slots}]
           /\ usedCount' \in [Classes -> Int]
           /\ IsFiniteSet(holders')
           /\ \A u \in SlotThreads : \A v \in SlotThreads :
                 returning'[u] # <<>> /\ returning'[u] = returning'[v] => u = v
           /\ \A d \in Classes :
                 usedCount'[d] = Cardinality(HeldOf(d)') + Cardinality(UnreleasedOf(d)')
<1>1. s \in Unreleased /\ s.class \in Classes
  BY ReturningIs
<1>2. Unreleased' = Unreleased \ {s}
  <2>1. \A u \in SlotThreads : returning'[u] = IF u = t THEN <<>> ELSE returning[u]
    BY DEF SlotsInv, SlotTypes
  <2>2. \A u \in SlotThreads : u # t /\ returning[u] # <<>> => returning[u][1] # s
    BY ReturningIs
  <2> QED
    BY <2>1, <2>2 DEF Unreleased
<1>3. Held' = Held
  BY DEF Held
<1>4. returning' \in [SlotThreads -> {<<>>} \cup {<<x>> : x \in Slots}]
  BY DEF SlotsInv, SlotTypes
<1>5. \A u \in SlotThreads : returning'[u] = IF u = t THEN <<>> ELSE returning[u]
  BY DEF SlotsInv, SlotTypes
<1>6. \A u \in SlotThreads : \A v \in SlotThreads :
         returning'[u] # <<>> /\ returning'[u] = returning'[v] => u = v
  BY <1>5 DEF SlotsInv, SlotPlaces
<1>7. usedCount \in [Classes -> Int] /\ usedCount' \in [Classes -> Int]
  BY <1>1 DEF SlotsInv, SlotTypes
<1>8. ASSUME NEW d \in Classes
      PROVE  usedCount'[d] = Cardinality(HeldOf(d)') + Cardinality(UnreleasedOf(d)')
  <2>1. usedCount[d] = Cardinality(HeldOf(d)) + Cardinality(UnreleasedOf(d))
    BY DEF SlotsInv, SlotCounts
  <2>2. IsFiniteSet(HeldOf(d)) /\ IsFiniteSet(UnreleasedOf(d))
    BY SlotsAreFinite, FS_Subset DEF HeldOf, UnreleasedOf, SlotsInv, SlotPlaces, SlotCounts
  <2>3. Cardinality(HeldOf(d)) \in Nat /\ Cardinality(UnreleasedOf(d)) \in Nat
    BY <2>2, FS_CardinalityType
  <2>4. HeldOf(d)' = HeldOf(d)
    BY DEF HeldOf
  <2>5. CASE s.class = d
    <3>1. UnreleasedOf(d)' = UnreleasedOf(d) \ {s} /\ s \in UnreleasedOf(d)
      BY <1>1, <1>2, <2>5 DEF UnreleasedOf
    <3>2. Cardinality(UnreleasedOf(d)') = Cardinality(UnreleasedOf(d)) - 1
      BY <2>2, <3>1, CountOneLess
    <3>3. usedCount'[d] = usedCount[d] - 1
      BY <1>7, <2>5
    <3> QED
      BY <2>1, <2>3, <2>4, <3>2, <3>3
  <2>6. CASE s.class # d
    BY <1>2, <2>6, <1>7, <2>1, <2>4 DEF UnreleasedOf
  <2> QED
    BY <2>5, <2>6
<1>9. IsFiniteSet(holders')
  BY DEF SlotsInv, SlotCounts
<1> QED
  BY <1>2, <1>3, <1>4, <1>6, <1>7, <1>8, <1>9

LEMMA KeepSlotKeeps ==
    ASSUME SlotsInv, NEW t \in SlotThreads, KeepSlot(t)
    PROVE  SlotsInv'
<1>1. PICK s : s = returning[t][1]
  OBVIOUS
<1>2. PICK c : c = s.class
  OBVIOUS
<1>3. /\ returning[t] # <<>> /\ Len(kept[c]) < KeptSlots /\ committed[s] <= KeptPages - budget
      /\ budget' = budget + committed[s]
      /\ kept' = [kept EXCEPT ![c] = Append(@, s)]
      /\ available' = available
      /\ usedCount' = [usedCount EXCEPT ![s.class] = @ - 1]
      /\ returning' = [returning EXCEPT ![t] = <<>>]
      /\ UNCHANGED <<committed, total, asking, holders>>
  BY <1>1, <1>2 DEF KeepSlot, TryAcquire, KeptAway
<1>4. /\ s \in Slots /\ s \in Unreleased /\ c \in Classes
      /\ s \notin Held /\ s \notin KeptOf(kept) /\ s \notin available /\ committed[s] \in Nat
  BY <1>1, <1>2, <1>3, ReturningIs
<1>5. /\ Unreleased' = Unreleased \ {s} /\ Held' = Held
      /\ returning' \in [SlotThreads -> {<<>>} \cup {<<x>> : x \in Slots}]
      /\ usedCount' \in [Classes -> Int]
      /\ IsFiniteSet(holders')
      /\ \A u \in SlotThreads : \A v \in SlotThreads :
            returning'[u] # <<>> /\ returning'[u] = returning'[v] => u = v
      /\ \A d \in Classes :
            usedCount'[d] = Cardinality(HeldOf(d)') + Cardinality(UnreleasedOf(d)')
  BY <1>1, <1>3, UnreleasedLess
<1> DEFINE q == Append(kept[c], s)
<1>6. SlotTypes /\ kept[c] \in Seq(Slots) /\ (\A d \in Classes : Distinct(kept[d])) /\ budget \in Int
  BY <1>4 DEF SlotsInv, SlotTypes, SlotPlaces
<1>7. s \notin ToSet(kept[c])
  BY <1>4 DEF KeptOf
<1>8. /\ q \in Seq(Slots) /\ Len(q) = Len(kept[c]) + 1 /\ Len(kept[c]) \in Nat
      /\ ToSet(q) = ToSet(kept[c]) \cup {s} /\ Distinct(q)
  BY <1>4, <1>6, <1>7, DistinctAppend
<1>9. \A x \in ToSet(q) : x.class = c
  BY <1>2, <1>4, <1>6, <1>8, KeptClasses
<1>10. kept' = [kept EXCEPT ![c] = q]
  BY <1>3
<1> HIDE DEF q
<1>11. /\ KeptOf(kept') = KeptOf(kept) \cup {s}
       /\ kept' \in [Classes -> Seq(Slots)]
       /\ \A d \in Classes : \A i \in 1..Len(kept'[d]) : kept'[d][i].class = d
       /\ \A d \in Classes : Distinct(kept'[d])
  <2>1. PICK k : k = kept'
    OBVIOUS
  <2>2. KeptBecomes(k, c, q)
    BY <1>4, <1>6, <1>8, <1>10, <2>1 DEF SlotTypes, KeptBecomes
  <2>3. AllOfClass(ToSet(q), c) /\ KeptDistinct(kept) /\ IsWith(ToSet(q), ToSet(kept[c]), s)
    BY <1>6, <1>8, <1>9 DEF AllOfClass, KeptDistinct, IsWith
  <2>4. /\ IsWith(KeptOf(k), KeptOf(kept), s)
        /\ k \in [Classes -> Seq(Slots)] /\ KeptByClass(k) /\ KeptDistinct(k)
    BY <1>2, <1>4, <1>6, <1>8, <2>2, <2>3, KeptChanges
  <2> QED
    BY <2>1, <2>4 DEF KeptByClass, KeptDistinct, IsWith
<1>12. \A d \in Classes : Len(kept'[d]) <= KeptSlots
  <2>1. ASSUME NEW d \in Classes PROVE Len(kept'[d]) <= KeptSlots
    BY <1>10, <1>3, <1>8, SlotAssumption DEF SlotsInv, SlotCounts, SlotTypes
  <2> QED
    BY <2>1
<1>13. SlotTypes'
  <2>1. budget + committed[s] \in Int
    BY <1>4, <1>6
  <2>2. budget' \in Int
    BY <1>3, <2>1
  <2> QED
    BY <1>3, <1>5, <1>6, <1>11, <2>2 DEF SlotTypes
<1>14. SlotPlaces'
  <2>1. KeptOf(kept)' = KeptOf(kept) \cup {s}
    BY <1>11 DEF KeptOf
  <2>2. /\ (Held \cup Unreleased \cup KeptOf(kept) \cup available)' = Slots
        /\ (Held \cap Unreleased)' = {} /\ (Held \cap KeptOf(kept))' = {}
        /\ (Held \cap available)' = {}
        /\ (Unreleased \cap KeptOf(kept))' = {} /\ (Unreleased \cap available)' = {}
        /\ (KeptOf(kept) \cap available)' = {}
    <3>1. /\ Held \cup Unreleased \cup KeptOf(kept) \cup available = Slots
          /\ Held \cap Unreleased = {} /\ Held \cap KeptOf(kept) = {} /\ Held \cap available = {}
          /\ Unreleased \cap KeptOf(kept) = {} /\ Unreleased \cap available = {}
          /\ KeptOf(kept) \cap available = {}
      BY DEF SlotsInv, SlotPlaces
    <3>2. Unreleased' = Unreleased \ {s} /\ Held' = Held /\ available' = available
      BY <1>3, <1>5
    <3> QED
      BY <1>4, <2>1, <3>1, <3>2
  <2>3. \A g \in holders' : \A k \in holders' : g[1] = k[1] => g = k
    BY <1>3 DEF SlotsInv, SlotPlaces
  <2>4. \A d \in Classes : Distinct(kept[d])'
    BY <1>11 DEF Distinct
  <2> QED
    BY <1>5, <2>2, <2>3, <2>4 DEF SlotPlaces
<1>15. SlotContents'
  BY <1>3 DEF SlotsInv, SlotContents
<1>16. SlotCounts'
  BY <1>3, <1>5, <1>12 DEF SlotsInv, SlotCounts, OfClass
<1>17. SlotBudget'
  <2>1. budget = SumOf(committed, KeptOf(kept))
    BY DEF SlotsInv, SlotBudget
  <2>2. KeptOf(kept) \subseteq Slots /\ IsFiniteSet(KeptOf(kept))
    BY SlotsAreFinite DEF SlotsInv, SlotPlaces
  <2>3. \A x \in KeptOf(kept) : committed[x] \in Int
    BY <2>2 DEF SlotsInv, SlotTypes
  <2>4. SumOf(committed, KeptOf(kept) \cup {s}) = SumOf(committed, KeptOf(kept)) + committed[s]
    BY <1>4, <2>2, <2>3, SumPutsIn
  <2>5. budget' = SumOf(committed', KeptOf(kept'))
    BY <1>3, <1>11, <2>1, <2>4
  <2>6. budget' <= KeptPages
    BY <1>3, <1>4, <1>6, SlotAssumption
  <2> QED
    BY <2>5, <2>6 DEF SlotBudget, KeptOf
<1> QED
  BY <1>13, <1>14, <1>15, <1>16, <1>17 DEF SlotsInv

LEMMA DecommitSlotKeeps ==
    ASSUME SlotsInv, NEW t \in SlotThreads, DecommitSlot(t)
    PROVE  SlotsInv'
<1>1. PICK s : s = returning[t][1]
  OBVIOUS
<1>2. PICK c : c = s.class
  OBVIOUS
<1>3. /\ returning[t] # <<>>
      /\ total' = [total EXCEPT ![c] = @ - committed[s]]
      /\ committed' = [committed EXCEPT ![s] = 0]
      /\ available' = available \cup {s}
      /\ usedCount' = [usedCount EXCEPT ![s.class] = @ - 1]
      /\ returning' = [returning EXCEPT ![t] = <<>>]
      /\ UNCHANGED <<kept, budget, asking, holders>>
  BY <1>1, <1>2 DEF DecommitSlot
<1>4. /\ s \in Slots /\ s \in Unreleased /\ c \in Classes
      /\ s \notin Held /\ s \notin KeptOf(kept) /\ s \notin available /\ committed[s] \in Nat
  BY <1>1, <1>2, <1>3, ReturningIs
<1>5. /\ Unreleased' = Unreleased \ {s} /\ Held' = Held
      /\ returning' \in [SlotThreads -> {<<>>} \cup {<<x>> : x \in Slots}]
      /\ usedCount' \in [Classes -> Int]
      /\ IsFiniteSet(holders')
      /\ \A u \in SlotThreads : \A v \in SlotThreads :
            returning'[u] # <<>> /\ returning'[u] = returning'[v] => u = v
      /\ \A d \in Classes :
            usedCount'[d] = Cardinality(HeldOf(d)') + Cardinality(UnreleasedOf(d)')
  BY <1>1, <1>3, UnreleasedLess
<1>6. /\ committed \in [Slots -> Nat] /\ total \in [Classes -> Int] /\ total[c] \in Int
      /\ SlotTypes
  BY <1>4 DEF SlotsInv, SlotTypes
<1>7. \A x \in Slots : committed'[x] = IF x = s THEN 0 ELSE committed[x]
  BY <1>3, <1>6
<1>8. SlotTypes'
  <2>1. committed' \in [Slots -> Nat]
    BY <1>3, <1>6
  <2>2. total[c] - committed[s] \in Int /\ total' = [total EXCEPT ![c] = total[c] - committed[s]]
    BY <1>3, <1>4, <1>6
  <2>3. total' \in [Classes -> Int]
    BY <1>6, <2>2
  <2> QED
    BY <1>3, <1>4, <1>5, <1>6, <2>1, <2>3 DEF SlotTypes
<1>9. SlotPlaces'
  BY <1>3, <1>4, <1>5 DEF KeptOf, SlotsInv, SlotPlaces, Distinct
<1>10. SlotContents'
  BY <1>4, <1>3, <1>7 DEF Held, SlotsInv, SlotTypes, SlotContents
<1>11. SlotCounts'
  <2>1. ASSUME NEW d \in Classes
        PROVE  total'[d] = SumOf(committed', OfClass(d)) /\ Len(kept'[d]) <= KeptSlots
    <3>1. total[d] = SumOf(committed, OfClass(d)) /\ Len(kept[d]) <= KeptSlots
      BY DEF SlotsInv, SlotCounts
    <3>2. OfClass(d) \subseteq Slots /\ IsFiniteSet(OfClass(d))
      BY SlotsAreFinite DEF OfClass
    <3>3. \A x \in OfClass(d) : committed[x] \in Int
      BY <1>6, <3>2
    <3>4. CASE d = c
      <4>1. s \in OfClass(d)
        BY <1>2, <1>4, <3>4 DEF OfClass
      <4>2. committed'[s] = 0 /\ \A x \in OfClass(d) : x # s => committed'[x] = committed[x]
        BY <1>4, <1>7, <3>2
      <4>3. SumOf(committed', OfClass(d)) = SumOf(committed, OfClass(d)) + 0 - committed[s]
        BY <3>2, <3>3, <4>1, <4>2, SumChanges
      <4>4. total'[d] = total[d] - committed[s]
        BY <1>3, <1>6, <3>4
      <4> QED
        BY <1>3, <1>4, <1>6, <3>1, <3>4, <4>3, <4>4
    <3>5. CASE d # c
      <4>1. \A x \in OfClass(d) : committed[x] = committed'[x]
        BY <1>2, <1>7, <3>2, <3>5 DEF OfClass
      <4>2. SumOf(committed, OfClass(d)) = SumOf(committed', OfClass(d))
        BY <3>2, <3>3, <4>1, SumAgrees
      <4>3. total'[d] = total[d]
        BY <1>3, <1>6, <3>5
      <4> QED
        BY <1>3, <3>1, <4>2, <4>3
    <3> QED
      BY <3>4, <3>5
  <2> QED
    BY <1>5, <2>1 DEF SlotCounts, OfClass
<1>12. SlotBudget'
  <2>1. budget = SumOf(committed, KeptOf(kept)) /\ budget <= KeptPages
    BY DEF SlotsInv, SlotBudget
  <2>2. KeptOf(kept) \subseteq Slots /\ IsFiniteSet(KeptOf(kept))
    BY SlotsAreFinite DEF SlotsInv, SlotPlaces
  <2>3. \A x \in KeptOf(kept) : committed[x] = committed'[x] /\ committed[x] \in Int
    BY <1>4, <1>6, <1>7, <2>2
  <2>4. SumOf(committed, KeptOf(kept)) = SumOf(committed', KeptOf(kept))
    BY <2>2, <2>3, SumAgrees
  <2> QED
    BY <1>3, <2>1, <2>4 DEF SlotBudget, KeptOf
<1> QED
  BY <1>8, <1>9, <1>10, <1>11, <1>12 DEF SlotsInv

LEMMA SlotsStepKeeps == SlotsInv /\ [SlotNext]_slotVars => SlotsInv'
<1> SUFFICES ASSUME SlotsInv, [SlotNext]_slotVars PROVE SlotsInv'
  OBVIOUS
<1>1. CASE UNCHANGED slotVars
  BY <1>1, SlotsStay DEF slotVars, SlotsInv, SlotTypes
<1>2. CASE SlotNext
  <2>1. PICK t \in SlotThreads :
           \/ (\E pages \in 1 .. Max(ToSet(SlotPages)) : BeginLarge(t, pages)) \/ TakeNone(t)
           \/ TakeSlot(t)
           \/ \E h \in holders : BeginReturn(t, h)
           \/ KeepSlot(t) \/ DecommitSlot(t)
    BY <1>2 DEF SlotNext
  <2> QED
    BY <2>1, AskingKeeps, TakeSlotKeeps, BeginReturnKeeps, KeepSlotKeeps, DecommitSlotKeeps
<1> QED
  BY <1>1, <1>2

LEMMA SlotsAreWholeThen == SlotsInv => SlotsAreWhole
<1> SUFFICES ASSUME SlotsInv PROVE SlotsAreWhole
  OBVIOUS
<1>1. ASSUME NEW s \in Slots
      PROVE  Cardinality({h \in holders : h[1] = s})
             + Cardinality({t \in SlotThreads : returning[t] = <<s>>})
             + Cardinality({i \in DOMAIN kept[s.class] : kept[s.class][i] = s})
             + (IF s \in available THEN 1 ELSE 0) = 1
  <2> DEFINE hs == {h \in holders : h[1] = s}
             ts == {t \in SlotThreads : returning[t] = <<s>>}
             is == {i \in DOMAIN kept[s.class] : kept[s.class][i] = s}
  <2>1. IF s \in Held THEN \E h : hs = {h} ELSE hs = {}
    <3>1. CASE s \in Held
      <4>1. PICK h \in holders : h[1] = s
        BY <3>1 DEF Held
      <4>2. hs = {h}
        BY <4>1 DEF SlotsInv, SlotPlaces
      <4> QED
        BY <3>1, <4>2
    <3>2. CASE s \notin Held
      BY <3>2 DEF Held
    <3> QED
      BY <3>1, <3>2
  <2>2. IF s \in Unreleased THEN \E t : ts = {t} ELSE ts = {}
    <3>0. <<s>> # <<>> /\ <<s>>[1] = s
      OBVIOUS
    <3>1. CASE s \in Unreleased
      <4>1. PICK t \in SlotThreads : returning[t] # <<>> /\ returning[t][1] = s
        BY <3>1 DEF Unreleased
      <4>2. returning[t] = <<s>>
        <5>1. PICK x \in Slots : returning[t] = <<x>>
          BY <4>1 DEF SlotsInv, SlotTypes
        <5>2. x = s
          BY <4>1, <5>1
        <5> QED
          BY <5>1, <5>2
      <4>3. ts = {t}
        BY <3>0, <4>2 DEF SlotsInv, SlotPlaces
      <4> QED
        BY <3>1, <4>3
    <3>2. CASE s \notin Unreleased
      BY <3>0, <3>2 DEF Unreleased
    <3> QED
      BY <3>1, <3>2
  <2>3. IF s \in KeptOf(kept) THEN \E i : is = {i} ELSE is = {}
    <3>0. s.class \in Classes
      BY DEF Slots
    <3>1. kept[s.class] \in Seq(Slots) /\ DOMAIN kept[s.class] = 1..Len(kept[s.class])
          /\ Distinct(kept[s.class])
      BY <3>0 DEF SlotsInv, SlotTypes, SlotPlaces
    <3>2. CASE s \in KeptOf(kept)
      <4>1. PICK c \in Classes : s \in ToSet(kept[c])
        BY <3>2 DEF KeptOf
      <4>2. c = s.class
        BY <4>1, KeptClasses DEF SlotsInv
      <4>3. PICK i \in DOMAIN kept[s.class] : kept[s.class][i] = s
        BY <4>1, <4>2 DEF ToSet
      <4>4. is = {i}
        BY <3>1, <4>3 DEF Distinct
      <4> QED
        BY <3>2, <4>4
    <3>3. CASE s \notin KeptOf(kept)
      BY <3>0, <3>3 DEF KeptOf, ToSet
    <3> QED
      BY <3>2, <3>3
  <2>4. Cardinality({}) = 0 /\ \A x : Cardinality({x}) = 1
    BY FS_EmptySet, FS_Singleton
  <2> HIDE DEF hs, ts, is
  <2>5. Cardinality(hs) = IF s \in Held THEN 1 ELSE 0
    BY <2>1, <2>4
  <2>6. Cardinality(ts) = IF s \in Unreleased THEN 1 ELSE 0
    BY <2>2, <2>4
  <2>7. Cardinality(is) = IF s \in KeptOf(kept) THEN 1 ELSE 0
    BY <2>3, <2>4
  <2>8. /\ s \in Held \/ s \in Unreleased \/ s \in KeptOf(kept) \/ s \in available
        /\ s \in Held => s \notin Unreleased /\ s \notin KeptOf(kept) /\ s \notin available
        /\ s \in Unreleased => s \notin KeptOf(kept) /\ s \notin available
        /\ s \in KeptOf(kept) => s \notin available
    BY DEF SlotsInv, SlotPlaces
  <2>9. Cardinality(hs) + Cardinality(ts) + Cardinality(is) + (IF s \in available THEN 1 ELSE 0) = 1
    BY <2>5, <2>6, <2>7, <2>8
  <2> QED
    BY <2>9 DEF hs, ts, is
<1>2. \A h \in holders : committed[h[1]] = h[2]
  BY DEF SlotsInv, SlotContents
<1>3. \A s \in available : committed[s] = 0
  BY DEF SlotsInv, SlotContents
<1>4. ASSUME NEW c \in Classes
      PROVE  /\ total[c] = MapThenSumSet(LAMBDA s : committed[s], {s \in Slots : s.class = c})
             /\ usedCount[c] = Cardinality({h \in holders : h[1].class = c})
                               + Cardinality({s \in Unreleased : s.class = c})
             /\ Len(kept[c]) <= KeptSlots
  BY DEF SlotsInv, SlotCounts, SumOf, OfClass, HeldOf, UnreleasedOf
<1>5. budget = MapThenSumSet(LAMBDA s : committed[s], UNION {ToSet(kept[c]) : c \in Classes})
  BY DEF SlotsInv, SlotBudget, SumOf, KeptOf
<1>6. budget <= KeptPages
  BY DEF SlotsInv, SlotBudget
<1> QED
  BY <1>1, <1>2, <1>3, <1>4, <1>5, <1>6 DEF SlotsAreWhole

-----------------------------------------------------------------------------
(* Sequences put end to end.  What stands at a place of one of them stands   *)
(* in the whole behind the lengths of those before it.                       *)

FlatStep(f, s, i) == IF i = 1 THEN s[i] ELSE f[i - 1] \o s[i]
Flattens(f, s, n) == f = [i \in 1..n |-> FlatStep(f, s, i)]

LEMMA FlatIsItsFunction ==
    ASSUME NEW s, Len(s) # 0
    PROVE  FlattenSeq(s) = (CHOOSE f : Flattens(f, s, Len(s)))[Len(s)]
  BY DEF FlattenSeq, Flattens, FlatStep

LEMMA FlattensThere ==
    ASSUME NEW S, NEW n \in Nat, NEW s \in [1..n -> Seq(S)]
    PROVE  \E f \in [1..n -> Seq(S)] : Flattens(f, s, n)
<1> DEFINE Upto(m) == \E f \in [1..m -> Seq(S)] : Flattens(f, s, m)
           bad == {m \in 0..n : ~Upto(m)}
<1>1. Upto(0)
  <2>1. PICK f : f = [i \in 1..0 |-> <<>>]
    OBVIOUS
  <2>2. f \in [1..0 -> Seq(S)] /\ Flattens(f, s, 0)
    BY <2>1 DEF Flattens
  <2> QED
    BY <2>2
<1>2. ASSUME NEW m \in 1..n, Upto(m - 1) PROVE Upto(m)
  <2>1. PICK f \in [1..(m - 1) -> Seq(S)] : Flattens(f, s, m - 1)
    BY <1>2
  <2>2. PICK last : last = FlatStep(f, s, m)
    OBVIOUS
  <2>3. last \in Seq(S)
    BY <2>2 DEF FlatStep
  <2>4. PICK g : g = [i \in 1..m |-> IF i = m THEN last ELSE f[i]]
    OBVIOUS
  <2>5. g \in [1..m -> Seq(S)]
    BY <2>3, <2>4
  <2>6. \A i \in 1..(m - 1) : g[i] = f[i] /\ f[i] = FlatStep(f, s, i)
    <3>1. f = [i \in 1..(m - 1) |-> FlatStep(f, s, i)]
      BY <2>1 DEF Flattens
    <3>2. \A i \in 1..(m - 1) : f[i] = FlatStep(f, s, i)
      BY ONLY <3>1, Zenon
    <3>3. \A i \in 1..(m - 1) : g[i] = f[i]
      BY <2>4
    <3> QED
      BY <3>2, <3>3
  <2>7. ASSUME NEW i \in 1..m PROVE g[i] = FlatStep(g, s, i)
    <3>1. FlatStep(g, s, i) = FlatStep(f, s, i)
      <4>1. CASE i = 1
        BY <4>1 DEF FlatStep
      <4>2. CASE i # 1
        <5>1. i - 1 \in 1..(m - 1)
          BY <4>2
        <5> QED
          BY <5>1, <2>6, <4>2 DEF FlatStep
      <4> QED
        BY <4>1, <4>2
    <3>2. CASE i = m
      BY <3>1, <3>2, <2>2, <2>4
    <3>3. CASE i # m
      BY <3>1, <3>3, <2>6
    <3> QED
      BY <3>2, <3>3
  <2>8. Flattens(g, s, m)
    BY <2>5, <2>7 DEF Flattens
  <2> QED
    BY <2>5, <2>8
<1> HIDE DEF Upto
<1>3. bad = {}
  <2>1. SUFFICES ASSUME bad # {} PROVE FALSE
    OBVIOUS
  <2>2. PICK m \in bad : \A k \in bad : m <= k
    <3>1. bad \subseteq Nat
      OBVIOUS
    <3> HIDE DEF bad
    <3> QED
      BY <2>1, <3>1, LeastOf
  <2>3. m \in 0..n /\ ~Upto(m) /\ m # 0
    BY <1>1
  <2>4. m - 1 \in 0..n /\ m - 1 \notin bad
    BY <2>2, <2>3
  <2> QED
    BY <2>3, <2>4, <1>2
<1> QED
  BY <1>3 DEF Upto

Spans(S, n, s, off) ==
    /\ n \in Nat \ {0} /\ s \in [1..n -> Seq(S)] /\ off \in [0..n -> Nat] /\ off[0] = 0
    /\ \A i \in 1..n : off[i] = off[i - 1] + Len(s[i])
EndToEnd(S, n, s, off, flat) ==
    /\ flat \in Seq(S) /\ Len(flat) = off[n]
    /\ \A p \in 1..n : \A j \in 1..Len(s[p]) :
          off[p - 1] + j \in 1..off[n] /\ flat[off[p - 1] + j] = s[p][j]

LEMMA FlatHolds ==
    ASSUME NEW S, NEW n, NEW s, NEW off, Spans(S, n, s, off)
    PROVE  EndToEnd(S, n, s, off, FlattenSeq(s))
<1>0. /\ n \in Nat \ {0} /\ s \in [1..n -> Seq(S)] /\ off \in [0..n -> Nat] /\ off[0] = 0
      /\ \A i \in 1..n : off[i] = off[i - 1] + Len(s[i])
  BY DEF Spans
<1> USE <1>0
<1>1. Len(s) = n
  OBVIOUS
<1>2. PICK f : f = (CHOOSE g : Flattens(g, s, n))
  OBVIOUS
<1>3. Flattens(f, s, n)
  BY <1>2, FlattensThere
<1>4. FlattenSeq(s) = f[n]
  BY <1>1, <1>2, FlatIsItsFunction
<1>5. f[1] = s[1] /\ \A i \in 2..n : f[i] = f[i - 1] \o s[i]
  <2>1. f = [i \in 1..n |-> FlatStep(f, s, i)]
    BY <1>3 DEF Flattens
  <2>2. \A i \in 1..n : f[i] = FlatStep(f, s, i)
    BY ONLY <2>1, Zenon
  <2> QED
    <3>1. 1 \in 1..n
      OBVIOUS
    <3>2. f[1] = s[1]
      BY <2>2, <3>1 DEF FlatStep
    <3>3. ASSUME NEW i \in 2..n PROVE f[i] = f[i - 1] \o s[i]
      <4>1. i \in 1..n /\ i # 1
        OBVIOUS
      <4> QED
        BY <2>2, <4>1 DEF FlatStep
    <3> QED
      BY <3>2, <3>3
<1> DEFINE Right(m) ==
        /\ f[m] \in Seq(S) /\ Len(f[m]) = off[m]
        /\ \A p \in 1..m : \A j \in 1..Len(s[p]) :
              off[p - 1] + j \in 1..off[m] /\ f[m][off[p - 1] + j] = s[p][j]
           bad == {m \in 1..n : ~Right(m)}
<1>6. Right(1)
  BY <1>5
<1>7. ASSUME NEW m \in 2..n, Right(m - 1) PROVE Right(m)
  <2>1. PICK a : a = f[m - 1]
    OBVIOUS
  <2>2. PICK b : b = s[m]
    OBVIOUS
  <2>3. a \in Seq(S) /\ b \in Seq(S) /\ f[m] = a \o b
    <3>1. a \in Seq(S)
      BY <1>7, <2>1
    <3>2. m \in 1..n
      OBVIOUS
    <3>3. b \in Seq(S)
      BY <2>2, <3>2
    <3>4. f[m] = f[m - 1] \o s[m]
      BY <1>5
    <3> QED
      BY <2>1, <2>2, <3>1, <3>3, <3>4
  <2>4. /\ Len(a) = off[m - 1] /\ off[m] = off[m - 1] + Len(b) /\ Len(b) \in Nat
        /\ off[m - 1] \in Nat
    <3>1. Len(a) = off[m - 1]
      BY <1>7, <2>1
    <3>2. m \in 1..n /\ m - 1 \in 0..n
      OBVIOUS
    <3>3. off[m] = off[m - 1] + Len(s[m]) /\ off[m - 1] \in Nat
      BY <3>2
    <3>4. Len(b) \in Nat
      BY <2>3
    <3> QED
      BY <2>2, <3>1, <3>3, <3>4
  <2>5. /\ a \o b \in Seq(S) /\ Len(a \o b) = Len(a) + Len(b)
        /\ \A i \in 1..Len(a) : (a \o b)[i] = a[i]
        /\ \A i \in 1..Len(b) : (a \o b)[Len(a) + i] = b[i]
    BY <2>3
  <2>6. f[m] \in Seq(S) /\ Len(f[m]) = off[m]
    BY <2>3, <2>4, <2>5
  <2>7. ASSUME NEW p \in 1..m, NEW j \in 1..Len(s[p])
        PROVE  off[p - 1] + j \in 1..off[m] /\ f[m][off[p - 1] + j] = s[p][j]
    <3>1. CASE p = m
      <4>1. j \in 1..Len(b) /\ s[p][j] = b[j] /\ off[p - 1] = Len(a)
        BY <3>1, <2>2, <2>4
      <4> QED
        <5>1. Len(a) + j \in 1..off[m]
          <6>1. PICK A, B, C : A = Len(a) /\ B = Len(b) /\ C = off[m]
            OBVIOUS
          <6>2. A \in Nat /\ B \in Nat /\ C = A + B /\ j \in 1..B
            BY <6>1, <4>1, <2>4
          <6>3. A + j \in 1..C
            BY ONLY <6>2
          <6> QED
            BY <6>1, <6>3
        <5>2. f[m][Len(a) + j] = b[j]
          BY <4>1, <2>3, <2>5
        <5> QED
          BY <4>1, <5>1, <5>2
    <3>2. CASE p # m
      <4>1. p \in 1..(m - 1)
        BY <3>2
      <4>2. off[p - 1] + j \in 1..off[m - 1] /\ f[m - 1][off[p - 1] + j] = s[p][j]
        BY <4>1, <1>7
      <4> HIDE DEF Right
      <4>3. off[p - 1] + j \in 1..Len(a) /\ a[off[p - 1] + j] = s[p][j]
        BY <4>2, <2>1, <2>4
      <4> QED
        <5>1. off[p - 1] + j \in 1..off[m]
          <6>1. PICK A, B, C, D : /\ A = off[m - 1] /\ B = Len(b) /\ C = off[m]
                                  /\ D = off[p - 1] + j
            OBVIOUS
          <6>2. A \in Nat /\ B \in Nat /\ C = A + B /\ D \in 1..A
            BY <6>1, <4>2, <2>4
          <6>3. D \in 1..C
            BY ONLY <6>2
          <6> QED
            BY <6>1, <6>3
        <5>2. f[m][off[p - 1] + j] = a[off[p - 1] + j]
          BY <4>3, <2>3, <2>5
        <5> QED
          BY <4>3, <5>1, <5>2
    <3> QED
      BY <3>1, <3>2
  <2> QED
    BY <2>6, <2>7
<1> HIDE DEF Right
<1>8. bad = {}
  <2>1. SUFFICES ASSUME bad # {} PROVE FALSE
    OBVIOUS
  <2>2. PICK m \in bad : \A k \in bad : m <= k
    <3>1. bad \subseteq Nat
      OBVIOUS
    <3> HIDE DEF bad
    <3> QED
      BY <2>1, <3>1, LeastOf
  <2>3. m \in 2..n /\ ~Right(m)
    BY <1>6
  <2>4. m - 1 \in 1..n /\ m - 1 \notin bad
    BY <2>2, <2>3
  <2> QED
    BY <2>3, <2>4, <1>7
<1>9. Right(n)
  <2>1. n \in 1..n
    OBVIOUS
  <2> QED
    BY <2>1, <1>8
<1> QED
  BY <1>9, <1>4 DEF Right, EndToEnd

(* The same for sequences of one length.                                     *)
AllLong(S, n, len, s) ==
    /\ n \in Nat \ {0} /\ len \in Nat /\ s \in [1..n -> Seq(S)]
    /\ \A i \in 1..n : Len(s[i]) = len
InRows(S, n, len, s, flat) ==
    /\ flat \in Seq(S) /\ Len(flat) = n * len
    /\ \A p \in 1..n : \A j \in 1..len :
          (p - 1) * len + j \in 1..(n * len) /\ flat[(p - 1) * len + j] = s[p][j]

LEMMA FlatOfEqual ==
    ASSUME NEW S, NEW n, NEW len, NEW s, AllLong(S, n, len, s)
    PROVE  InRows(S, n, len, s, FlattenSeq(s))
<1>0. /\ n \in Nat \ {0} /\ len \in Nat /\ s \in [1..n -> Seq(S)]
      /\ \A i \in 1..n : Len(s[i]) = len
  BY DEF AllLong
<1> USE <1>0
<1>1. PICK off : off = [i \in 0..n |-> i * len]
  OBVIOUS
<1>2. \A i \in 0..n : i * len \in Nat
  OBVIOUS
<1>3. off \in [0..n -> Nat] /\ \A i \in 0..n : off[i] = i * len
  BY <1>1, <1>2
<1>4. off[0] = 0
  BY <1>3
<1>5. ASSUME NEW i \in 1..n PROVE off[i] = off[i - 1] + Len(s[i]) /\ off[i - 1] = (i - 1) * len
  BY <1>3
<1>6. off[n] = n * len
  BY <1>3
<1>7. \A i \in 1..n : off[i] = off[i - 1] + Len(s[i])
  BY <1>5
<1>8. Spans(S, n, s, off)
  BY <1>3, <1>4, <1>7 DEF Spans
<1>9. EndToEnd(S, n, s, off, FlattenSeq(s))
  BY <1>8, FlatHolds
<1> QED
  BY <1>6, <1>9, <1>5 DEF EndToEnd, InRows

-----------------------------------------------------------------------------
(* The descriptors of the profiled calls.  The index of a call's descriptor  *)
(* finds its name in the list that four nested loops have made.              *)

ProfileNames ==
    [site : ToSet(ProfileSites), thread : ToSet(ProfileThreads), op : ToSet(Ops),
     size : Nat, result : ToSet(Results)]
Width(op) == SizeClasses(op) * ResultsOf(op)
SizePart(op, size) == IF op \in Allocates THEN SizeClass(size) ELSE 0
Backs == {"null", "same", "other"}
ProfileCalls ==
    [site : ToSet(ProfileSites), op : ToSet(Ops), size : Nat,
     thread : ToSet(ProfileThreads), outermost : BOOLEAN]

LEMMA OpsAreEight ==
    /\ Len(Ops) = 8 /\ DOMAIN Ops = 1..8 /\ \A p \in 1..8 : Ops[p] \in ToSet(Ops)
    /\ Len(ProfileThreads) = 2 /\ DOMAIN ProfileThreads = 1..2
    /\ \A q \in 1..2 : ProfileThreads[q] \in ToSet(ProfileThreads)
    /\ Len(Results) = 5 /\ DOMAIN Results = 1..5
    /\ \A r \in 1..5 : Results[r] \in ToSet(Results)
  BY DEF Ops, ProfileThreads, Results, ToSet

LEMMA WidthsAre ==
    ASSUME NEW op
    PROVE  /\ SizeClasses(op) \in Nat \ {0} /\ ResultsOf(op) \in {1, 3, 5}
           /\ Width(op) \in Nat
           /\ op \in Allocates => SizeClasses(op) = Len(SizeBounds) + 1 /\ SizeClasses(op) > 1
           /\ op \notin Allocates => SizeClasses(op) = 1 /\ ResultsOf(op) = 1
<1>1. Len(SizeBounds) \in Nat \ {0}
  BY ProfileAssumption
<1>2. SizeClasses(op) \in Nat \ {0} /\ ResultsOf(op) \in {1, 3, 5}
  BY <1>1 DEF SizeClasses, ResultsOf
<1>3. \A m \in Nat, k \in Nat : m * k \in Nat
  OBVIOUS
<1>4. Width(op) \in Nat
  BY <1>2, <1>3 DEF Width
<1>5. /\ op \in Allocates => SizeClasses(op) = Len(SizeBounds) + 1 /\ SizeClasses(op) > 1
      /\ op \notin Allocates => SizeClasses(op) = 1 /\ ResultsOf(op) = 1
  BY <1>1 DEF SizeClasses, ResultsOf, Allocates
<1> QED
  BY <1>2, <1>4, <1>5

(* The sum that DescriptorsBefore stands for.                                *)
LEMMA DescriptorsBeforeSums ==
    /\ DescriptorsBefore \in [0..8 -> Nat] /\ DescriptorsBefore[0] = 0
    /\ \A n \in 1..8 : DescriptorsBefore[n] = DescriptorsBefore[n - 1] + Width(Ops[n])
<1> DEFINE Step(f, n) == IF n = 0 THEN 0 ELSE f[n - 1] + Width(Ops[n])
           Sum(f) == f = [n \in 0..8 |-> Step(f, n)]
<1>1. DescriptorsBefore = CHOOSE f : Sum(f)
  BY OpsAreEight DEF DescriptorsBefore, Width
<1>2. \E f : Sum(f)
  <2>1. PICK w : w = [n \in 1..8 |-> Width(Ops[n])]
    OBVIOUS
  <2>2. \A n \in 1..8 : w[n] = Width(Ops[n])
    BY <2>1
  <2>3. PICK f : f = [n \in 0..8 |->
            IF n = 0 THEN 0
            ELSE IF n = 1 THEN 0 + w[1]
            ELSE IF n = 2 THEN 0 + w[1] + w[2]
            ELSE IF n = 3 THEN 0 + w[1] + w[2] + w[3]
            ELSE IF n = 4 THEN 0 + w[1] + w[2] + w[3] + w[4]
            ELSE IF n = 5 THEN 0 + w[1] + w[2] + w[3] + w[4] + w[5]
            ELSE IF n = 6 THEN 0 + w[1] + w[2] + w[3] + w[4] + w[5] + w[6]
            ELSE IF n = 7 THEN 0 + w[1] + w[2] + w[3] + w[4] + w[5] + w[6] + w[7]
            ELSE 0 + w[1] + w[2] + w[3] + w[4] + w[5] + w[6] + w[7] + w[8]]
    OBVIOUS
  <2>4. f[0] = 0 /\ \A n \in 1..8 : f[n] = f[n - 1] + w[n]
    BY <2>3
  <2>5. ASSUME NEW n \in 0..8 PROVE f[n] = Step(f, n)
    BY <2>4, <2>2
  <2>6. f = [n \in 0..8 |-> f[n]]
    BY <2>3
  <2> HIDE DEF Step
  <2>7. Sum(f)
    BY <2>5, <2>6
  <2> HIDE DEF Sum
  <2> QED
    BY <2>7
<1>3. Sum(DescriptorsBefore)
  <2> HIDE DEF Sum
  <2> QED
    BY <1>1, <1>2
<1>4. PICK d : d = DescriptorsBefore
  OBVIOUS
<1>5. d = [n \in 0..8 |-> Step(d, n)]
  BY <1>3, <1>4
<1>6. DOMAIN d = 0..8 /\ \A n \in 0..8 : d[n] = Step(d, n)
  <2> HIDE DEF Step
  <2> QED
    BY ONLY <1>5, Zenon
<1>7. d[0] = 0
  BY <1>6
<1>8. ASSUME NEW n \in 1..8 PROVE d[n] = d[n - 1] + Width(Ops[n])
  BY <1>6
<1>9. d = [n \in 0..8 |-> d[n]]
  <2> HIDE DEF Step
  <2>1. \A n \in 0..8 : Step(d, n) = d[n]
    BY <1>6
  <2> QED
    BY ONLY <1>5, <2>1, Zenon
<1>10. \A n \in 1..8 : Width(Ops[n]) \in Nat
  BY WidthsAre
<1> HIDE DEF Step, Sum
<1>11. \A n \in 0..8 : d[n] \in Nat
  BY <1>7, <1>8, <1>10
<1>12. d \in [0..8 -> Nat]
  BY <1>9, <1>11
<1> QED
  BY <1>4, <1>7, <1>8, <1>12

LEMMA FoundAt ==
    ASSUME NEW s, NEW x \in ToSet(s)
    PROVE  IndexIn(s, x) \in DOMAIN s /\ s[IndexIn(s, x)] = x
  BY DEF ToSet, IndexIn

(* The size's class is one of those the bounds make.                         *)
LEMMA SizeClassIs ==
    ASSUME NEW size \in Nat
    PROVE  SizeClass(size) \in 0..Len(SizeBounds)
<1>1. Len(SizeBounds) \in Nat \ {0} /\ DOMAIN SizeBounds = 1..Len(SizeBounds)
      /\ \A i \in DOMAIN SizeBounds : SizeBounds[i] \in Nat
  BY ProfileAssumption
<1> DEFINE T == {i \in DOMAIN SizeBounds : size <= SizeBounds[i]}
<1>2. CASE T = {}
  BY <1>2, <1>1 DEF SizeClass
<1>3. CASE T # {}
  <2>1. T \subseteq Nat
    BY <1>1
  <2>2. PICK i \in T : \A j \in T : i <= j
    <3> HIDE DEF T
    <3> QED
      BY <1>3, <2>1, LeastOf
  <2>3. \A j \in 1..(i - 1) : size > SizeBounds[j]
    BY <1>1, <2>2
  <2>4. \E m \in DOMAIN SizeBounds :
            size <= SizeBounds[m] /\ \A j \in 1..(m - 1) : size > SizeBounds[j]
    BY <2>2, <2>3
  <2>5. PICK k : k = (CHOOSE m \in DOMAIN SizeBounds :
                        size <= SizeBounds[m] /\ \A j \in 1..(m - 1) : size > SizeBounds[j])
    OBVIOUS
  <2>6. k \in DOMAIN SizeBounds
    BY <2>4, <2>5
  <2>7. \E l \in DOMAIN SizeBounds : size <= SizeBounds[l]
    BY <2>2
  <2>8. SizeClass(size) = k - 1
    BY <2>5, <2>7 DEF SizeClass
  <2> QED
    BY <1>1, <2>6, <2>8
<1> QED
  BY <1>2, <1>3

(* What an operation's names are.                                            *)
LEMMA OpNamesAre ==
    ASSUME NEW site \in ToSet(ProfileSites), NEW thread \in ToSet(ProfileThreads),
           NEW op \in ToSet(Ops)
    PROVE  /\ NamesOf(site, thread, op) \in Seq(ProfileNames)
           /\ Len(NamesOf(site, thread, op)) = Width(op)
           /\ \A class \in 0..(SizeClasses(op) - 1) : \A r \in 0..(ResultsOf(op) - 1) :
                 /\ class * ResultsOf(op) + r + 1 \in 1..Width(op)
                 /\ NamesOf(site, thread, op)[class * ResultsOf(op) + r + 1] =
                       [site |-> site, thread |-> thread, op |-> op,
                        size |-> class, result |-> Results[r + 1]]
<1>1. PICK C : C = SizeClasses(op)
  OBVIOUS
<1>2. PICK R : R = ResultsOf(op)
  OBVIOUS
<1>3. C \in Nat \ {0} /\ R \in {1, 3, 5} /\ Width(op) = C * R /\ Width(op) \in Nat
  BY <1>1, <1>2, WidthsAre DEF Width
<1> DEFINE Name(i) == [site |-> site, thread |-> thread, op |-> op,
                       size |-> (i - 1) \div R, result |-> Results[((i - 1) % R) + 1]]
<1>4. PICK n : n = NamesOf(site, thread, op)
  OBVIOUS
<1>5. n = [i \in 1..Width(op) |-> Name(i)]
  BY <1>1, <1>2, <1>3, <1>4 DEF NamesOf
<1>6. \A i \in 1..Width(op) : (i - 1) \div R \in Nat /\ ((i - 1) % R) + 1 \in 1..5
  BY <1>3
<1>7. \A i \in 1..Width(op) : Name(i) \in ProfileNames
  BY <1>6, OpsAreEight DEF ProfileNames
<1>8. n \in Seq(ProfileNames) /\ Len(n) = Width(op) /\ \A i \in 1..Width(op) : n[i] = Name(i)
  <2> HIDE DEF Name
  <2> QED
    BY <1>3, <1>5, <1>7
<1>9. ASSUME NEW class \in 0..(C - 1), NEW r \in 0..(R - 1)
      PROVE  /\ class * R + r + 1 \in 1..Width(op)
             /\ n[class * R + r + 1] =
                   [site |-> site, thread |-> thread, op |-> op,
                    size |-> class, result |-> Results[r + 1]]
  <2>1. PICK i : i = class * R + r + 1
    OBVIOUS
  <2>2. R = 1 \/ R = 3 \/ R = 5
    BY <1>3
  <2>3. i \in 1..(C * R) /\ (i - 1) \div R = class /\ (i - 1) % R = r
    BY <1>3, <2>1, <2>2
  <2>4. Name(i) = [site |-> site, thread |-> thread, op |-> op,
                   size |-> class, result |-> Results[r + 1]]
    BY <2>3
  <2> HIDE DEF Name
  <2> QED
    BY <1>3, <1>8, <2>1, <2>3, <2>4
<1> QED
  BY <1>1, <1>2, <1>4, <1>8, <1>9

(* The loops of kNames, from the innermost.                                  *)
ThreadNames(site, thread) ==
    FlattenSeq([p \in DOMAIN Ops |-> NamesOf(site, thread, Ops[p])])
SiteNames(site) ==
    FlattenSeq([q \in DOMAIN ProfileThreads |-> ThreadNames(site, ProfileThreads[q])])

LEMMA NamesAreNested ==
    kNames = FlattenSeq([k \in DOMAIN ProfileSites |-> SiteNames(ProfileSites[k])])
  BY DEF kNames, Concat, SiteNames, ThreadNames

LEMMA ThreadNamesAre ==
    ASSUME NEW site \in ToSet(ProfileSites), NEW thread \in ToSet(ProfileThreads)
    PROVE  /\ ThreadNames(site, thread) \in Seq(ProfileNames)
           /\ Len(ThreadNames(site, thread)) = DescriptorsPerThread
           /\ \A p \in 1..8 : \A j \in 1..Width(Ops[p]) :
                 /\ DescriptorsBefore[p - 1] + j \in 1..DescriptorsPerThread
                 /\ ThreadNames(site, thread)[DescriptorsBefore[p - 1] + j] =
                       NamesOf(site, thread, Ops[p])[j]
<1>1. PICK s : s = [p \in DOMAIN Ops |-> NamesOf(site, thread, Ops[p])]
  OBVIOUS
<1>2. ASSUME NEW p \in 1..8
      PROVE  s[p] = NamesOf(site, thread, Ops[p]) /\ s[p] \in Seq(ProfileNames)
             /\ Len(s[p]) = Width(Ops[p])
  BY OpsAreEight, <1>1, OpNamesAre
<1>3. s \in [1..8 -> Seq(ProfileNames)]
  BY <1>1, <1>2, OpsAreEight
<1>4. \A p \in 1..8 : DescriptorsBefore[p] = DescriptorsBefore[p - 1] + Len(s[p])
  BY <1>2, DescriptorsBeforeSums
<1>5. Spans(ProfileNames, 8, s, DescriptorsBefore)
  BY <1>3, <1>4, DescriptorsBeforeSums DEF Spans
<1>6. EndToEnd(ProfileNames, 8, s, DescriptorsBefore, ThreadNames(site, thread))
  BY <1>1, <1>5, FlatHolds DEF ThreadNames
<1>7. DescriptorsBefore[8] = DescriptorsPerThread
  BY OpsAreEight DEF DescriptorsPerThread
<1>8. PICK names : names = ThreadNames(site, thread)
  OBVIOUS
<1>9. EndToEnd(ProfileNames, 8, s, DescriptorsBefore, names)
  BY <1>6, <1>8
<1>10. /\ names \in Seq(ProfileNames) /\ Len(names) = DescriptorsPerThread
       /\ \A p \in 1..8 : \A j \in 1..Len(s[p]) :
             /\ DescriptorsBefore[p - 1] + j \in 1..DescriptorsPerThread
             /\ names[DescriptorsBefore[p - 1] + j] = s[p][j]
  BY <1>7, <1>9 DEF EndToEnd
<1> QED
  BY <1>2, <1>8, <1>10

LEMMA DescriptorsPerThreadIs == DescriptorsPerThread \in Nat
  BY DescriptorsBeforeSums, OpsAreEight DEF DescriptorsPerThread

LEMMA SiteNamesAre ==
    ASSUME NEW site \in ToSet(ProfileSites)
    PROVE  /\ SiteNames(site) \in Seq(ProfileNames)
           /\ Len(SiteNames(site)) = 2 * DescriptorsPerThread
           /\ \A q \in 1..2 : \A j \in 1..DescriptorsPerThread :
                 /\ (q - 1) * DescriptorsPerThread + j \in 1..(2 * DescriptorsPerThread)
                 /\ SiteNames(site)[(q - 1) * DescriptorsPerThread + j] =
                       ThreadNames(site, ProfileThreads[q])[j]
<1>1. PICK s : s = [q \in DOMAIN ProfileThreads |-> ThreadNames(site, ProfileThreads[q])]
  OBVIOUS
<1>2. ASSUME NEW q \in 1..2
      PROVE  s[q] = ThreadNames(site, ProfileThreads[q]) /\ s[q] \in Seq(ProfileNames)
             /\ Len(s[q]) = DescriptorsPerThread
  BY OpsAreEight, <1>1, ThreadNamesAre
<1>3. s \in [1..2 -> Seq(ProfileNames)]
  BY <1>1, <1>2, OpsAreEight
<1>4. PICK len \in Nat : len = DescriptorsPerThread
  BY DescriptorsPerThreadIs
<1>5. /\ FlattenSeq(s) \in Seq(ProfileNames) /\ Len(FlattenSeq(s)) = 2 * len
      /\ \A q \in 1..2 : \A j \in 1..len :
            /\ (q - 1) * len + j \in 1..(2 * len)
            /\ FlattenSeq(s)[(q - 1) * len + j] = s[q][j]
  <2>1. AllLong(ProfileNames, 2, len, s)
    BY <1>2, <1>3, <1>4 DEF AllLong
  <2>2. InRows(ProfileNames, 2, len, s, FlattenSeq(s))
    BY <2>1, FlatOfEqual
  <2> QED
    BY <2>2 DEF InRows
<1>6. SiteNames(site) = FlattenSeq(s)
  BY <1>1 DEF SiteNames
<1> QED
  BY <1>2, <1>4, <1>5, <1>6

LEMMA AllNamesAre ==
    ASSUME NEW k \in 1..Len(ProfileSites), NEW j \in 1..(2 * DescriptorsPerThread)
    PROVE  kNames[(k - 1) * (2 * DescriptorsPerThread) + j] = SiteNames(ProfileSites[k])[j]
<1>1. PICK n \in Nat : n = Len(ProfileSites) /\ DOMAIN ProfileSites = 1..n
  BY ProfileAssumption
<1>2. PICK s : s = [i \in DOMAIN ProfileSites |-> SiteNames(ProfileSites[i])]
  OBVIOUS
<1>3. PICK len \in Nat : len = 2 * DescriptorsPerThread
  BY DescriptorsPerThreadIs
<1>4. ASSUME NEW i \in 1..n
      PROVE  s[i] = SiteNames(ProfileSites[i]) /\ s[i] \in Seq(ProfileNames) /\ Len(s[i]) = len
  BY <1>1, <1>2, <1>3, SiteNamesAre DEF ToSet
<1>5. s \in [1..n -> Seq(ProfileNames)]
  BY <1>1, <1>2, <1>4
<1>6. n \in Nat \ {0} /\ k \in 1..n /\ j \in 1..len
  BY <1>1, <1>3
<1>7. FlattenSeq(s)[(k - 1) * len + j] = s[k][j]
  <2>1. AllLong(ProfileNames, n, len, s)
    BY <1>3, <1>4, <1>5, <1>6 DEF AllLong
  <2>2. InRows(ProfileNames, n, len, s, FlattenSeq(s))
    BY <2>1, FlatOfEqual
  <2> QED
    BY <2>2, <1>6 DEF InRows
<1>8. kNames = FlattenSeq(s)
  BY <1>2, NamesAreNested
<1> QED
  BY <1>3, <1>4, <1>6, <1>7, <1>8

(* The name that a call's descriptor leads to.                               *)
LEMMA DescriptorNamesTheCall ==
    ASSUME NEW call \in ProfileCalls, NEW back \in Backs,
           back = "same" => ResultsOf(call.op) = 5,
           NEW result, result = Classification(call.op, call.size, back)
    PROVE  kNames[HeapProfileDescriptor(call.site, call.thread, call.op, call.size)
                    + IndexIn(Results, result) - 1 + 1] =
              [site |-> call.site, thread |-> call.thread, op |-> call.op,
               size |-> SizePart(call.op, call.size), result |-> result]
<1>1. PICK site, thread, op, size : /\ site = call.site /\ thread = call.thread
                                    /\ op = call.op /\ size = call.size
  OBVIOUS
<1>2. /\ site \in ToSet(ProfileSites) /\ thread \in ToSet(ProfileThreads)
      /\ op \in ToSet(Ops) /\ size \in Nat
  BY <1>1 DEF ProfileCalls
<1>3. PICK k : k = IndexIn(ProfileSites, site)
  OBVIOUS
<1>4. PICK q : q = IndexIn(ProfileThreads, thread)
  OBVIOUS
<1>5. PICK p : p = IndexIn(Ops, op)
  OBVIOUS
<1>6. PICK x : x = IndexIn(Results, result)
  OBVIOUS
<1>7. /\ k \in 1..Len(ProfileSites) /\ ProfileSites[k] = site
      /\ q \in 1..2 /\ ProfileThreads[q] = thread
      /\ p \in 1..8 /\ Ops[p] = op
  BY ProfileAssumption, <1>2, <1>3, <1>4, <1>5, FoundAt, OpsAreEight
<1>8. x \in 1..ResultsOf(op) /\ Results[x] = result
  BY OpsAreEight, <1>6, FoundAt, WidthsAre, <1>1 DEF Results, Classification, ResultsOf
<1>9. PICK C : C = SizeClasses(op)
  OBVIOUS
<1>10. PICK R : R = ResultsOf(op)
  OBVIOUS
<1>11. PICK c : c = SizePart(op, size)
  OBVIOUS
<1>12. /\ c \in 0..(C - 1) /\ C \in Nat \ {0} /\ R \in {1, 3, 5}
       /\ c * R = (IF C > 1 THEN SizeClass(size) * R ELSE 0)
  <2>1. SizeClass(size) \in 0..Len(SizeBounds) /\ Len(SizeBounds) \in Nat
    <3>1. size \in Nat
      BY <1>2
    <3>2. SizeClass(size) \in 0..Len(SizeBounds)
      BY ONLY <3>1, SizeClassIs
    <3>3. Len(SizeBounds) \in Nat
      BY ProfileAssumption
    <3> QED
      BY <3>2, <3>3
  <2>2. C \in Nat \ {0} /\ R \in {1, 3, 5}
    BY <1>9, <1>10, WidthsAre
  <2>3. CASE op \in Allocates
    BY <1>9, <1>11, <2>3, WidthsAre, <2>1, <2>2 DEF SizePart
  <2>4. CASE op \notin Allocates
    BY <1>9, <1>10, <1>11, <2>4, WidthsAre DEF SizePart
  <2> QED
    BY <2>3, <2>4
<1>13. PICK j : j = c * R + (x - 1) + 1
  OBVIOUS
<1>14. j \in 1..Width(op) /\ NamesOf(site, thread, op)[j] =
           [site |-> site, thread |-> thread, op |-> op, size |-> c, result |-> result]
  BY <1>8, <1>10, <1>12, <1>2, <1>9, <1>13, OpNamesAre
<1>15. PICK b : b = DescriptorsBefore[p - 1]
  OBVIOUS
<1>16. PICK D : D = DescriptorsPerThread
  OBVIOUS
<1>17. D \in Nat /\ b \in Nat
  <2>1. p - 1 \in 0..8
    BY <1>7
  <2> QED
    BY <1>15, <1>16, <2>1, DescriptorsPerThreadIs, DescriptorsBeforeSums
<1>18. b + j \in 1..D /\ ThreadNames(site, thread)[b + j] = NamesOf(site, thread, op)[j]
  BY <1>2, <1>7, <1>14, <1>15, <1>16, ThreadNamesAre
<1>19. PICK t : t = (q - 1) * D + (b + j)
  OBVIOUS
<1>20. t \in 1..(2 * D) /\ SiteNames(site)[t] = ThreadNames(site, thread)[b + j]
  BY <1>2, <1>7, <1>16, <1>18, <1>19, SiteNamesAre
<1>21. kNames[(k - 1) * (2 * D) + t] = SiteNames(site)[t]
  BY <1>7, <1>16, <1>20, AllNamesAre
<1>22. HeapProfileDescriptor(site, thread, op, size)
          = (k - 1) * 2 * D + (q - 1) * D + b + c * R
  BY <1>3, <1>4, <1>5, <1>9, <1>10, <1>12, <1>15, <1>16 DEF HeapProfileDescriptor
<1>23. (k - 1) * 2 * D + (q - 1) * D + b + c * R + x - 1 + 1 = (k - 1) * (2 * D) + t
  <2>1. k \in Int /\ q \in Int /\ x \in Int /\ c \in Int /\ R \in Int /\ D \in Int /\ b \in Int
    BY <1>7, <1>8, <1>12, <1>17, ProfileAssumption, WidthsAre
  <2>2. PICK u \in Int : u = c * R
    BY <2>1
  <2>3. PICK v \in Int : v = (q - 1) * D
    BY <2>1
  <2>4. PICK w \in Int : w = (k - 1) * D
    BY <2>1
  <2>5. (k - 1) * 2 * D = 2 * w /\ (k - 1) * (2 * D) = 2 * w
    BY <2>1, <2>4
  <2>6. t = v + (b + (u + (x - 1) + 1))
    BY <1>13, <1>19, <2>2, <2>3
  <2>7. 2 * w + v + b + u + x - 1 + 1 = 2 * w + (v + (b + (u + (x - 1) + 1)))
    BY <2>1
  <2> QED
    BY <2>2, <2>3, <2>5, <2>6, <2>7
<1> QED
  BY <1>1, <1>6, <1>11, <1>14, <1>18, <1>20, <1>21, <1>22, <1>23

CallsInv ==
    /\ calls \in Seq(ProfileCalls)
    /\ inProfiledCall \in BOOLEAN /\ (inProfiledCall <=> calls # <<>>)
    /\ \A i \in DOMAIN calls : calls[i].outermost <=> i = 1
TimedIsNamed ==
    \A i \in DOMAIN timed :
        LET name == kNames[timed[i].descriptor + 1]
            call == timed[i].call
        IN  /\ <<name.site, name.thread, name.op>> = <<call.site, call.thread, call.op>>
            /\ name.size = IF call.op \in Allocates THEN SizeClass(call.size) ELSE 0
            /\ name.result = Classification(call.op, call.size, timed[i].back)
ProfileInv == CallsInv /\ TimedIsNamed

LEMMA ProfileStarts == ProfileStart => ProfileInv
<1> SUFFICES ASSUME ProfileStart PROVE ProfileInv
  OBVIOUS
<1>1. calls = <<>> /\ inProfiledCall = FALSE /\ timed = <<>>
  BY DEF ProfileStart
<1>2. CallsInv
  <2>1. calls \in Seq(ProfileCalls) /\ DOMAIN calls = {}
    BY <1>1
  <2>2. inProfiledCall \in BOOLEAN /\ (inProfiledCall <=> calls # <<>>)
    BY <1>1
  <2> QED
    BY <2>1, <2>2 DEF CallsInv
<1>3. TimedIsNamed
  BY <1>1 DEF TimedIsNamed
<1> QED
  BY <1>2, <1>3 DEF ProfileInv

LEMMA EnterKeeps ==
    ASSUME ProfileInv, NEW site \in ToSet(ProfileSites), NEW op \in ToSet(Ops),
           NEW size \in 0..(SizeBounds[Len(SizeBounds)] + 1), EnterCall(site, op, size)
    PROVE  ProfileInv'
<1>1. calls \in Seq(ProfileCalls) /\ inProfiledCall \in BOOLEAN
      /\ (inProfiledCall <=> calls # <<>>)
      /\ \A i \in DOMAIN calls : calls[i].outermost <=> i = 1
  BY DEF ProfileInv, CallsInv
<1>2. PICK thread \in ToSet(ProfileThreads) :
          calls' = Append(calls, [site |-> site, op |-> op, size |-> size,
                                  thread |-> thread, outermost |-> ~inProfiledCall])
  BY DEF EnterCall
<1>3. inProfiledCall' = TRUE /\ timed' = <<>>
  BY DEF EnterCall
<1>4. PICK call : call = [site |-> site, op |-> op, size |-> size,
                          thread |-> thread, outermost |-> ~inProfiledCall]
  OBVIOUS
<1>5. SizeBounds[Len(SizeBounds)] \in Nat
  BY ProfileAssumption
<1>6. size \in Nat /\ (~inProfiledCall) \in BOOLEAN
  BY <1>5
<1>7. call \in ProfileCalls /\ call.outermost = ~inProfiledCall
  BY <1>4, <1>6 DEF ProfileCalls
<1>8. PICK n : n = Len(calls)
  OBVIOUS
<1>9. /\ calls' \in Seq(ProfileCalls) /\ Len(calls') = n + 1 /\ n \in Nat
      /\ \A i \in 1..n : calls'[i] = calls[i]
      /\ calls'[n + 1] = call
  BY <1>1, <1>2, <1>4, <1>7, <1>8, AppendIs
<1>10. DOMAIN calls' = 1..(n + 1) /\ DOMAIN calls = 1..n /\ calls' # <<>>
  BY <1>1, <1>9, <1>8
<1>11. inProfiledCall <=> n # 0
  BY <1>1, <1>8
<1>12. ASSUME NEW i \in 1..(n + 1) PROVE calls'[i].outermost <=> i = 1
  <2>1. CASE i = n + 1
    <3>1. calls'[i].outermost = ~inProfiledCall
      BY <1>7, <1>9, <2>1
    <3>2. n # 0 <=> i # 1
      BY <2>1, <1>9
    <3> QED
      BY <3>1, <3>2, <1>11
  <2>2. CASE i # n + 1
    BY <2>2, <1>9, <1>1, <1>10
  <2> QED
    BY <2>1, <2>2
<1>13. CallsInv'
  BY <1>3, <1>9, <1>10, <1>12 DEF CallsInv
<1>14. TimedIsNamed'
  BY <1>3 DEF TimedIsNamed
<1> QED
  BY <1>13, <1>14 DEF ProfileInv

LEMMA LeaveKeeps ==
    ASSUME ProfileInv, NEW back \in Backs, LeaveCall(back)
    PROVE  ProfileInv'
<1>1. calls \in Seq(ProfileCalls) /\ inProfiledCall \in BOOLEAN
      /\ (inProfiledCall <=> calls # <<>>)
      /\ \A i \in DOMAIN calls : calls[i].outermost <=> i = 1
  BY DEF ProfileInv, CallsInv
<1>2. TimedIsNamed
  BY DEF ProfileInv
<1>3. PICK call : call = Last(calls)
  OBVIOUS
<1>4. PICK result : result = Classification(call.op, call.size, back)
  OBVIOUS
<1>5. /\ calls # <<>> /\ calls' = Front(calls)
      /\ back = "same" => ResultsOf(call.op) = 5
      /\ inProfiledCall' = ~call.outermost
      /\ call.outermost =>
            timed' = <<[call |-> call, back |-> back,
                descriptor |-> HeapProfileDescriptor(call.site, call.thread, call.op, call.size)
                    + IndexIn(Results, result) - 1]>>
      /\ ~call.outermost => timed' = timed
  BY <1>3, <1>4 DEF LeaveCall, FlagAfter
<1>6. PICK n : n = Len(calls)
  OBVIOUS
<1>7. /\ calls' \in Seq(ProfileCalls) /\ Len(calls') = n - 1 /\ n \in Nat \ {0}
      /\ \A i \in 1..(n - 1) : calls'[i] = calls[i]
      /\ call = calls[n] /\ call \in ProfileCalls
  <2>1. PICK shorter : shorter = Front(calls)
    OBVIOUS
  <2>2. /\ shorter \in Seq(ProfileCalls) /\ Len(shorter) = n - 1 /\ n \in Nat \ {0}
        /\ \A i \in 1..Len(shorter) : shorter[i] = calls[i]
        /\ call = calls[n] /\ call \in ProfileCalls
    BY <1>1, <1>3, <1>5, <1>6, <2>1, FrontIs
  <2>3. calls' = shorter
    BY <1>5, <2>1
  <2> QED
    BY <2>2, <2>3
<1>8. DOMAIN calls' = 1..(n - 1) /\ DOMAIN calls = 1..n
  BY <1>1, <1>6, <1>7
<1>9. call.outermost \in BOOLEAN /\ (call.outermost <=> n = 1)
  BY <1>1, <1>7, <1>8 DEF ProfileCalls
<1>10. calls' # <<>> <=> n # 1
  BY <1>7
<1>11. CallsInv'
  <2>1. inProfiledCall' \in BOOLEAN /\ (inProfiledCall' <=> calls' # <<>>)
    BY <1>5, <1>9, <1>10
  <2>2. \A i \in DOMAIN calls' : calls'[i].outermost <=> i = 1
    BY <1>1, <1>7, <1>8
  <2> QED
    BY <1>7, <2>1, <2>2 DEF CallsInv
<1>12. TimedIsNamed'
  <2>1. CASE ~call.outermost
    BY <1>2, <1>5, <2>1 DEF TimedIsNamed
  <2>2. CASE call.outermost
    <3>1. PICK d : d = HeapProfileDescriptor(call.site, call.thread, call.op, call.size)
                          + IndexIn(Results, result) - 1
      OBVIOUS
    <3>2. kNames[d + 1] = [site |-> call.site, thread |-> call.thread, op |-> call.op,
                           size |-> SizePart(call.op, call.size), result |-> result]
      BY <1>4, <1>5, <1>7, <3>1, DescriptorNamesTheCall
    <3>3. timed' = <<[call |-> call, back |-> back, descriptor |-> d]>>
      BY <1>5, <2>2, <3>1
    <3>4. DOMAIN timed' = {1} /\ timed'[1].call = call /\ timed'[1].back = back
          /\ timed'[1].descriptor = d
      BY <3>3
    <3>5. PICK name : name = kNames[d + 1]
      OBVIOUS
    <3>6. /\ name.site = call.site /\ name.thread = call.thread /\ name.op = call.op
          /\ name.size = (IF call.op \in Allocates THEN SizeClass(call.size) ELSE 0)
          /\ name.result = Classification(call.op, call.size, back)
      BY <1>4, <3>2, <3>5 DEF SizePart
    <3> QED
      BY <3>4, <3>5, <3>6 DEF TimedIsNamed
  <2> QED
    BY <2>1, <2>2
<1> QED
  BY <1>11, <1>12 DEF ProfileInv

LEMMA ProfileStepKeeps == ProfileInv /\ [ProfileNext]_profileVars => ProfileInv'
<1> SUFFICES ASSUME ProfileInv, [ProfileNext]_profileVars PROVE ProfileInv'
  OBVIOUS
<1>1. CASE \E site \in ToSet(ProfileSites), op \in ToSet(Ops) :
              \E size \in 0 .. SizeBounds[Len(SizeBounds)] + 1 : EnterCall(site, op, size)
  BY <1>1, EnterKeeps
<1>2. CASE \E back \in {"null", "same", "other"} : LeaveCall(back)
  BY <1>2, LeaveKeeps DEF Backs
<1>3. CASE UNCHANGED profileVars
  BY <1>3 DEF profileVars, ProfileInv, CallsInv, TimedIsNamed
<1> QED
  BY <1>1, <1>2, <1>3 DEF ProfileNext

-----------------------------------------------------------------------------
(* The theorems.                                                             *)

(* The calls of the game reach a heap that is ready, also where a backend    *)
(* could not be initialized, and a block ends in the heap it came from;      *)
(* rpmalloc takes for its own what it mapped and nothing else                *)
(* (AdModuleMemoryManager.cpp, AdHeapBackend.h, AdRpmallocHeap.cpp).         *)
THEOREM BlocksAlwaysComeHome == HeapSpec /\ GranuleSpec => BlocksComeHome
<1>1. HeapInv => HooksAreReady
  BY DEF HeapInv
<1>2. ASSUME HeapInv, [HeapNext]_heapVars
      PROVE  [\A a \in Addresses :
                 heapBlocks[a].heap \notin {"none", reached'}
                     => heapBlocks'[a] = heapBlocks[a]]_heapVars
  BY <1>2, HeapStepKeeps
<1>3. HeapSpec => []HooksAreReady /\ BlocksGoHome
  BY <1>1, <1>2, HeapStarts, HeapStepKeeps, PTL DEF HeapSpec, BlocksGoHome
<1>4. GranuleSpec => []OnlyRpmallocBlocksOwned
  BY GranulesStart, GranuleStepKeeps, OwnedInvariantly, PTL DEF GranuleSpec
<1> QED
  BY <1>3, <1>4 DEF BlocksComeHome

(* What the hooks and the adapter ask of a heap leaves room for what the     *)
(* game asked for and for what it reads beyond it, also where a sum or a     *)
(* product comes near SIZE_MAX, if the heap that is reached gives what it is *)
(* asked for: the game's heap, Voltek, mimalloc and rpmalloc are taken to.   *)
(* Voltek's resizes keep every byte that was written and fits, and its count *)
(* of the blocks it handed out is right.  Visper may give too short a block: *)
(* one whose header names a larger heap, and for no more than the size of    *)
(* that heap (AdHeapBackend.h, AdProxyHeap.h, vmm, Visper's allocator).      *)
THEOREM RoomIsAlwaysKept == Spec /\ HeapSpec /\ VoltekSpec => []BlocksKeepTheirRoom
<1>1. HeapInv => BlocksHaveRoom
  BY DEF HeapInv, BlockMaps, RoomyBlocks, NoHeapBlock, BlocksHaveRoom
<1>2. VoltekInv => ResizesLoseNothing
  BY DEF VoltekInv, ResizesLoseNothing
<1>3. HeapInv /\ VoltekInv /\ VisperInv /\ RoomInv => BlocksKeepTheirRoom
  BY <1>1, <1>2, RoomFollows DEF BlocksKeepTheirRoom
<1>4. HeapSpec => []HeapInv
  BY HeapStarts, HeapStepKeeps, PTL DEF HeapSpec
<1>5. VoltekSpec => []VoltekInv
  BY VoltekStarts, VoltekStepKeeps, PTL DEF VoltekSpec
<1>6. Spec => []VisperInv
  BY VisperStarts, VisperStepKeeps, PTL DEF Spec
<1>7. Spec => []RoomInv
  BY <1>6, RoomStarts, RoomStepKeeps, PTL DEF Spec
<1> QED
  BY <1>3, <1>4, <1>5, <1>6, <1>7, PTL

(* What the allocators believe of their memory is so.  Visper's stacks fit   *)
(* their pages.  Voltek's pages count their busy blocks, a pool the pages it *)
(* keeps and the indices to use again, and no page with room is forgotten    *)
(* while nobody writes to freed blocks.  Of its large blocks every slot is   *)
(* in one place, the mappers' counts are the slots', and the shared budget   *)
(* was charged what the slots that are kept hold, however threads allocate,  *)
(* free twice, flush their caches and end (vmmpool.h, vmapper.h).            *)
THEOREM PoolsAreAlwaysWhole ==
    Spec /\ HeapSpec /\ GranuleSpec /\ PoolSpec /\ SlotSpec => []PoolsAreWhole
<1>1. VisperInv => TypeOK
  <2> SUFFICES ASSUME VisperInv PROVE TypeOK
    OBVIOUS
  <2>1. /\ stacks \in [Heaps -> Seq(Seq(Blocks))]
        /\ \A h \in Heaps : Len(stacks[h]) \in 1..MaxPages
        /\ \A h \in Heaps : \A p \in 1..Len(stacks[h]) : Len(stacks[h][p]) <= BlocksPerPage
    BY DEF VisperInv, FreeOrUsed, StacksFit
  <2>2. ASSUME NEW h \in Heaps, NEW p \in DOMAIN stacks[h]
        PROVE  ToSet(stacks[h][p]) \subseteq Blocks /\ Len(stacks[h][p]) <= BlocksPerPage
    <3>1. stacks[h] \in Seq(Seq(Blocks)) /\ p \in 1..Len(stacks[h])
      BY <2>1
    <3>2. stacks[h][p] \in Seq(Blocks)
      BY <3>1
    <3>3. ToSet(stacks[h][p]) \subseteq Blocks
      BY <3>2 DEF ToSet
    <3> QED
      BY <2>1, <3>1, <3>3
  <2>3. /\ DOMAIN held \subseteq Blocks /\ \A b \in DOMAIN held : held[b] \in 1..MaxSize
        /\ faulted \in BOOLEAN
    BY DEF VisperInv, FreeOrUsed
  <2> QED
    BY <2>1, <2>2, <2>3 DEF TypeOK
<1>2. HeapInv => HeapTypeOK
  BY DEF HeapInv, HeapTypeOK, BlockMaps, RoomyBlocks
<1>3. GranuleInv => GranuleTypeOK
  BY DEF GranuleInv, GranuleTypeOK, WholeGranules
<1>4. VisperInv /\ HeapInv /\ GranuleInv /\ PoolsInv /\ SlotsInv => PoolsAreWhole
  BY <1>1, <1>2, <1>3, PoolIsWholeThen, SlotsAreWholeThen DEF PoolsAreWhole, MemoryTypeOK
<1>5. Spec => []VisperInv
  BY VisperStarts, VisperStepKeeps, PTL DEF Spec
<1>6. HeapSpec => []HeapInv
  BY HeapStarts, HeapStepKeeps, PTL DEF HeapSpec
<1>7. GranuleSpec => []GranuleInv
  BY GranulesStart, GranuleStepKeeps, PTL DEF GranuleSpec
<1>8. PoolSpec => []PoolsInv
  BY PoolsStart, PoolsStepKeeps, PTL DEF PoolSpec
<1>9. SlotSpec => []SlotsInv
  BY SlotsStart, SlotsStepKeeps, PTL DEF SlotSpec
<1> QED
  BY <1>4, <1>5, <1>6, <1>7, <1>8, <1>9, PTL

(* No block has two users: a block of Visper is at one place of one stack of *)
(* free blocks or in use, never both, whatever is freed into the page of     *)
(* another heap; a block of Voltek's pools is in use or once in the cache of *)
(* one thread, whatever is freed twice or written to after it was freed, and *)
(* whatever memory is refused (AdVisperMemoryAllocator.cpp, vmm.cpp).        *)
THEOREM NoBlockIsShared == Spec /\ PoolSpec => []NoBlockHasTwoUsers
<1>1. Spec => []VisperInv
  BY VisperStarts, VisperStepKeeps, PTL DEF Spec
<1>2. PoolSpec => []PoolsInv
  BY PoolsStart, PoolsStepKeeps, PTL DEF PoolSpec
<1>3. VisperInv /\ PoolsInv => NoBlockHasTwoUsers
  BY OnePlaceEach, BlocksAreOnes DEF NoBlockHasTwoUsers
<1> QED
  BY <1>1, <1>2, <1>3, PTL

(* A call is timed if and only if no other encloses it, and the index that   *)
(* HeapProfileDescriptor computes leads, in the list that the nested loops   *)
(* of kNames make, to the name that says where the call was, on which        *)
(* thread, what it did, how large it was and how it ended, for any sites     *)
(* and any bounds of the size classes (AdProfiledHeap.h).                    *)
THEOREM CallsAreAlwaysNamed == ProfileSpec => []CallsAreNamed
<1>1. ProfileInv => CallsAreNamed
  BY DEF ProfileInv, CallsInv, TimedIsNamed, CallsAreNamed
<1>2. ProfileSpec => []ProfileInv
  BY ProfileStarts, ProfileStepKeeps, PTL DEF ProfileSpec
<1> QED
  BY <1>1, <1>2, PTL
=============================================================================
