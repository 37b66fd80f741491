----------------------------- MODULE VoltekPools -----------------------------
(***************************************************************************)
(* One size class of the Voltek memory manager (Depends/vmm): pages of     *)
(* equal blocks under the lock of the pool, and a cache of free blocks for *)
(* every thread, filled and flushed under that lock and used without it.   *)
(* A block's flags are changed by compare and exchange, so that a second   *)
(* free is ignored; a free block holds the link of its page's free list,   *)
(* which a user may still overwrite.  Blocks are told by their addresses.  *)
(*                                                                         *)
(* Freeing a block twice is the caller's error; it is let race with the    *)
(* first free but assumed to end before the block is handed out again.     *)
(***************************************************************************)
EXTENDS Integers, SequencesExt, FiniteSetsExt, FiniteSets

CONSTANTS
    PoolThreads,
    PoolPages,      \* pages a pool may have, slots of its mapper
    PageBlocks,     \* class_geometry::count
    RetainedPages,  \* retained_pages
    CacheCap,       \* cache_cap
    CacheBatch      \* cache_batch

ASSUME PoolAssumption ==
    /\ PoolPages \in Nat \ {0} /\ PageBlocks \in Nat \ {0} /\ RetainedPages \in Nat
    /\ CacheCap \in Nat /\ CacheBatch \in 1 .. CacheCap

PageIds == 0 .. PoolPages - 1
PoolBlocks == [slot : PageIds, index : 1 .. PageBlocks]
NoPoolBlock == [slot |-> -1, index |-> 0]
NoPage == [slot |-> -1, busy |-> 0, bump |-> 0, head |-> 0, retained |-> FALSE]
NoIndex == -1
Corrupt == PageBlocks + 1       \* a link that is no index of the page

VARIABLES
    pool,       \* what the lock guards, and the headers of the blocks
    bins,       \* of every thread, its cached blocks, the next one last
    exited,     \* threads whose cache is gone (state 2)
    freeing,    \* of every thread, the block and the flags it has read
    inUse,      \* blocks that users have
    counting,   \* statistics_enabled
    liveBlocks, \* pool_counters::live_blocks
    overwritten \* bound: a freed block has been written to

poolVars == <<pool, bins, exited, freeing, inUse, counting, liveBlocks, overwritten>>

PoolStart ==
    /\ pool = [pages |-> [i \in PageIds |-> NoPage], current |-> NoIndex,
               free |-> <<>>, next |-> 0, roomy |-> {}, retained |-> 0,
               flags |-> [b \in PoolBlocks |-> "none"], link |-> [b \in PoolBlocks |-> 0]]
    /\ bins = [t \in PoolThreads |-> <<>>]
    /\ exited = {}
    /\ freeing = [t \in PoolThreads |-> <<>>]
    /\ inUse = {}
    /\ counting \in BOOLEAN
    /\ liveBlocks = 0
    /\ overwritten = FALSE

Lives(flag) == flag \in {"used", "counted"}
-----------------------------------------------------------------------------
(* page_t::get_first_free_block_index.  A link that is out of range, or the  *)
(* flags of a block that is not free, make the page abandon its free list.   *)

HeadOf(p, i) == [slot |-> p.pages[i].slot, index |-> p.pages[i].head]
\* Mutant: the link is followed whatever it says.
PopsUnchecked(p, i) == p.pages[i].head \in 1 .. PageBlocks
Pops(p, i) ==
    /\ p.pages[i].head # 0
    /\ p.link[HeadOf(p, i)] <= p.pages[i].bump
    /\ p.flags[HeadOf(p, i)] = "free"
Gives(p, i) == Pops(p, i) \/ p.pages[i].bump < PageBlocks

\* The page gives a block, marked with "flag"; a retained one is in use again.
Taken(p, i, flag) ==
    LET page == p.pages[i]
        block == IF Pops(p, i) THEN HeadOf(p, i)
                 ELSE [slot |-> page.slot, index |-> page.bump + 1]
    IN  [block |-> block,
         pool |-> [p EXCEPT
            !.pages[i] = [page EXCEPT
                !.busy = @ + 1, !.retained = FALSE,
                !.head = IF Pops(p, i) THEN p.link[block] ELSE 0,
                !.bump = IF Pops(p, i) THEN @ ELSE @ + 1],
            !.retained = IF page.retained THEN @ - 1 ELSE @,
            !.current = i,
            !.flags[block] = flag, !.link[block] = 0]]

(* pool_t::prepare_block_locked: the current page, else the first that gives *)
(* a block of those marked roomy, else a new one, for which there may be no  *)
(* index or no memory.  A page that gives none is roomy no more.             *)
WithoutPages(p, failed) ==
    [p EXCEPT !.current = NoIndex, !.roomy = @ \ failed,
              !.pages = [i \in PageIds |-> IF i \in failed THEN [@[i] EXCEPT !.head = 0]
                                           ELSE @[i]]]

NewIndex(p) == IF p.free # <<>> THEN Last(p.free) ELSE p.next
Indexed(p) == IF p.free # <<>> THEN [p EXCEPT !.free = Front(@)] ELSE [p EXCEPT !.next = @ + 1]
FirstSlot(p) == Min(PageIds \ {p.pages[i].slot : i \in PageIds})

PoolGrown(p) ==
    LET i == NewIndex(p) IN
    [Indexed(p) EXCEPT !.pages[i] = [NoPage EXCEPT !.slot = FirstSlot(p)],
                       !.roomy = @ \cup {i}]

Prepared(p, flag) ==
    LET others == p.roomy \ {p.current}
        givers == {i \in others : Gives(p, i)}
        before == {i \in others : \A g \in givers : i < g}
        rest == WithoutPages(p, before \cup ({p.current} \ {NoIndex}))
        none == [block |-> NoPoolBlock, pool |-> rest]
    IN  IF p.current # NoIndex /\ Gives(p, p.current) THEN {Taken(p, p.current, flag)}
        ELSE IF givers # {} THEN {Taken(rest, Min(givers), flag)}
        ELSE IF NewIndex(rest) \in PageIds
          THEN {Taken(PoolGrown(rest), NewIndex(rest), flag),
                [none EXCEPT !.pool.free = Append(Indexed(rest).free, NewIndex(rest)),
                             !.pool.next = Indexed(rest).next]}
        ELSE {none}

(* pool_t::refill: up to "n" blocks under one lock.                          *)
RefilledOnce(outcomes, n) ==
    UNION {
        IF Len(r.blocks) < n - 1 THEN {r}
        ELSE {[blocks |-> IF x.block = NoPoolBlock THEN r.blocks ELSE Append(r.blocks, x.block),
               pool |-> x.pool] : x \in Prepared(r.pool, "cached")}
        : r \in outcomes}
PoolRefilled[n \in 0 .. CacheCap] ==
    IF n = 0 THEN {[blocks |-> <<>>, pool |-> pool]}
    ELSE RefilledOnce(PoolRefilled[n - 1], n)

(* page_t::set_block_free and pool_t::release_block_locked.                  *)
PageOf(p, b) == CHOOSE i \in PageIds : p.pages[i].slot = b.slot

Emptied(p, i) ==
    IF p.retained < RetainedPages
    THEN [p EXCEPT !.pages[i] = [@ EXCEPT !.retained = TRUE], !.retained = @ + 1]
    ELSE [p EXCEPT
            !.pages[i] = NoPage,
            !.current = IF @ = i THEN NoIndex ELSE @,
            !.roomy = @ \ {i},
            !.free = Append(@, i),
            !.flags = [b \in PoolBlocks |-> IF b.slot = p.pages[i].slot THEN "none" ELSE @[b]]]

BlockReleased(p, b) ==
    LET i == PageOf(p, b)
        page == p.pages[i]
        freed == [p EXCEPT !.flags[b] = "free", !.roomy = @ \cup {i}]
    IN  IF page.busy = 1
        THEN Emptied([freed EXCEPT
                !.pages[i] = [page EXCEPT !.busy = 0, !.head = 0, !.bump = 0],
                !.link = [c \in PoolBlocks |-> IF c.slot = b.slot THEN 0 ELSE @[c]]], i)
        ELSE [freed EXCEPT !.link[b] = page.head,
                           !.pages[i] = [page EXCEPT !.busy = @ - 1, !.head = b.index]]

CacheFlushed(p, blocks) ==
    LET after[n \in 0 .. Len(blocks)] ==
            IF n = 0 THEN p ELSE BlockReleased(after[n - 1], blocks[n])
    IN  after[Len(blocks)]
-----------------------------------------------------------------------------
(* memory_manager::alloc.  Nobody but the thread uses its bin, so filling it *)
(* and taking from it are one step.                                          *)

LiveFlag == IF counting THEN "counted" ELSE "used"
NotFreeing(t) == freeing[t] = <<>>
Unraced(b) == \A t \in PoolThreads : freeing[t] # <<>> => freeing[t][1] # b

HandOut(b) ==
    /\ Unraced(b)
    /\ inUse' = inUse \cup {b}
    /\ liveBlocks' = IF counting THEN liveBlocks + 1 ELSE liveBlocks

AllocCached(t) ==
    /\ NotFreeing(t) /\ t \notin exited
    /\ \E r \in (IF bins[t] = <<>> THEN PoolRefilled[CacheCap] ELSE {[blocks |-> bins[t], pool |-> pool]}) :
          IF r.blocks = <<>>
          THEN pool' = r.pool /\ UNCHANGED <<bins, inUse, liveBlocks>>
          ELSE /\ HandOut(Last(r.blocks))
               /\ bins' = [bins EXCEPT ![t] = Front(r.blocks)]
               /\ pool' = [r.pool EXCEPT !.flags[Last(r.blocks)] = LiveFlag]
    /\ UNCHANGED <<exited, freeing, counting, overwritten>>

AllocFromPool(t) ==
    /\ NotFreeing(t) /\ t \in exited
    /\ \E x \in Prepared(pool, LiveFlag) :
          /\ pool' = x.pool
          /\ IF x.block = NoPoolBlock THEN UNCHANGED <<inUse, liveBlocks>> ELSE HandOut(x.block)
    /\ UNCHANGED <<bins, exited, freeing, counting, overwritten>>

(* memory_manager::free: the flags are read, then exchanged if they are      *)
(* still the same; another thread may free the block between.                *)
BeginFree(t, b) ==
    /\ NotFreeing(t) /\ Lives(pool.flags[b])
    /\ freeing' = [freeing EXCEPT ![t] = <<b, pool.flags[b]>>]
    /\ UNCHANGED <<pool, bins, exited, inUse, counting, liveBlocks, overwritten>>

Uncount(flag) == liveBlocks' = IF flag = "counted" THEN liveBlocks - 1 ELSE liveBlocks

\* Mutant: the flags are stored.
TryCacheStoring(b, flag) == TRUE
TryCache(b, flag) == pool.flags[b] = flag

EndFree(t) ==
    /\ freeing[t] # <<>> /\ t \notin exited
    /\ LET b == freeing[t][1]
           seen == freeing[t][2]
           full == Len(bins[t]) = CacheCap
           flushed == IF full THEN SubSeq(bins[t], 1, CacheBatch) ELSE <<>>
           cached == [pool EXCEPT !.flags[b] = "cached"]
       IN  IF TryCache(b, seen)
           THEN /\ pool' = CacheFlushed(cached, flushed)
                /\ bins' = [bins EXCEPT ![t] = Append(SubSeq(@, Len(flushed) + 1, Len(@)), b)]
                /\ inUse' = inUse \ {b}
                /\ Uncount(seen)
           ELSE UNCHANGED <<pool, bins, inUse, liveBlocks>>
    /\ freeing' = [freeing EXCEPT ![t] = <<>>]
    /\ UNCHANGED <<exited, counting, overwritten>>

\* release_block, of a thread without a cache: under the lock, but against
\* threads that do not take it.
EndFreeToPool(t) ==
    /\ freeing[t] # <<>> /\ t \in exited
    /\ LET b == freeing[t][1] IN
          IF Lives(pool.flags[b])
          THEN /\ pool' = BlockReleased(pool, b)
               /\ inUse' = inUse \ {b}
               /\ Uncount(freeing[t][2])
          ELSE UNCHANGED <<pool, inUse, liveBlocks>>
    /\ freeing' = [freeing EXCEPT ![t] = <<>>]
    /\ UNCHANGED <<bins, exited, counting, overwritten>>

(* ~cache_sentinel: the thread ends; its destructors may still allocate.     *)
FlushThreadCache(t) ==
    /\ NotFreeing(t) /\ t \notin exited
    /\ pool' = CacheFlushed(pool, bins[t])
    /\ bins' = [bins EXCEPT ![t] = <<>>]
    /\ exited' = exited \cup {t}
    /\ UNCHANGED <<freeing, inUse, counting, liveBlocks, overwritten>>

EnableStatistics ==
    /\ ~counting
    /\ counting' = TRUE
    /\ UNCHANGED <<pool, bins, exited, freeing, inUse, liveBlocks, overwritten>>

\* Somebody writes to a block that has been freed.
Overwrite(b) ==
    /\ ~overwritten /\ pool.flags[b] = "free"
    /\ \E link \in 0 .. Corrupt : pool' = [pool EXCEPT !.link[b] = link]
    /\ overwritten' = TRUE
    /\ UNCHANGED <<bins, exited, freeing, inUse, counting, liveBlocks>>

PoolNext ==
    \/ \E t \in PoolThreads :
          \/ AllocCached(t) \/ AllocFromPool(t)
          \/ EndFree(t) \/ EndFreeToPool(t) \/ FlushThreadCache(t)
          \/ \E b \in PoolBlocks : BeginFree(t, b)
    \/ EnableStatistics
    \/ \E b \in PoolBlocks : Overwrite(b)

PoolSpec == PoolStart /\ [][PoolNext]_poolVars
-----------------------------------------------------------------------------
\* No block has two users, whatever is freed twice or written to after it was
\* freed: it is in use or in the cache of one thread, once, or neither.
BlocksHaveOneUser ==
    \A b \in PoolBlocks :
        Cardinality({use \in PoolThreads \X (1 .. CacheCap) :
                        use[2] \in DOMAIN bins[use[1]] /\ bins[use[1]][use[2]] = b})
            <= IF b \in inUse THEN 0 ELSE 1

\* What the pool believes is so: a page's count of busy blocks, the pages that
\* it keeps although they are empty, the indices to use again, the count of
\* blocks in use; and while nobody has written to freed blocks, no page with
\* room is forgotten.
PageExists(i) == pool.pages[i] # NoPage
PoolIsWhole ==
    /\ \A i \in PageIds : PageExists(i) =>
          pool.pages[i].busy = Cardinality({b \in PoolBlocks :
              /\ b.slot = pool.pages[i].slot
              /\ Lives(pool.flags[b]) \/ pool.flags[b] = "cached"})
    /\ \A b \in PoolBlocks : Lives(pool.flags[b]) <=> b \in inUse
    /\ pool.retained = Cardinality({i \in PageIds : pool.pages[i].retained})
    /\ pool.retained <= RetainedPages
    /\ \A i \in PageIds : (~PageExists(i) /\ i < pool.next) <=> i \in ToSet(pool.free)
    /\ IsInjective(pool.free)
    /\ \A i \in pool.roomy \cup ({pool.current} \ {NoIndex}) : PageExists(i)
    /\ \A i \in PageIds :
          PageExists(i) /\ pool.pages[i].busy < PageBlocks => i \in pool.roomy \/ overwritten
    /\ liveBlocks = Cardinality({b \in PoolBlocks : pool.flags[b] = "counted"})

----------------------------------------------------------------------------
(***************************************************************************)
(* The large blocks of the Voltek memory manager: classes of equal slots,  *)
(* each class a mapper with a lock of its own, and one budget of committed *)
(* bytes that the mappers share for the slots they keep after a free.      *)
(* Sizes are in pages of region::commit_granularity and include the        *)
(* readable tail.  Memory may run out at any commit.                       *)
(***************************************************************************)

CONSTANTS
    SlotThreads,
    SlotPages,      \* of every class, the pages of a slot, ascending
    SlotCount,      \* slots of a class
    KeptSlots,      \* size of mapper::_retained_indices
    KeptPages       \* the limit of the retention_budget, in pages

ASSUME SlotAssumption ==
    /\ SlotPages \in Seq(Nat \ {0}) /\ SlotPages # <<>>
    /\ SlotCount \in Nat \ {0} /\ KeptSlots \in Nat /\ KeptPages \in Nat

Classes == DOMAIN SlotPages
Slots == [class : Classes, index : 0 .. SlotCount - 1]

VARIABLES
    committed,      \* mapper::_committed_pages
    available,      \* mapper::_available
    kept,           \* of every class, mapper::_retained_indices, as slots
    budget,         \* retention_budget::_retained
    usedCount,      \* mapper::_used_count
    total,          \* mapper::_committed
    asking,         \* of every thread, what it asks of which class
    returning,      \* of every thread, the slot it has marked free
    holders         \* slots that users have, with the pages they asked for

slotVars == <<committed, available, kept, budget, usedCount, total, asking, returning, holders>>

SlotStart ==
    /\ committed = [s \in Slots |-> 0]
    /\ available = Slots
    /\ kept = [c \in Classes |-> <<>>]
    /\ budget = 0
    /\ usedCount = [c \in Classes |-> 0]
    /\ total = [c \in Classes |-> 0]
    /\ asking = [t \in SlotThreads |-> <<>>]
    /\ returning = [t \in SlotThreads |-> <<>>]
    /\ holders = {}

AtRest(t) == asking[t] = <<>> /\ returning[t] = <<>>
-----------------------------------------------------------------------------
(* memory_manager::large_alloc: the classes in turn, from the smallest, each *)
(* under its own lock; a class that cannot serve is passed over.             *)

BeginLarge(t, pages) ==
    /\ AtRest(t)
    /\ asking' = [asking EXCEPT ![t] = <<1, pages>>]
    /\ UNCHANGED <<committed, available, kept, budget, usedCount, total, returning, holders>>

PassOver(t) == asking' = [asking EXCEPT ![t] =
                             IF @[1] = Len(SlotPages) THEN <<>> ELSE <<@[1] + 1, @[2]>>]

\* mapper::allocate: the slot kept last, else the first that is available.
Choice(c) == IF kept[c] # <<>> THEN {Last(kept[c])}
             ELSE LET free == {s \in available : s.class = c} IN
                  {s \in free : \A o \in free : s.index <= o.index}

\* What a slot that was kept gives back to the budget: what it was charged.
\* Mutant: what it holds now.
ChargeNow(before, pages) == pages
Charge(before, pages) == before

\* The slot's extent becomes the wanted one; less of it is given back.
TakeSlot(t) ==
    /\ asking[t] # <<>>
    /\ LET c == asking[t][1]
           pages == asking[t][2]
       IN  /\ pages <= SlotPages[c]
           /\ \E s \in Choice(c) :
                 LET before == committed[s] IN
                 /\ committed' = [committed EXCEPT ![s] = pages]
                 /\ total' = [total EXCEPT ![c] = @ + pages - before]
                 /\ IF kept[c] # <<>>
                    THEN /\ kept' = [kept EXCEPT ![c] = Front(@)]
                         /\ budget' = budget - Charge(before, pages)
                         /\ UNCHANGED available
                    ELSE /\ available' = available \ {s}
                         /\ UNCHANGED <<kept, budget>>
                 /\ holders' = holders \cup {<<s, pages>>}
           /\ usedCount' = [usedCount EXCEPT ![c] = @ + 1]
    /\ asking' = [asking EXCEPT ![t] = <<>>]
    /\ UNCHANGED returning

\* The class is too small or has no slot, or more memory cannot be committed.
TakeNone(t) ==
    /\ asking[t] # <<>>
    /\ LET c == asking[t][1]
           pages == asking[t][2]
       IN  pages <= SlotPages[c] => \A s \in Choice(c) : pages > committed[s]
    /\ PassOver(t)
    /\ UNCHANGED <<committed, available, kept, budget, usedCount, total, returning, holders>>

-----------------------------------------------------------------------------
(* memory_manager::free of a large block: try_free_default marks it, then    *)
(* mapper::release keeps the slot as it is if there is room for it, or gives *)
(* its memory back before it can be taken again.                             *)

BeginReturn(t, h) ==
    /\ AtRest(t) /\ h \in holders
    /\ holders' = holders \ {h}
    /\ returning' = [returning EXCEPT ![t] = <<h[1]>>]
    /\ UNCHANGED <<committed, available, kept, budget, usedCount, total, asking>>

TryAcquire(pages) == pages <= KeptPages - budget

\* Mutant: a slot that is kept can also be taken as an available one.
LeftAvailable(s) == available \cup {s}
KeptAway(s) == available

KeepSlot(t) ==
    /\ returning[t] # <<>>
    /\ LET s == returning[t][1] IN
       /\ Len(kept[s.class]) < KeptSlots /\ TryAcquire(committed[s])
       /\ budget' = budget + committed[s]
       /\ kept' = [kept EXCEPT ![s.class] = Append(@, s)]
       /\ available' = KeptAway(s)
       /\ usedCount' = [usedCount EXCEPT ![s.class] = @ - 1]
    /\ returning' = [returning EXCEPT ![t] = <<>>]
    /\ UNCHANGED <<committed, total, asking, holders>>

DecommitSlot(t) ==
    /\ returning[t] # <<>>
    /\ LET s == returning[t][1] IN
       /\ ~(Len(kept[s.class]) < KeptSlots /\ TryAcquire(committed[s]))
       /\ total' = [total EXCEPT ![s.class] = @ - committed[s]]
       /\ committed' = [committed EXCEPT ![s] = 0]
       /\ available' = available \cup {s}
       /\ usedCount' = [usedCount EXCEPT ![s.class] = @ - 1]
    /\ returning' = [returning EXCEPT ![t] = <<>>]
    /\ UNCHANGED <<kept, budget, asking, holders>>

SlotNext ==
    \E t \in SlotThreads :
        \/ \E pages \in 1 .. Max(ToSet(SlotPages)) : BeginLarge(t, pages)
        \/ TakeSlot(t) \/ TakeNone(t)
        \/ \E h \in holders : BeginReturn(t, h)
        \/ KeepSlot(t) \/ DecommitSlot(t)

SlotSpec == SlotStart /\ [][SlotNext]_slotVars
-----------------------------------------------------------------------------
Unreleased == {returning[t][1] : t \in {u \in SlotThreads : returning[u] # <<>>}}

\* Every slot is available, kept, or somebody's, and only one of these.  A
\* user's slot holds the pages it asked for, an available one holds none; what
\* the mappers count is what there is, and the memory of the slots that are
\* kept is what the shared budget was charged, within its limit, whichever
\* classes the slots are of and however often they grew or shrank in between.
SlotsAreWhole ==
    /\ \A s \in Slots :
          Cardinality({h \in holders : h[1] = s})
          + Cardinality({t \in SlotThreads : returning[t] = <<s>>})
          + Cardinality({i \in DOMAIN kept[s.class] : kept[s.class][i] = s})
          + (IF s \in available THEN 1 ELSE 0) = 1
    /\ \A h \in holders : committed[h[1]] = h[2]
    /\ \A s \in available : committed[s] = 0
    /\ \A c \in Classes :
          /\ total[c] = MapThenSumSet(LAMBDA s : committed[s], {s \in Slots : s.class = c})
          /\ usedCount[c] = Cardinality({h \in holders : h[1].class = c})
                            + Cardinality({s \in Unreleased : s.class = c})
          /\ Len(kept[c]) <= KeptSlots
    /\ budget = MapThenSumSet(LAMBDA s : committed[s], UNION {ToSet(kept[c]) : c \in Classes})
    /\ budget <= KeptPages

----------------------------------------------------------------------------
(***************************************************************************)
(* The calls of the Voltek memory manager as one caller sees them: blocks  *)
(* of a pool class or of their own, the one block of no bytes, and aligned *)
(* blocks, which lie inside another block behind a header of their own.    *)
(* A resize stays in place while the class fits and copies otherwise.      *)
(* The pools and the slots behind may refuse.                              *)
(***************************************************************************)

CONSTANTS
    Handles,        \* pointers the caller keeps
    ClassLimits,    \* pool_limits, the sizes that a block of a class can have
    BlockMax,       \* bound: the largest size asked for
    Overhead        \* alignment - 1 + sizeof(aligned_block)

ASSUME VoltekAssumption ==
    /\ ClassLimits \subseteq Nat \ {0} /\ BlockMax \in Nat /\ Overhead \in Nat
    /\ IsFiniteSet(Handles)

NoHanded == [kind |-> "none", room |-> 0, size |-> 0, aligned |-> FALSE, outer |-> 0]
ZeroBlock == [NoHanded EXCEPT !.kind = "default"]

VARIABLES
    handed,      \* of every pointer, the header in front of it and the room behind
    wanted,     \* of every pointer, the size its user last asked for
    written,    \* of every pointer, how many bytes its user has written and asked to keep
    preserved,       \* of every pointer, how many of its first bytes are still the user's
    unreleased  \* blocks handed out and not freed

voltekVars == <<handed, wanted, written, preserved, unreleased>>

VoltekStart ==
    /\ handed = [h \in Handles |-> NoHanded]
    /\ wanted = [h \in Handles |-> 0]
    /\ written = [h \in Handles |-> 0]
    /\ preserved = [h \in Handles |-> 0]
    /\ unreleased = 0

Lesser(a, b) == IF a < b THEN a ELSE b
BlockRange == 0 .. BlockMax

(* alloc: a block of the smallest class that fits, or one of its own when    *)
(* the size is above every class or the pool cannot grow.  No room: nothing. *)
ClassOf(size) == CHOOSE c \in ClassLimits : c >= size /\ \A d \in ClassLimits : d >= size => c <= d
FitsClass(size) == \E c \in ClassLimits : size <= c

Got(size) ==
    IF size = 0 THEN {ZeroBlock}
    ELSE {NoHanded, [NoHanded EXCEPT !.kind = "default", !.room = size, !.size = size]}
         \cup (IF FitsClass(size)
               THEN {[NoHanded EXCEPT !.kind = "pool", !.room = ClassOf(size), !.size = size]}
               ELSE {})

\* aligned_alloc, of an alignment above 16: the header is in the outer block.
GotAligned(size) ==
    {IF b = NoHanded THEN NoHanded
     ELSE [kind |-> "default", room |-> b.room - Overhead, size |-> size,
           aligned |-> TRUE, outer |-> b.size] : b \in Got(size + Overhead)}

IsFresh(b) == b # NoHanded /\ b # ZeroBlock
Gained(b) == IF IsFresh(b) THEN 1 ELSE 0

ScalableAlloc(h, size, aligned) ==
    /\ handed[h] = NoHanded
    /\ \E b \in (IF aligned THEN GotAligned(size) ELSE Got(size)) :
          /\ handed' = [handed EXCEPT ![h] = b]
          /\ wanted' = [wanted EXCEPT ![h] = IF b = NoHanded THEN 0 ELSE size]
          /\ unreleased' = unreleased + Gained(b)
    /\ UNCHANGED <<written, preserved>>

(* free: an aligned block frees the outer one; the block of no bytes stays.  *)
ReleasePtr(h) ==
    /\ handed' = [handed EXCEPT ![h] = NoHanded]
    /\ wanted' = [wanted EXCEPT ![h] = 0]
    /\ written' = [written EXCEPT ![h] = 0]
    /\ preserved' = [preserved EXCEPT ![h] = 0]
    /\ unreleased' = unreleased - Gained(handed[h])

ScalableFree(h) == handed[h] # NoHanded /\ ReleasePtr(h)

(* realloc and aligned_realloc.                                              *)
\* A pooled block keeps its place, and its header says the new size.
\* Mutant: the header is left.
ResizedUnnoticed(b, size) == b
Resized(b, size) == [b EXCEPT !.size = size]

InPlace(b, size) == b.kind = "pool" /\ size <= b.room

\* The new block gets what both have room for; refused, the old one stays.
Moved(h, size, candidates) ==
    \E b \in candidates :
        IF b = NoHanded THEN UNCHANGED voltekVars
        ELSE /\ handed' = [handed EXCEPT ![h] = b]
             /\ wanted' = [wanted EXCEPT ![h] = size]
             /\ written' = [written EXCEPT ![h] = Lesser(@, size)]
             /\ preserved' = [preserved EXCEPT ![h] = Lesser(@, Lesser(handed[h].size, size))]
             /\ unreleased' = unreleased + Gained(b) - Gained(handed[h])

ScalableRealloc(h, size, toAligned) ==
    /\ handed[h] # NoHanded
    /\ IF size = 0 THEN ReleasePtr(h)
       ELSE IF handed[h].aligned THEN Moved(h, size, GotAligned(size) \cup Got(size))
       ELSE IF toAligned THEN Moved(h, size, GotAligned(size))
       ELSE IF InPlace(handed[h], size)
         THEN /\ handed' = [handed EXCEPT ![h] = Resized(@, size)]
              /\ wanted' = [wanted EXCEPT ![h] = size]
              /\ written' = [written EXCEPT ![h] = Lesser(@, size)]
              /\ preserved' = [preserved EXCEPT ![h] = Lesser(@, size)]
              /\ UNCHANGED unreleased
       ELSE Moved(h, size, Got(size))

\* The user fills the block, as far as was asked for.
Fill(h) ==
    /\ written[h] < wanted[h]
    /\ written' = [written EXCEPT ![h] = wanted[h]]
    /\ preserved' = [preserved EXCEPT ![h] = wanted[h]]
    /\ UNCHANGED <<handed, wanted, unreleased>>

VoltekNext ==
    \E h \in Handles :
        \/ \E size \in BlockRange, aligned \in BOOLEAN : ScalableAlloc(h, size, aligned) \/ ScalableRealloc(h, size, aligned)
        \/ ScalableFree(h) \/ Fill(h)

VoltekSpec == VoltekStart /\ [][VoltekNext]_voltekVars
-----------------------------------------------------------------------------
\* Every block has room for what was last asked of it, and no resize has lost a
\* byte that its user wrote and that every size since had room for: the header
\* says how much the next resize has to copy.  Nothing handed out is forgotten.
ResizesLoseNothing ==
    /\ \A h \in Handles : wanted[h] <= handed[h].room /\ preserved[h] = written[h]
    /\ unreleased = Cardinality({h \in Handles : IsFresh(handed[h])})
=============================================================================
