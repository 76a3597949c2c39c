--------------------------- MODULE BuddyAllocator ---------------------------
(***************************************************************************)
(* malloc_3.cpp: the buddy allocator behind smalloc, scalloc, sfree and    *)
(* srealloc.  The program is single-threaded; a call is a sequence of      *)
(* steps, one per turn of the loops that split and merge blocks.           *)
(*                                                                         *)
(* Sizes and addresses are counted in units of sizeof(MetaData), 32 bytes: *)
(* every block is a power of two of them, so a request of n bytes is       *)
(* treated as one of its size rounded up to units.  Address 0 is the       *)
(* aligned base of the heap.                                               *)
(***************************************************************************)
EXTENDS Naturals, Sequences, FiniteSets, FiniteSetsExt, SequencesExt

CONSTANTS
    MaxOrder,       \* MAX_BLOCK_ORDER
    NumBlocks,      \* NUM_INITIAL_BLOCKS
    MaxAllocation,  \* MAX_ALLOCATION_SIZE
    Sizes,          \* the sizes the program asks for
    Counts,         \* the counts it passes to scalloc
    Word,           \* the number of values a size_t counts
    Mappings,       \* the mappings mmap can hand out
    MaxLive,        \* bound: the pointers the program holds when it allocates
    SbrkMayFail,    \* whether sbrk can refuse to extend the heap
    NULL

ASSUME AllocatorConstants ==
    /\ MaxOrder \in Nat /\ NumBlocks \in Nat \ {0} /\ MaxAllocation \in Nat
    /\ Sizes \subseteq Nat /\ Counts \subseteq Nat /\ Word \in Nat \ {0}
    /\ SbrkMayFail \in BOOLEAN /\ MaxLive \in Nat
    /\ NULL \notin Mappings \cup Nat /\ Mappings \cap Nat = {}

Orders == 0 .. MaxOrder
PowerOfTwo[o \in Orders] == IF o = 0 THEN 1 ELSE 2 * PowerOfTwo[o - 1]
BlockSizeByOrder(o) == 4 * PowerOfTwo[o]       \* BLOCK_SIZE_BY_ORDER
BlockSize == BlockSizeByOrder(MaxOrder)        \* BLOCK_SIZE_BYTES, MMAP_MIN_LIMIT
Addrs == {4 * i : i \in 0 .. (NumBlocks * BlockSize) \div 4 - 1}
Pointers == Addrs \cup Mappings

VARIABLES
    size, is_free,    \* the MetaData of the blocks, by address or mapping
    blocks,           \* history: the addresses at which a block of the heap starts
    mapped,           \* history: the mappings in use
    leaked,           \* history: the mappings that munmap refused to release
    freeBlocksList,   \* per order, the free blocks, as the list links them
    allocatedBlocks, allocatedBytes, metadataBytes, initialized,
    live,             \* the pointers the program holds, with the size it asked for,
                      \* and whether srealloc guessed that the block would do
    call              \* the call in progress

heapVars  == <<size, is_free, blocks, freeBlocksList>>
statVars  == <<allocatedBlocks, allocatedBytes, metadataBytes>>
vars == <<heapVars, mapped, leaked, statVars, initialized, live, call>>

\* n is the size asked for, old the pointer srealloc was given, cur a block or
\* an order the loop has reached, target the order to stop merging at, guess
\* whether srealloc took bytes of payload for the metadata of a free buddy.
Idle == [pc |-> "idle", n |-> 0, old |-> NULL, cur |-> NULL, target |-> 0, guess |-> FALSE]

Init ==
    /\ size = [p \in Pointers |-> 0] /\ is_free = [p \in Pointers |-> FALSE]
    /\ blocks = {} /\ mapped = {} /\ leaked = {}
    /\ freeBlocksList = [o \in Orders |-> <<>>]
    /\ allocatedBlocks = 0 /\ allocatedBytes = 0 /\ metadataBytes = 0
    /\ initialized = FALSE
    /\ live = {}
    /\ call = Idle

-----------------------------------------------------------------------------
(* Helpers *)

\* a ^ t for a power of two t.
Flip(a, t) == IF (a \div t) % 2 = 0 THEN a + t ELSE a - t

findBuddy(b) == Flip(b, size[b] + 1)

\* The smallest order whose blocks hold s units of payload and the metadata.
getRequiredOrder(s) == Min({o \in Orders : BlockSizeByOrder(o) >= s + 1})
getBlockOrder(b) == getRequiredOrder(size[b])

\* BlockOrderList::insertBlock walks to the first block that is not below b, so the list
\* stays sorted by address.
insertBlock(list, b) ==
    InsertAt(list, Min({i \in 1 .. Len(list) : ~(b > list[i])} \cup {Len(list) + 1}), b)

\* BlockOrderList::removeBlock; a block that is not linked is left alone.
removeBlock(list, b) == RemoveFirst(list, b)

\* The call returns NULL: whatever the program held it still holds.
ReturnNULL == call' = Idle /\ UNCHANGED live

-----------------------------------------------------------------------------
(* Allocation *)

\* The program calls smalloc(n), or srealloc(NULL, n), which is the same.
smalloc(n) ==
    /\ call.pc = "idle" /\ Cardinality(live) < MaxLive
    /\ call' = [Idle EXCEPT !.pc = "alloc", !.n = n]
    /\ UNCHANGED <<heapVars, mapped, leaked, statVars, initialized, live>>

\* scalloc(num, each) is smalloc of their product, which wraps around, once that
\* is in range; the memset that follows writes the block's own payload.
scalloc(num, each) ==
    LET totalSize == (num * each) % Word IN
    /\ call.pc = "idle" /\ Cardinality(live) < MaxLive
    /\ totalSize # 0 /\ totalSize <= MaxAllocation
    /\ call' = [Idle EXCEPT !.pc = "alloc", !.n = totalSize]
    /\ UNCHANGED <<heapVars, mapped, leaked, statVars, initialized, live>>

\* initHeap on the first smalloc, whatever it asks for.  When sbrk fails the heap
\* stays uninitialized and smalloc goes on with empty lists.
initHeap ==
    /\ call.pc = "alloc" /\ ~initialized
    /\ \/ LET bases == {i * BlockSize : i \in 0 .. NumBlocks - 1} IN
          /\ size' = [p \in Pointers |-> IF p \in bases THEN BlockSize - 1 ELSE size[p]]
          /\ is_free' = [p \in Pointers |-> IF p \in bases THEN TRUE ELSE is_free[p]]
          /\ blocks' = bases
          /\ freeBlocksList' = [freeBlocksList EXCEPT ![MaxOrder] =
                                  [i \in 1 .. NumBlocks |-> (i - 1) * BlockSize]]
          /\ allocatedBlocks' = NumBlocks
          /\ allocatedBytes' = NumBlocks * (BlockSize - 1)
          /\ metadataBytes' = NumBlocks
          /\ initialized' = TRUE
       \/ SbrkMayFail /\ UNCHANGED <<heapVars, statVars, initialized>>
    /\ call' = [call EXCEPT !.pc = "place"]
    /\ UNCHANGED <<mapped, leaked, live>>

AlreadyInitialized ==
    /\ call.pc = "alloc" /\ initialized
    /\ call' = [call EXCEPT !.pc = "place"]
    /\ UNCHANGED <<heapVars, mapped, leaked, statVars, initialized, live>>

OutOfRange(n) == n = 0 \/ n > MaxAllocation
Large(n) == n + 1 > BlockSize

\* A pointer the program gets for n units.
Pointer(p, n) == [p |-> p, n |-> n, guess |-> FALSE]

\* smalloc has block p for the n units asked for.  srealloc then moves the old
\* payload to it and frees the old block.
Deliver(p) ==
    IF call.old = NULL
      THEN call' = Idle /\ live' = live \cup {Pointer(p, call.n)}
      ELSE /\ call' = [Idle EXCEPT !.pc = "free", !.cur = call.old]
           /\ live' = {r \in live : r.p # call.old} \cup {Pointer(p, call.n)}

RejectSize ==
    /\ call.pc = "place" /\ OutOfRange(call.n)
    /\ ReturnNULL
    /\ UNCHANGED <<heapVars, mapped, leaked, statVars, initialized>>

MapLarge ==
    /\ call.pc = "place" /\ ~OutOfRange(call.n) /\ Large(call.n)
    /\ \/ \E m \in Mappings \ (mapped \cup leaked) :
            /\ size' = [size EXCEPT ![m] = call.n]
            /\ is_free' = [is_free EXCEPT ![m] = FALSE]
            /\ mapped' = mapped \cup {m}
            /\ allocatedBlocks' = allocatedBlocks + 1
            /\ allocatedBytes' = allocatedBytes + call.n
            /\ metadataBytes' = metadataBytes + 1
            /\ Deliver(m)
       \/ ReturnNULL /\ UNCHANGED <<size, is_free, mapped, statVars>>  \* mmap failed
    /\ UNCHANGED <<blocks, freeBlocksList, leaked, initialized>>

\* Mutated form: larger blocks are not considered.
AvailableSameOrder(n) == {o \in Orders : o = getRequiredOrder(n) /\ freeBlocksList[o] # <<>>}

Available(n) == {o \in Orders : o >= getRequiredOrder(n) /\ freeBlocksList[o] # <<>>}

\* splitBlockBuddy: find the lowest order that has a block.
FindOrder ==
    /\ call.pc = "place" /\ ~OutOfRange(call.n) /\ ~Large(call.n)
    /\ \/ /\ Available(call.n) = {}
          /\ ReturnNULL
       \/ /\ Available(call.n) # {}
          /\ call' = [call EXCEPT !.pc = "split", !.cur = Min(Available(call.n))]
          /\ UNCHANGED live
    /\ UNCHANGED <<heapVars, mapped, leaked, statVars, initialized>>

HalfSuffices ==
    /\ call.cur > 0
    /\ (size[Head(freeBlocksList[call.cur])] + 1) \div 2 - 1 >= call.n

RightHalf(b) == b + (size[b] + 1) \div 2

\* One turn of splitBlockBuddy's loop.
SplitBlock ==
    /\ call.pc = "split" /\ HalfSuffices
    /\ LET o     == call.cur
           left  == Head(freeBlocksList[o])
           half  == (size[left] + 1) \div 2
           right == RightHalf(left)
       IN  /\ size' = [size EXCEPT ![left] = half - 1, ![right] = half - 1]
           /\ is_free' = [is_free EXCEPT ![left] = TRUE, ![right] = TRUE]
           /\ blocks' = blocks \cup {right}
           /\ freeBlocksList' = [freeBlocksList EXCEPT
                  ![o] = Tail(@),
                  ![o - 1] = insertBlock(insertBlock(@, left), right)]
           /\ call' = [call EXCEPT !.cur = o - 1]
    /\ allocatedBlocks' = allocatedBlocks + 1
    /\ allocatedBytes' = allocatedBytes - 1
    /\ metadataBytes' = metadataBytes + 1
    /\ UNCHANGED <<mapped, leaked, initialized, live>>

TakeBlock ==
    /\ call.pc = "split" /\ ~HalfSuffices
    /\ LET o == getRequiredOrder(call.n)
           b == Head(freeBlocksList[o])
       IN  /\ freeBlocksList' = [freeBlocksList EXCEPT ![o] = Tail(@)]
           /\ is_free' = [is_free EXCEPT ![b] = FALSE]
           /\ Deliver(b)
    /\ UNCHANGED <<size, blocks, mapped, leaked, statVars, initialized>>

-----------------------------------------------------------------------------
(* Release *)

\* The program gives a pointer it holds to sfree.
sfree(p) ==
    /\ call.pc = "idle"
    /\ \E r \in live : r.p = p /\ live' = live \ {r}
    /\ call' = [Idle EXCEPT !.pc = "free", !.cur = p]
    /\ UNCHANGED <<heapVars, mapped, leaked, statVars, initialized>>

FreeMapping ==
    /\ call.pc = "free" /\ size[call.cur] + 1 > BlockSize
    /\ mapped' = mapped \ {call.cur}
    /\ \/ /\ allocatedBlocks' = allocatedBlocks - 1
          /\ allocatedBytes' = allocatedBytes - size[call.cur]
          /\ metadataBytes' = metadataBytes - 1
          /\ UNCHANGED leaked
       \/ leaked' = leaked \cup {call.cur} /\ UNCHANGED statVars  \* munmap failed
    /\ call' = Idle
    /\ UNCHANGED <<heapVars, initialized, live>>

\* The block becomes free and is linked; attemptFreeBuddyMerge goes on from it.
FreeBlock ==
    /\ call.pc = "free" /\ size[call.cur] + 1 <= BlockSize
    /\ is_free' = [is_free EXCEPT ![call.cur] = TRUE]
    /\ freeBlocksList' = [freeBlocksList EXCEPT ![getBlockOrder(call.cur)] = insertBlock(@, call.cur)]
    /\ call' = [call EXCEPT !.pc = "merge", !.target = MaxOrder]
    /\ UNCHANGED <<size, blocks, mapped, leaked, statVars, initialized, live>>

\* Mutated form: the buddy's size is not compared.
MergeableAnySize ==
    LET b == call.cur IN
    getBlockOrder(b) # call.target /\ is_free[findBuddy(b)]

\* The tests of attemptFreeBuddyMerge on the block it has reached.
Mergeable ==
    LET b == call.cur IN
    /\ getBlockOrder(b) # call.target
    /\ is_free[findBuddy(b)] /\ size[b] = size[findBuddy(b)]

\* Mutated form: the order is not computed again for the merged block.
StaleOrder(o) == o

\* The order of two merged blocks of order o.
MergedOrder(o) == o + 1

\* Mutated form: the metadata that became payload is not counted as such.
MergeForgetsBytes ==
    /\ allocatedBlocks' = allocatedBlocks - 1
    /\ UNCHANGED allocatedBytes
    /\ metadataBytes' = metadataBytes - 1

CountMerge ==
    /\ allocatedBlocks' = allocatedBlocks - 1
    /\ allocatedBytes' = allocatedBytes + 1
    /\ metadataBytes' = metadataBytes - 1

\* One turn of attemptFreeBuddyMerge's loop, with mergeBuddyBlocks.
MergeBuddies ==
    /\ call.pc = "merge" /\ Mergeable
    /\ LET b     == call.cur
           buddy == findBuddy(b)
           o     == getBlockOrder(b)
           low   == Min({b, buddy})
       IN  /\ size' = [size EXCEPT ![low] = 2 * size[b] + 1]
           /\ blocks' = blocks \ {Max({b, buddy})}
           /\ freeBlocksList' = [freeBlocksList EXCEPT
                  ![o] = removeBlock(removeBlock(@, b), buddy),
                  ![MergedOrder(o)] = insertBlock(@, low)]
           /\ call' = [call EXCEPT !.cur = low]
    /\ CountMerge
    /\ UNCHANGED <<is_free, mapped, leaked, initialized, live>>

\* The loop ends.  sfree returns; srealloc takes the merged block, moves the
\* payload to its start and returns it.
MergeDone ==
    /\ call.pc = "merge" /\ ~Mergeable
    /\ \/ /\ call.old = NULL
          /\ call' = Idle
          /\ UNCHANGED <<is_free, freeBlocksList, live>>
       \/ /\ call.old # NULL
          /\ is_free' = [is_free EXCEPT ![call.cur] = FALSE]
          /\ freeBlocksList' = [freeBlocksList EXCEPT
                 ![getBlockOrder(call.cur)] = removeBlock(@, call.cur)]
          /\ live' = {r \in live : r.p # call.old} \cup 
                      {[p |-> call.cur, n |-> call.n, guess |-> call.guess]}
          /\ call' = Idle
    /\ UNCHANGED <<size, blocks, mapped, leaked, statVars, initialized>>

-----------------------------------------------------------------------------
(* Reallocation *)

\* The size a block and its buddy have once merged.
MergedSize(p) == 2 * size[p] + 1

\* Mutated form: a buddy in use is taken as well.
CanMergeUsed(p, n, looksFree) ==
    size[p] = size[findBuddy(p)] /\ (MergedSize(p) >= n \/ looksFree)

\* srealloc's search for free buddies.  Its first turn looks at the buddy of the
\* block.  For any further turn findBuddyWithSize is given mergedSize less the
\* size of the metadata and adds that size once: the address is the last unit
\* of an aligned stretch, which is payload, and its bytes are taken for the
\* metadata of the next buddy.  looksFree is what they happen to be: whether at
\* every further turn they look like a free block of the candidate's size.
canMerge(p, n, looksFree) ==
    /\ size[p] = size[findBuddy(p)] /\ is_free[findBuddy(p)]
    /\ MergedSize(p) >= n \/ looksFree

\* mergedSize at the end of a search that succeeds: each turn doubles the block,
\* until it holds n.
FinalMergedSize(n) == BlockSizeByOrder(getRequiredOrder(n)) - 1

\* The program calls srealloc(p, n) with a pointer it holds.
srealloc(p, n) ==
    /\ call.pc = "idle"
    /\ ~OutOfRange(n)                          \* otherwise NULL, nothing changes
    /\ \E r \in live : r.p = p
    /\ \/ /\ size[p] >= n                      \* the block suffices
          /\ live' = {r \in live : r.p # p} \cup {Pointer(p, n)}
          /\ UNCHANGED <<heapVars, call>>
       \/ /\ size[p] < n
          /\ ~(~Large(n) /\ \A looksFree \in BOOLEAN : canMerge(p, n, looksFree))
          /\ call' = [Idle EXCEPT !.pc = "alloc", !.n = n, !.old = p]
          /\ UNCHANGED <<heapVars, live>>
       \/ /\ size[p] < n
          /\ ~Large(n) /\ \E looksFree \in BOOLEAN : canMerge(p, n, looksFree)
          /\ is_free' = [is_free EXCEPT ![p] = TRUE]
          /\ freeBlocksList' = [freeBlocksList EXCEPT ![getBlockOrder(p)] = insertBlock(@, p)]
          /\ call' = [pc |-> "merge", n |-> n, old |-> p, cur |-> p,
                      target |-> getRequiredOrder(FinalMergedSize(n) - 1),
                      guess |-> MergedSize(p) < n]
          /\ UNCHANGED <<size, blocks, live>>
    /\ UNCHANGED <<mapped, leaked, statVars, initialized>>

-----------------------------------------------------------------------------
\* The call in progress goes on.
Step ==
    \/ initHeap \/ AlreadyInitialized \/ RejectSize \/ MapLarge
    \/ FindOrder \/ SplitBlock \/ TakeBlock
    \/ FreeMapping \/ FreeBlock \/ MergeBuddies \/ MergeDone

Next ==
    \/ \E n \in Sizes : smalloc(n)
    \/ \E num \in Counts, each \in Sizes : scalloc(num, each)
    \/ \E p \in Pointers : sfree(p)
    \/ \E p \in Pointers, n \in Sizes : srealloc(p, n)
    \/ Step

Spec == Init /\ [][Next]_vars

-----------------------------------------------------------------------------
(* Properties *)

Held == {r.p : r \in live}
Covers(b, u) == b <= u /\ u < b + size[b] + 1

\* At every step of every call the blocks tile the heap: each unit of it belongs
\* to exactly one block, and a block starts at a multiple of its own size, a
\* power of two, which is what makes the XOR of findBuddy the address of its
\* other half.
HeapTiled ==
    initialized =>
      /\ \A u \in 0 .. NumBlocks * BlockSize - 1 : \E b \in blocks : Covers(b, u)
      /\ \A a, b \in blocks : Covers(a, b) => a = b
      /\ \A b \in blocks : size[b] + 1 = BlockSizeByOrder(getBlockOrder(b)) /\ b % (size[b] + 1) = 0

\* The free lists are the free blocks: each block marked free is linked once, in
\* the list of its own order, and every list is sorted by address, through
\* any sequence of splits, merges and in-place reallocations.
FreeListsExact ==
    \A o \in Orders :
      LET list == freeBlocksList[o] IN
      /\ {list[i] : i \in 1 .. Len(list)} = {b \in blocks : is_free[b] /\ getBlockOrder(b) = o}
      /\ \A i \in 1 .. Len(list) - 1 : list[i] < list[i + 1]

\* The block srealloc is merging in place still contains the one it was given.
GrowingInPlace(p) == call.pc = "merge" /\ p = call.old /\ Covers(call.cur, p)

\* What the program holds is its own: each pointer is a block, or a mapping, that
\* is not free, no two are the same one, and between calls nothing else is in
\* use, so that nothing leaks but what munmap refuses.  The block is as large
\* as the program asked for, unless srealloc has grown it on a guess: merging
\* in place stops at the first buddy that is not really free, and srealloc
\* does not look at the size it got.
HeldBlocksAreOwned ==
    /\ \A r, s \in live : r.p = s.p => r = s
    /\ \A r \in live :
         \/ r.p \in blocks \cup mapped /\ ~is_free[r.p] /\ (size[r.p] >= r.n \/ r.guess)
         \/ GrowingInPlace(r.p)
    /\ call.pc = "idle" => Held = mapped \cup {b \in blocks : ~is_free[b]}

\* A small allocation fails only when it must: when no list offers a block, every
\* aligned stretch of the size it needs has a unit that is in use.
FailsOnlyWhenFull ==
    call.pc = "place" /\ initialized /\ ~OutOfRange(call.n) /\ ~Large(call.n)
      /\ Available(call.n) = {} =>
        LET s == BlockSizeByOrder(getRequiredOrder(call.n)) IN
        \A i \in 0 .. (NumBlocks * BlockSize) \div s - 1 :
          \E b \in blocks : ~is_free[b] /\ b < (i + 1) * s /\ i * s < b + size[b] + 1

\* What the statistics functions return is right for these blocks and mappings.
StatisticsOf(all) ==
    /\ allocatedBlocks = Cardinality(all)
    /\ allocatedBytes = MapThenSumSet(LAMBDA p : size[p], all)
    /\ metadataBytes = Cardinality(all)

\* "Metadata tracking for allocated blocks" (README): the statistics functions
\* tell the truth of the blocks of the heap and the mappings, those that munmap
\* refused included.
StatisticsExact == StatisticsOf(blocks \cup mapped \cup leaked)

\* True statistics stay true at every step of every call.  The exception is initHeap,
\* which assigns the counters: when sbrk failed at first and something was mapped
\* in the meantime, it leaves the mappings out and counts the heap alone.
StatisticsKept ==
    [][StatisticsExact => \/ StatisticsExact'
                          \/ ~initialized /\ initialized' /\ StatisticsOf(blocks)']_vars

\* Merging the block with its buddies, level by level, would make room for n.
CouldGrow(p, n) ==
    LET s == BlockSizeByOrder(getRequiredOrder(n)) IN
    \A b \in blocks \ {p} : b \div s = p \div s => is_free[b]

\* "Attempt to merge buddies for in-place growth" (srealloc), with the buddies
\* found by findBuddyWithSize, "used during merging": srealloc leaves its
\* block for a fresh one only when the buddies up to the order it needs are
\* not all free.
GrowsInPlace ==
    [][\A p \in blocks :
         call.pc = "idle" /\ call'.pc = "alloc" /\ call'.old = p /\ ~Large(call'.n)
           => ~CouldGrow(p, call'.n)]_vars
=============================================================================
