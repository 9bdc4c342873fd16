------------------------------- MODULE Heap -------------------------------
(***************************************************************************)
(* The kernel heap of src/src/mm/memory.c: mm_init, kmalloc and kfree over *)
(* a list of block headers that lie in the heap itself.  All quantities    *)
(* are bytes.  `blocks` maps the address of each header on the list to its *)
(* fields; `live` is what the callers hold: the pointers kmalloc returned  *)
(* and no caller has freed, each with the size that was asked for.         *)
(*                                                                         *)
(* The functions run to completion (nothing in the kernel preempts them)   *)
(* so each is one action.  A call of kmalloc that finds no block returns   *)
(* NULL and changes nothing, and so is no step here.                       *)
(***************************************************************************)
EXTENDS Integers

CONSTANTS
    HEAP_START,    \* address of the first header
    HEAP_SIZE,     \* bytes in the heap
    Requests       \* the sizes kmalloc is called with

NULL       == 0
HDR        == 32   \* sizeof(struct mem_block)
BLOCK_SIZE == 16
HEAP_END   == HEAP_START + HEAP_SIZE

ASSUME HeapAssumption ==
    /\ HEAP_START \in Nat \ {NULL}
    /\ HEAP_SIZE \in Nat
    /\ HEAP_SIZE > HDR
    /\ Requests \subseteq Nat

VARIABLES mm_initialized, blocks, live

heapVars == <<mm_initialized, blocks, live>>

Addr  == HEAP_START .. HEAP_END
Header == [size: Nat, free: BOOLEAN, next: Addr \cup {NULL}, prev: Addr \cup {NULL}]

HeapTypeOK ==
    /\ mm_initialized \in BOOLEAN
    /\ DOMAIN blocks \subseteq Addr
    /\ blocks \in [DOMAIN blocks -> Header]
    /\ DOMAIN live \subseteq Addr
    /\ live \in [DOMAIN live -> Requests \ {0}]
-----------------------------------------------------------------------------
(* Seeded fault: the mask without the addition, which rounds down. *)
RoundDown(size) == (size \div BLOCK_SIZE) * BLOCK_SIZE

(* (size + BLOCK_SIZE - 1) & ~(BLOCK_SIZE - 1) *)
RoundUp(size) == ((size + BLOCK_SIZE - 1) \div BLOCK_SIZE) * BLOCK_SIZE

Fits(blk, b, size) == blk[b].free /\ blk[b].size >= size

(* Seeded fault: the tightest block instead of the first. *)
IsBestFit(blk, b, size) ==
    /\ b \in DOMAIN blk
    /\ Fits(blk, b, size)
    /\ \A c \in DOMAIN blk : Fits(blk, c, size) => blk[b].size <= blk[c].size

(* The first block of the list that fits.  The list is in address order,   *)
(* as HeapTiled states, so this is the lowest one.                         *)
IsFirstFit(blk, b, size) ==
    /\ b \in DOMAIN blk
    /\ Fits(blk, b, size)
    /\ \A c \in DOMAIN blk : Fits(blk, c, size) => b <= c

(* Seeded fault: the block behind the new one keeps its old `prev`. *)
SplitHalfLinked(blk, b, size) ==
    LET new == b + HDR + size
        old == blk[b]
    IN  [x \in DOMAIN blk \cup {new} |->
            CASE x = new -> [size |-> old.size - size - HDR, free |-> TRUE,
                             next |-> old.next, prev |-> b]
              [] x = b   -> [old EXCEPT !.size = size, !.next = new]
              [] OTHER   -> blk[x]]

(* The header of the remainder goes right behind the bytes handed out, and *)
(* into the list behind b.                                                 *)
Split(blk, b, size) ==
    LET new == b + HDR + size
        old == blk[b]
    IN  [x \in DOMAIN blk \cup {new} |->
            CASE x = new      -> [size |-> old.size - size - HDR, free |-> TRUE,
                                  next |-> old.next, prev |-> b]
              [] x = b        -> [old EXCEPT !.size = size, !.next = new]
              [] x = old.next -> [blk[x] EXCEPT !.prev = new]
              [] OTHER        -> blk[x]]

(* Seeded fault: a split whatever is left over. *)
SplitAlways(blk, b, size) == Split(blk, b, size)

SplitBlock(blk, b, size) ==
    IF blk[b].size > size + HDR + BLOCK_SIZE THEN Split(blk, b, size) ELSE blk

(* Takes the header at n off the list and gives its bytes to its           *)
(* predecessor b.                                                          *)
Absorb(blk, b, n) ==
    [x \in DOMAIN blk \ {n} |->
        CASE x = b           -> [blk[b] EXCEPT !.size = @ + blk[n].size + HDR,
                                               !.next = blk[n].next]
          [] x = blk[n].next -> [blk[x] EXCEPT !.prev = b]
          [] OTHER           -> blk[x]]

(* Seeded fault: no merge with the block behind. *)
KeepNext(blk, b) == blk

MergeNext(blk, b) ==
    LET n == blk[b].next
    IN  IF n # NULL /\ blk[n].free THEN Absorb(blk, b, n) ELSE blk

MergePrev(blk, b) ==
    LET p == blk[b].prev
    IN  IF p # NULL /\ blk[p].free THEN Absorb(blk, p, b) ELSE blk

(* Seeded fault: no merge with the block before. *)
MergeForward(blk, b) == MergeNext(blk, b)

MergeFreeBlocks(blk, b) == MergePrev(MergeNext(blk, b), b)

SetFree(blk, b, f) == [blk EXCEPT ![b].free = f]
-----------------------------------------------------------------------------
HeapInit ==
    /\ mm_initialized = FALSE
    /\ blocks = [b \in {} |-> 0]
    /\ live = [p \in {} |-> 0]

(* kernel_main calls it once, before any allocation. *)
MmInit ==
    /\ ~mm_initialized
    /\ mm_initialized' = TRUE
    /\ blocks' = [b \in {HEAP_START} |->
                    [size |-> HEAP_SIZE - HDR, free |-> TRUE, next |-> NULL, prev |-> NULL]]
    /\ UNCHANGED live

Kmalloc(size, b) ==
    /\ mm_initialized
    /\ size # 0
    /\ IsFirstFit(blocks, b, RoundUp(size))
    /\ blocks' = SetFree(SplitBlock(blocks, b, RoundUp(size)), b, FALSE)
    /\ live' = [p \in DOMAIN live \cup {b + HDR} |-> IF p = b + HDR THEN size ELSE live[p]]
    /\ UNCHANGED mm_initialized

(* The caller's part of the contract: it frees what it holds, once. *)
Kfree(p) ==
    /\ mm_initialized
    /\ p \in DOMAIN live
    /\ blocks' = MergeFreeBlocks(SetFree(blocks, p - HDR, TRUE), p - HDR)
    /\ live' = [q \in DOMAIN live \ {p} |-> live[q]]
    /\ UNCHANGED mm_initialized

HeapNext ==
    \/ MmInit
    \/ \E size \in Requests : \E b \in DOMAIN blocks : Kmalloc(size, b)
    \/ \E p \in DOMAIN live : Kfree(p)

HeapSpec == HeapInit /\ [][HeapNext]_heapVars
-----------------------------------------------------------------------------
End(blk, b) == b + HDR + blk[b].size

(* The links agree with the layout: each block is followed by the header   *)
(* its `next` names, which names it as `prev`, and the last one ends where *)
(* the heap ends.  With no two blocks overlapping, no byte is lost and     *)
(* none belongs to two blocks, whatever was split and merged.              *)
Linked(blk) ==
    \A b \in DOMAIN blk :
        /\ IF blk[b].next = NULL
             THEN End(blk, b) = HEAP_END
             ELSE /\ blk[b].next = End(blk, b)
                  /\ blk[b].next \in DOMAIN blk
                  /\ blk[blk[b].next].prev = b
        /\ IF blk[b].prev = NULL
             THEN b = HEAP_START
             ELSE blk[b].prev \in DOMAIN blk /\ blk[blk[b].prev].next = b

Apart(blk) == \A b, c \in DOMAIN blk : b < c => End(blk, b) <= c

(* memory.c keeps no list of the headers apart from these links: they tile *)
(* the heap exactly, from HEAP_START to HEAP_END.                          *)
HeapTiled ==
    mm_initialized =>
        HEAP_START \in DOMAIN blocks /\ Linked(blocks) /\ Apart(blocks)

(* "Merge adjacent free blocks" (memory.c:63): kfree merges so completely  *)
(* that no two free blocks are ever neighbours.                            *)
Coalesced ==
    \A b \in DOMAIN blocks :
        blocks[b].free /\ blocks[b].next # NULL => ~blocks[blocks[b].next].free

(* What the callers hold and what the headers say agree: the allocated     *)
(* blocks are exactly those some caller holds, each as big as it asked.    *)
Owned ==
    /\ DOMAIN live = {b + HDR : b \in {c \in DOMAIN blocks : ~blocks[c].free}}
    /\ \A p \in DOMAIN live : live[p] <= blocks[p - HDR].size

(* No leak: once every caller has freed what it holds, the heap is again   *)
(* the one free block mm_init made, whatever the order of the frees.       *)
AllFreedIsPristine ==
    mm_initialized /\ DOMAIN live = {} =>
        blocks = [b \in {HEAP_START} |->
                    [size |-> HEAP_SIZE - HDR, free |-> TRUE, next |-> NULL, prev |-> NULL]]

(* kmalloc fails only when it must: if the bytes outside the allocated     *)
(* blocks hold a stretch long enough for the header and the aligned size,  *)
(* some block fits.                                                        *)
Unallocated(a) ==
    \A b \in DOMAIN blocks : ~blocks[b].free => a < b \/ a >= End(blocks, b)

FailsOnlyWhenFull ==
    \A size \in Requests \ {0} :
        LET need == HDR + RoundUp(size)
        IN  mm_initialized /\ (\A b \in DOMAIN blocks : ~Fits(blocks, b, RoundUp(size)))
                => ~\E a \in HEAP_START .. (HEAP_END - need) :
                        \A i \in a .. (a + need - 1) : Unallocated(i)

(* memory.c reaches the blocks only by following `next` from heap_start:   *)
(* the walk that find_free_block makes, as a function of where it stands.  *)
WalkFrom(blk, size) ==
    LET from[b \in DOMAIN blk \cup {NULL}] ==
            IF b = NULL \/ Fits(blk, b, size) THEN b ELSE from[blk[b].next]
    IN  from

FirstFound(size) == WalkFrom(blocks, size)[HEAP_START]

(* The walk down the list finds the block IsFirstFit says it does, and     *)
(* finds none only when there is none.                                     *)
WalkIsFirstFit ==
    mm_initialized =>
        \A size \in Requests \ {0} :
            LET b == FirstFound(RoundUp(size))
            IN  IF b = NULL
                  THEN \A c \in DOMAIN blocks : ~Fits(blocks, c, RoundUp(size))
                  ELSE IsFirstFit(blocks, b, RoundUp(size))

(* memory.c implements the allocator its callers see. *)
Abstract == INSTANCE Allocator
    WITH Lo <- HEAP_START, Hi <- HEAP_END, Sizes <- Requests,
         ready <- mm_initialized

AllocatorSpec == Abstract!Spec
=============================================================================
