---------------------------- MODULE HeapProofs ----------------------------
(***************************************************************************)
(* For every heap size and every set of requests: the headers of memory.c  *)
(* tile the heap whatever kmalloc splits and kfree merges, and the callers *)
(* get the allocator that module Allocator promises.                       *)
(***************************************************************************)
EXTENDS Heap, DataLemmas, TLAPS

(* The list part of the inductive invariant. *)
WellFormed(blk) ==
    /\ DOMAIN blk \subseteq Addr
    /\ blk \in [DOMAIN blk -> Header]
    /\ HEAP_START \in DOMAIN blk
    /\ Linked(blk)
    /\ Apart(blk)

(* Kfree breaks Coalesced at the block it frees and nowhere else, until it *)
(* has merged.                                                             *)
CoalescedBut(blk, S) ==
    \A b \in DOMAIN blk :
        blk[b].free /\ blk[b].next # NULL /\ blk[blk[b].next].free => b \in S

-----------------------------------------------------------------------------
(* The rounding of kmalloc never hands out less than was asked for. *)
LEMMA AlignUpBound ==
    ASSUME NEW n \in Nat \ {0}
    PROVE  RoundUp(n) \in Nat /\ RoundUp(n) >= n
  BY DEF RoundUp, BLOCK_SIZE

(* NULL ends a list, and is no header on one. *)
LEMMA NoNull ==
    ASSUME NEW blk, WellFormed(blk)
    PROVE  NULL \notin DOMAIN blk
  BY HeapAssumption DEF WellFormed, Addr, NULL, HEAP_END

(* The fields of a header, and of one with a field replaced. *)
LEMMA HeaderFields ==
    ASSUME NEW r \in Header
    PROVE  /\ r.size \in Nat /\ r.free \in BOOLEAN
           /\ r.next \in Addr \cup {NULL} /\ r.prev \in Addr \cup {NULL}
  BY DEF Header

(* Marking a header leaves its other fields. *)
LEMMA HeaderFree ==
    ASSUME NEW r \in Header, NEW f \in BOOLEAN, NEW q, q = [r EXCEPT !.free = f]
    PROVE  q \in Header /\ q.size = r.size /\ q.next = r.next /\ q.free = f /\ q.prev = r.prev
  BY DEF Header

(* What the links and the layout say of one block. *)
Placed(blk, b) ==
    /\ b \in Nat /\ b \in Addr /\ b # NULL
    /\ blk[b] \in Header
    /\ blk[b].size \in Nat
    /\ End(blk, b) \in Addr
    /\ End(blk, b) \in Nat
    /\ End(blk, b) = b + HDR + blk[b].size
    /\ blk[b].next # NULL => /\ blk[b].next \in DOMAIN blk
                             /\ blk[b].next = End(blk, b)
                             /\ blk[blk[b].next].prev = b
    /\ blk[b].next = NULL => End(blk, b) = HEAP_END
    /\ blk[b].prev # NULL => /\ blk[b].prev \in DOMAIN blk
                             /\ blk[blk[b].prev].next = b
    /\ blk[b].prev = NULL => b = HEAP_START
    /\ \A c \in DOMAIN blk : b < c => End(blk, b) <= c

(* Where the blocks of a well-formed heap lie. *)
LEMMA BlockFacts ==
    ASSUME NEW blk, WellFormed(blk)
    PROVE  \A b \in DOMAIN blk : Placed(blk, b)
  <1> SUFFICES ASSUME NEW b \in DOMAIN blk
               PROVE  Placed(blk, b)
    OBVIOUS
  <1>1. b \in Addr /\ blk[b] \in Header /\ b \in Nat /\ b # NULL
    BY HeapAssumption DEF WellFormed, Addr, HEAP_END, NULL
  <1>2. blk[b].size \in Nat
    BY <1>1, HeaderFields
  <1>3. End(blk, b) = b + HDR + blk[b].size
    BY DEF End
  <1>4. /\ IF blk[b].next = NULL
             THEN End(blk, b) = HEAP_END
             ELSE /\ blk[b].next = End(blk, b)
                  /\ blk[b].next \in DOMAIN blk
                  /\ blk[blk[b].next].prev = b
        /\ IF blk[b].prev = NULL
             THEN b = HEAP_START
             ELSE blk[b].prev \in DOMAIN blk /\ blk[blk[b].prev].next = b
    BY DEF WellFormed, Linked
  <1>5. End(blk, b) \in Addr
    BY <1>4, HeapAssumption DEF WellFormed, Addr, HEAP_END
  <1>6. \A c \in DOMAIN blk : b < c => End(blk, b) <= c
    BY DEF WellFormed, Apart
  <1>7. QED
    BY <1>1, <1>2, <1>3, <1>4, <1>5, <1>6 DEF HDR, Placed

(* And the other way round: that is all there is to a well-formed heap. *)
LEMMA PlacedWellFormed ==
    ASSUME NEW blk, blk = [b \in DOMAIN blk |-> blk[b]],
           HEAP_START \in DOMAIN blk,
           \A b \in DOMAIN blk : Placed(blk, b)
    PROVE  WellFormed(blk)
  BY DEF WellFormed, Placed, Linked, Apart

(* What marking block b free or allocated makes of the list. *)
Marked(s, blk, b, f) ==
    /\ WellFormed(s)
    /\ DOMAIN s = DOMAIN blk
    /\ \A x \in DOMAIN blk : /\ s[x].size = blk[x].size
                             /\ s[x].next = blk[x].next
                             /\ s[x].prev = blk[x].prev
                             /\ s[x].free = IF x = b THEN f ELSE blk[x].free

(* Marking a block changes neither the links nor the layout. *)
LEMMA SetFreeWellFormed ==
    ASSUME NEW blk, WellFormed(blk), NEW b \in DOMAIN blk, NEW f \in BOOLEAN
    PROVE  Marked(SetFree(blk, b, f), blk, b, f)
  <1> DEFINE s == SetFree(blk, b, f)
  <1>1. \A x \in DOMAIN blk : Placed(blk, x)
    BY BlockFacts
  <1>2. DOMAIN s = DOMAIN blk /\ s = [x \in DOMAIN s |-> s[x]]
    BY DEF SetFree
  <1>3. \A x \in DOMAIN blk : s[x] = IF x = b THEN [blk[b] EXCEPT !.free = f] ELSE blk[x]
    BY DEF SetFree
  <1> HIDE DEF s
  <1>4. \A x \in DOMAIN blk : /\ s[x] \in Header
                              /\ s[x].size = blk[x].size
                              /\ s[x].next = blk[x].next
                              /\ s[x].prev = blk[x].prev
                              /\ s[x].free = IF x = b THEN f ELSE blk[x].free
    BY <1>1, <1>3, HeaderFree DEF Placed
  <1>5. \A x \in DOMAIN blk : End(s, x) = End(blk, x)
    BY <1>4 DEF End
  <1>6. \A x \in DOMAIN s : Placed(s, x)
    BY <1>1, <1>2, <1>4, <1>5 DEF Placed
  <1>7. WellFormed(s)
    BY <1>2, <1>6, PlacedWellFormed DEF WellFormed
  <1>8. QED
    BY <1>2, <1>4, <1>7 DEF s, Marked

(* What splitting size bytes off block b makes of the list. *)
IsSplit(s, blk, b, size) ==
    LET new == b + HDR + size
    IN  /\ WellFormed(s)
        /\ new \notin DOMAIN blk /\ DOMAIN s = DOMAIN blk \cup {new}
        /\ s[new].free /\ s[new].next = blk[b].next
        /\ s[b].size = size /\ s[b].free = blk[b].free /\ s[b].next = new
        /\ \A x \in DOMAIN blk \ {b} : /\ s[x].size = blk[x].size
                                       /\ s[x].free = blk[x].free
                                       /\ s[x].next = blk[x].next

(* A split leaves a list that still tiles the heap. *)
LEMMA SplitWellFormed ==
    ASSUME NEW blk, WellFormed(blk), NEW b \in DOMAIN blk, NEW size \in Nat,
           blk[b].size > size + HDR + BLOCK_SIZE
    PROVE  IsSplit(Split(blk, b, size), blk, b, size)
  <1> DEFINE new == b + HDR + size
             s == Split(blk, b, size)
  <1> USE HeapAssumption DEF HDR, BLOCK_SIZE, NULL
  <1>0. \A x \in DOMAIN blk : Placed(blk, x)
    BY BlockFacts
  <1>1. /\ new \in Addr /\ new \in Nat /\ b < new
        /\ new < End(blk, b)
        /\ blk[b].size - size - HDR \in Nat
        /\ End(blk, b) = new + HDR + (blk[b].size - size - HDR)
    BY <1>0 DEF Placed, Addr, HEAP_END
  <1>2. new \notin DOMAIN blk
    BY <1>0, <1>1 DEF Placed
  <1>3. /\ blk[b].next # b /\ blk[b].next # new /\ blk[b].prev # b
        /\ \A x \in DOMAIN blk \ {b} : blk[x].next = blk[b].next => blk[x].next = NULL
    BY <1>0, <1>1, <1>2 DEF Placed
  <1>4. DOMAIN s = DOMAIN blk \cup {new} /\ s = [x \in DOMAIN s |-> s[x]]
    BY DEF Split
  <1>5. /\ s[new] \in Header
        /\ s[new].size = blk[b].size - size - HDR
        /\ s[new].free = TRUE
        /\ s[new].next = blk[b].next
        /\ s[new].prev = b
    <2>1. s[new] = [size |-> blk[b].size - size - HDR, free |-> TRUE,
                    next |-> blk[b].next, prev |-> b]
      BY <1>1, <1>3 DEF Split
    <2>2. blk[b].next \in Addr \cup {NULL} /\ b \in Addr
      BY <1>0, HeaderFields DEF Placed
    <2>3. QED
      BY <1>1, <2>1, <2>2 DEF Header
  <1>6. /\ s[b] \in Header
        /\ s[b].size = size
        /\ s[b].free = blk[b].free
        /\ s[b].next = new
        /\ s[b].prev = blk[b].prev
    <2>1. s[b] = [blk[b] EXCEPT !.size = size, !.next = new]
      BY <1>1, <1>3 DEF Split
    <2>2. blk[b] \in Header /\ new \in Addr
      BY <1>0, <1>1 DEF Placed
    <2> HIDE DEF s, new
    <2>3. QED
      BY <2>1, <2>2 DEF Header
  <1>7. \A x \in DOMAIN blk \ {b} :
           /\ s[x] \in Header
           /\ s[x].size = blk[x].size
           /\ s[x].free = blk[x].free
           /\ s[x].next = blk[x].next
           /\ s[x].prev = IF x = blk[b].next THEN new ELSE blk[x].prev
    <2>1. \A x \in DOMAIN blk \ {b} :
            s[x] = IF x = blk[b].next THEN [blk[x] EXCEPT !.prev = new] ELSE blk[x]
      BY <1>2, <1>3 DEF Split
    <2>2. new \in Addr /\ \A x \in DOMAIN blk : blk[x] \in Header
      BY <1>0, <1>1 DEF Placed
    <2> HIDE DEF s, new
    <2>3. QED
      BY <2>1, <2>2 DEF Header
  <1> HIDE DEF s
  <1>8. /\ End(s, new) = End(blk, b)
        /\ End(s, b) = new
        /\ \A x \in DOMAIN blk \ {b} : End(s, x) = End(blk, x)
    BY <1>1, <1>5, <1>6, <1>7 DEF End
  <1>9. Placed(s, new)
    BY <1>0, <1>1, <1>2, <1>4, <1>5, <1>6, <1>7, <1>8, <1>3 DEF Placed
  <1>10. Placed(s, b)
    BY <1>0, <1>1, <1>2, <1>4, <1>5, <1>6, <1>7, <1>8, <1>3 DEF Placed
  <1>11. \A x \in DOMAIN blk \ {b} : Placed(s, x)
    <2> SUFFICES ASSUME NEW x \in DOMAIN blk \ {b}
                 PROVE  Placed(s, x)
      OBVIOUS
    <2>1. /\ s[x].next # NULL => /\ s[x].next \in DOMAIN s
                                 /\ s[x].next = End(s, x)
                                 /\ s[s[x].next].prev = x
          /\ s[x].next = NULL => End(s, x) = HEAP_END
      BY <1>0, <1>1, <1>4, <1>6, <1>7, <1>8, <1>3 DEF Placed
    <2>2. /\ s[x].prev # NULL => /\ s[x].prev \in DOMAIN s
                                 /\ s[s[x].prev].next = x
          /\ s[x].prev = NULL => x = HEAP_START
      BY <1>0, <1>1, <1>4, <1>5, <1>6, <1>7, <1>3 DEF Placed
    <2>3. \A c \in DOMAIN s : x < c => End(s, x) <= c
      BY <1>0, <1>1, <1>4, <1>8 DEF Placed
    <2>4. QED
      BY <1>0, <1>7, <1>8, <2>1, <2>2, <2>3 DEF Placed
  <1>12. WellFormed(s)
    <2>1. HEAP_START \in DOMAIN s
      BY <1>4 DEF WellFormed
    <2>2. \A x \in DOMAIN s : Placed(s, x)
      BY <1>4, <1>9, <1>10, <1>11
    <2>3. QED
      BY <1>4, <2>1, <2>2, PlacedWellFormed
  <1>13. QED
    BY <1>2, <1>4, <1>5, <1>6, <1>7, <1>12 DEF s, IsSplit

(* What absorbing block n into its predecessor b makes of the list. *)
Absorbed(s, blk, b, n) ==
    /\ WellFormed(s)
    /\ DOMAIN s = DOMAIN blk \ {n} /\ b # n
    /\ s[b].free = blk[b].free /\ s[b].next = blk[n].next
    /\ \A x \in DOMAIN blk \ {b, n} : /\ s[x].size = blk[x].size
                                      /\ s[x].free = blk[x].free
                                      /\ s[x].next = blk[x].next

(* Taking the header of b's successor off the list leaves a list that      *)
(* still tiles the heap, one block longer at b.                            *)
LEMMA AbsorbWellFormed ==
    ASSUME NEW blk, WellFormed(blk), NEW b \in DOMAIN blk, NEW n \in DOMAIN blk,
           blk[b].next = n,
           NEW s, s = Absorb(blk, b, n)
    PROVE  Absorbed(s, blk, b, n)
  <1> DEFINE m == blk[n].next
  <1> USE HeapAssumption DEF HDR, NULL
  <1>0. \A x \in DOMAIN blk : Placed(blk, x)
    BY BlockFacts
  <1>1. /\ n = End(blk, b) /\ b < n /\ m # b /\ m # n
        /\ blk[n].prev = b
        /\ blk[b].prev # n
        /\ blk[b].size + blk[n].size + HDR \in Nat
        /\ End(blk, n) = b + HDR + (blk[b].size + blk[n].size + HDR)
    BY <1>0 DEF Placed
  <1>2. \A x \in DOMAIN blk \ {b} : blk[x].next # n
    BY <1>0, <1>1 DEF Placed
  <1>3. DOMAIN s = DOMAIN blk \ {n} /\ s = [x \in DOMAIN s |-> s[x]]
    BY DEF Absorb
  <1>4. /\ s[b] \in Header
        /\ s[b].size = blk[b].size + blk[n].size + HDR
        /\ s[b].free = blk[b].free
        /\ s[b].next = m
        /\ s[b].prev = blk[b].prev
    <2>1. s[b] = [blk[b] EXCEPT !.size = @ + blk[n].size + HDR, !.next = m]
      BY <1>1 DEF Absorb
    <2>2. blk[b] \in Header /\ m \in Addr \cup {NULL}
      BY <1>0, HeaderFields DEF Placed
    <2> HIDE DEF m
    <2>3. QED
      BY <1>1, <2>1, <2>2 DEF Header
  <1>5. \A x \in DOMAIN blk \ {b, n} :
           /\ s[x] \in Header
           /\ s[x].size = blk[x].size
           /\ s[x].free = blk[x].free
           /\ s[x].next = blk[x].next
           /\ s[x].prev = IF x = m THEN b ELSE blk[x].prev
    <2>1. \A x \in DOMAIN blk \ {b, n} :
            s[x] = IF x = m THEN [blk[x] EXCEPT !.prev = b] ELSE blk[x]
      BY <1>1 DEF Absorb
    <2> SUFFICES ASSUME NEW x \in DOMAIN blk \ {b, n}
                 PROVE  /\ s[x] \in Header
                        /\ s[x].size = blk[x].size
                        /\ s[x].free = blk[x].free
                        /\ s[x].next = blk[x].next
                        /\ s[x].prev = IF x = m THEN b ELSE blk[x].prev
      OBVIOUS
    <2>2. b \in Addr /\ blk[x] \in Header
      BY <1>0 DEF Placed
    <2> HIDE DEF m
    <2>3. QED
      BY <2>1, <2>2 DEF Header
  <1>6. /\ End(s, b) = End(blk, n)
        /\ \A x \in DOMAIN blk \ {b, n} : End(s, x) = End(blk, x)
    <2>1. End(s, b) = End(blk, n)
      BY <1>1, <1>4 DEF End
    <2>2. QED
      BY <2>1, <1>5 DEF End
  <1>7. Placed(s, b)
    <2>1. Placed(blk, b) /\ Placed(blk, n)
      BY <1>0
    <2>2. /\ m # NULL => m \in DOMAIN s /\ m = End(s, b) /\ s[m].prev = b
          /\ m = NULL => End(s, b) = HEAP_END
      BY <1>1, <1>3, <1>5, <1>6, <2>1 DEF Placed
    <2>3. blk[b].prev # NULL => blk[b].prev \in DOMAIN s /\ s[blk[b].prev].next = b
      BY <1>0, <1>1, <1>3, <1>5, <2>1 DEF Placed
    <2>4. \A c \in DOMAIN s : b < c => End(s, b) <= c
      BY <1>0, <1>1, <1>3, <1>6, <2>1 DEF Placed
    <2>5. End(s, b) = b + HDR + s[b].size
      BY DEF End
    <2>6. QED
      BY <1>4, <1>6, <2>1, <2>2, <2>3, <2>4, <2>5 DEF Placed
  <1>8. \A x \in DOMAIN blk \ {b, n} : Placed(s, x)
    <2> SUFFICES ASSUME NEW x \in DOMAIN blk \ {b, n}
                 PROVE  Placed(s, x)
      OBVIOUS
    <2>1. /\ s[x].next # NULL => /\ s[x].next \in DOMAIN s
                                 /\ s[x].next = End(s, x)
                                 /\ s[s[x].next].prev = x
          /\ s[x].next = NULL => End(s, x) = HEAP_END
      BY <1>0, <1>1, <1>2, <1>3, <1>4, <1>5, <1>6 DEF Placed
    <2>2. /\ s[x].prev # NULL => /\ s[x].prev \in DOMAIN s
                                 /\ s[s[x].prev].next = x
          /\ s[x].prev = NULL => x = HEAP_START
      BY <1>0, <1>1, <1>2, <1>3, <1>4, <1>5 DEF Placed
    <2>3. \A c \in DOMAIN s : x < c => End(s, x) <= c
      BY <1>0, <1>1, <1>3, <1>6 DEF Placed
    <2>4. QED
      BY <1>0, <1>5, <1>6, <2>1, <2>2, <2>3 DEF Placed
  <1>9. WellFormed(s)
    <2>1. HEAP_START \in DOMAIN s
      <3>1. b \in Addr /\ HEAP_START \in DOMAIN blk
        BY <1>0 DEF WellFormed, Placed
      <3>2. QED
        BY <1>1, <1>3, <3>1 DEF Addr
    <2>2. \A x \in DOMAIN s : Placed(s, x)
      BY <1>3, <1>7, <1>8
    <2>3. QED
      BY <1>3, <2>1, <2>2, PlacedWellFormed
  <1>10. QED
    BY <1>1, <1>3, <1>4, <1>5, <1>9 DEF Absorbed

-----------------------------------------------------------------------------
(* The whole invariant: before mm_init there is no heap and nothing is     *)
(* held; afterwards the headers tile the heap, are coalesced, and say what *)
(* the callers hold.                                                       *)
Allocated(blk) == {b \in DOMAIN blk : ~blk[b].free}

Holds(blk, lv) ==
    /\ DOMAIN lv = {b + HDR : b \in Allocated(blk)}
    /\ lv = [p \in DOMAIN lv |-> lv[p]]
    /\ \A b \in Allocated(blk) : lv[b + HDR] \in Requests \ {0} /\ lv[b + HDR] <= blk[b].size

IInv ==
    \/ /\ mm_initialized = FALSE
       /\ blocks = [b \in {} |-> 0]
       /\ live = [p \in {} |-> 0]
    \/ /\ mm_initialized = TRUE
       /\ WellFormed(blocks)
       /\ CoalescedBut(blocks, {})
       /\ Holds(blocks, live)

(* The two merges of kfree restore Coalesced around the block it freed and *)
(* disturb no allocated block.                                             *)
LEMMA MergeNextLemma ==
    ASSUME NEW blk, WellFormed(blk), NEW b \in DOMAIN blk, blk[b].free,
           CoalescedBut(blk, {b, blk[b].prev})
    PROVE  LET t == MergeNext(blk, b)
           IN  /\ WellFormed(t) /\ b \in DOMAIN t /\ t[b].free
               /\ CoalescedBut(t, {t[b].prev})
               /\ Allocated(t) = Allocated(blk)
               /\ \A x \in Allocated(blk) : t[x].size = blk[x].size
  <1> DEFINE t == MergeNext(blk, b)
             nx == blk[b].next
  <1>0. \A x \in DOMAIN blk : Placed(blk, x)
    BY BlockFacts
  <1>1. CASE nx # NULL /\ blk[nx].free
    <2>1. nx \in DOMAIN blk /\ blk[b].next = nx /\ t = Absorb(blk, b, nx)
      BY <1>0, <1>1 DEF Placed, MergeNext
    <2> HIDE DEF t, nx
    <2>2. Absorbed(t, blk, b, nx)
      BY <2>1, AbsorbWellFormed
    <2>3. Allocated(t) = Allocated(blk) /\ \A x \in Allocated(blk) : t[x].size = blk[x].size
      BY <1>1, <2>1, <2>2 DEF Absorbed, Allocated
    <2>4. CoalescedBut(t, {t[b].prev})
      <3> SUFFICES ASSUME NEW x \in DOMAIN t, t[x].free, t[x].next # NULL, t[t[x].next].free
                   PROVE  x = t[b].prev
        BY DEF CoalescedBut
      <3>1. t[x].next \in DOMAIN t /\ t[t[x].next].prev = x
        BY <2>2, BlockFacts DEF Placed, Absorbed
      <3>2. nx # blk[b].prev /\ nx # b
        BY <1>0, <1>1, <2>1, <2>2 DEF Absorbed, Placed, HDR
      <3>3. x # b
        BY <1>1, <2>1, <2>2, <3>1, <3>2 DEF CoalescedBut, Absorbed
      <3>4. CASE t[x].next = b
        BY <3>1, <3>4
      <3>5. CASE t[x].next # b
        <4>1. x = blk[b].prev
          BY <2>2, <3>1, <3>3, <3>5 DEF CoalescedBut, Absorbed
        <4>2. blk[x].next = b
          BY <1>0, <2>2, <4>1, NoNull DEF Placed, Absorbed
        <4>3. QED
          BY <2>2, <3>3, <3>5, <4>2 DEF Absorbed
      <3>6. QED
        BY <3>4, <3>5
    <2>5. QED
      BY <1>1, <2>1, <2>2, <2>3, <2>4 DEF t, Absorbed
  <1>2. CASE ~(nx # NULL /\ blk[nx].free)
    <2>1. t = blk
      BY <1>2 DEF MergeNext
    <2>2. CoalescedBut(blk, {blk[b].prev})
      BY <1>2 DEF CoalescedBut
    <2>3. QED
      BY <2>1, <2>2
  <1>3. QED
    BY <1>1, <1>2

(* Merging into the predecessor: likewise, on the other side.              *)
LEMMA MergePrevLemma ==
    ASSUME NEW blk, WellFormed(blk), NEW b \in DOMAIN blk, blk[b].free,
           CoalescedBut(blk, {blk[b].prev})
    PROVE  LET s == MergePrev(blk, b)
           IN  /\ WellFormed(s)
               /\ CoalescedBut(s, {})
               /\ Allocated(s) = Allocated(blk)
               /\ \A x \in Allocated(blk) : s[x].size = blk[x].size
  <1> DEFINE s == MergePrev(blk, b)
             p == blk[b].prev
  <1>0. \A x \in DOMAIN blk : Placed(blk, x)
    BY BlockFacts
  <1>1. CASE p # NULL /\ blk[p].free
    <2>1. p \in DOMAIN blk /\ blk[p].next = b /\ s = Absorb(blk, p, b)
      BY <1>0, <1>1 DEF Placed, MergePrev
    <2>2. Absorbed(s, blk, p, b)
      BY <2>1, AbsorbWellFormed
    <2> HIDE DEF s
    <2>3. Allocated(s) = Allocated(blk) /\ \A x \in Allocated(blk) : s[x].size = blk[x].size
      BY <1>1, <2>1, <2>2 DEF Absorbed, Allocated
    <2>4. CoalescedBut(s, {})
      <3> SUFFICES ASSUME NEW x \in DOMAIN s, s[x].free, s[x].next # NULL, s[s[x].next].free
                   PROVE  FALSE
        BY DEF CoalescedBut
      <3>1. s[x].next \in DOMAIN s /\ s[s[x].next].prev = x
        BY <2>2, BlockFacts DEF Placed, Absorbed
      <3>2. CASE x = p
        BY <2>1, <2>2, <3>1, <3>2 DEF CoalescedBut, Absorbed
      <3>3. CASE x # p
        BY <1>1, <2>1, <2>2, <3>1, <3>3 DEF CoalescedBut, Absorbed
      <3>4. QED
        BY <3>2, <3>3
    <2>5. QED
      BY <2>2, <2>3, <2>4 DEF s, Absorbed
  <1>2. CASE ~(p # NULL /\ blk[p].free)
    <2>1. s = blk
      BY <1>2 DEF MergePrev
    <2>2. CoalescedBut(blk, {})
      <3>1. \A x \in DOMAIN blk : x = p => x # NULL
        BY NoNull
      <3>2. QED
        BY <1>2, <3>1 DEF CoalescedBut
    <2>3. QED
      BY <2>1, <2>2
  <1>3. QED
    BY <1>1, <1>2

-----------------------------------------------------------------------------
(* kmalloc takes a free block, cut to size or whole, and hands out no      *)
(* byte that another block has.                                            *)
LEMMA KmallocStep ==
    ASSUME IInv, NEW size \in Requests, NEW b \in DOMAIN blocks, Kmalloc(size, b)
    PROVE  IInv'
  <1> DEFINE n == RoundUp(size)
             s == SplitBlock(blocks, b, n)
             t == SetFree(s, b, FALSE)
  <1>1. /\ mm_initialized = TRUE /\ mm_initialized' = TRUE
        /\ WellFormed(blocks) /\ CoalescedBut(blocks, {}) /\ Holds(blocks, live)
        /\ blocks' = t
        /\ live' = [p \in DOMAIN live \cup {b + HDR} |-> IF p = b + HDR THEN size ELSE live[p]]
    BY DEF IInv, Kmalloc
  <1>2. size \in Nat \ {0} /\ n \in Nat /\ n >= size
    BY AlignUpBound, HeapAssumption DEF Kmalloc
  <1>3. blocks[b].free /\ blocks[b].size >= n
    BY DEF Kmalloc, IsFirstFit, Fits
  <1>4. \A x \in DOMAIN blocks : x \in Nat /\ blocks[x].size \in Nat
    BY <1>1, BlockFacts DEF Placed
  <1> HIDE DEF n
  <1>5. /\ WellFormed(s) /\ b \in DOMAIN s /\ s[b].size >= n
        /\ s[b].free
        /\ Allocated(s) = Allocated(blocks)
        /\ \A x \in Allocated(blocks) : s[x].size = blocks[x].size
        /\ CoalescedBut(s, {b})
    <2>1. CASE blocks[b].size > n + HDR + BLOCK_SIZE
      <3>1. s = Split(blocks, b, n)
        BY <2>1 DEF SplitBlock
      <3>2. IsSplit(s, blocks, b, n)
        BY <1>1, <1>2, <2>1, <3>1, SplitWellFormed
      <3> HIDE DEF s
      <3>3. Allocated(s) = Allocated(blocks)
            /\ \A x \in Allocated(blocks) : s[x].size = blocks[x].size
        BY <1>3, <3>2 DEF IsSplit, Allocated
      <3>4. CoalescedBut(s, {b})
        <4> DEFINE new == b + HDR + n
        <4> SUFFICES ASSUME NEW x \in DOMAIN s \ {b}, s[x].free, s[x].next # NULL,
                            s[s[x].next].free
                     PROVE  FALSE
          BY DEF CoalescedBut
        <4>1. /\ \A y \in DOMAIN blocks : blocks[y].next # NULL => blocks[y].next \in DOMAIN blocks
              /\ \A y \in DOMAIN blocks : blocks[y].next # NULL => blocks[blocks[y].next].prev = y
          BY <1>1, BlockFacts DEF Placed
        <4>2. CASE x = new
          BY <1>1, <1>3, <3>2, <4>1, <4>2 DEF IsSplit, CoalescedBut
        <4>3. CASE x # new
          <5>1. /\ x \in DOMAIN blocks \ {b} /\ s[x].free = blocks[x].free
                /\ s[x].next = blocks[x].next
            BY <3>2, <4>3 DEF IsSplit
          <5>2. blocks[x].next \in DOMAIN blocks /\ ~blocks[blocks[x].next].free
            BY <1>1, <4>1, <5>1 DEF CoalescedBut
          <5>3. QED
            BY <1>3, <3>2, <5>1, <5>2 DEF IsSplit
        <4>4. QED
          BY <4>2, <4>3
      <3>5. QED
        BY <1>2, <1>3, <3>2, <3>3, <3>4 DEF IsSplit
    <2>2. CASE ~(blocks[b].size > n + HDR + BLOCK_SIZE)
      <3>1. s = blocks
        BY <2>2 DEF SplitBlock
      <3>2. QED
        BY <1>1, <1>3, <3>1 DEF CoalescedBut
    <2>3. QED
      BY <2>1, <2>2
  <1> HIDE DEF s
  <1>6. Marked(t, s, b, FALSE)
    BY <1>5, SetFreeWellFormed
  <1> HIDE DEF t
  <1>7. CoalescedBut(t, {})
    <2>1. \A x \in DOMAIN s : s[x].next # NULL => s[x].next \in DOMAIN s
      BY <1>5, BlockFacts DEF Placed
    <2>2. QED
      BY <1>5, <1>6, <2>1 DEF Marked, CoalescedBut
  <1>8. Allocated(t) = Allocated(blocks) \cup {b} /\ b \notin Allocated(blocks)
    BY <1>3, <1>5, <1>6 DEF Marked, Allocated
  <1>9. t[b].size >= n /\ \A x \in Allocated(blocks) : t[x].size = blocks[x].size
    BY <1>5, <1>6 DEF Marked, Allocated
  <1>10. Holds(t, live')
    <2>1. DOMAIN live' = DOMAIN live \cup {b + HDR} /\ live' = [p \in DOMAIN live' |-> live'[p]]
      BY <1>1
    <2>2. \A x \in Allocated(blocks) : x + HDR # b + HDR
      BY <1>4, <1>8 DEF Allocated, HDR
    <2>3. \A x \in Allocated(blocks) : live'[x + HDR] = live[x + HDR]
      BY <1>1, <2>2 DEF Holds
    <2>4. live'[b + HDR] = size
      BY <1>1
    <2>5. DOMAIN live' = {x + HDR : x \in Allocated(t)}
      BY <1>1, <1>8, <2>1 DEF Holds
    <2>6. t[b].size \in Nat
      BY <1>5, <1>6, BlockFacts DEF Marked, Placed
    <2>7. \A x \in Allocated(t) : live'[x + HDR] \in Requests \ {0} /\ live'[x + HDR] <= t[x].size
      <3>1. \A x \in Allocated(blocks) :
              live'[x + HDR] \in Requests \ {0} /\ live'[x + HDR] <= t[x].size
        BY <1>1, <1>9, <2>3 DEF Holds
      <3>2. live'[b + HDR] \in Requests \ {0} /\ live'[b + HDR] <= t[b].size
        BY <1>2, <1>9, <2>4, <2>6
      <3>3. QED
        BY <1>8, <3>1, <3>2
    <2>8. QED
      BY <2>1, <2>5, <2>7 DEF Holds
  <1>11. QED
    BY <1>1, <1>6, <1>7, <1>10 DEF IInv, Marked

(* kfree leaves two free neighbours for no longer than its two merges.     *)
LEMMA KfreeStep ==
    ASSUME IInv, NEW p \in DOMAIN live, Kfree(p)
    PROVE  IInv'
  <1> DEFINE b == p - HDR
             s == SetFree(blocks, b, TRUE)
             t == MergeNext(s, b)
             u == MergePrev(t, b)
  <1>1. /\ mm_initialized = TRUE /\ mm_initialized' = TRUE
        /\ WellFormed(blocks) /\ CoalescedBut(blocks, {}) /\ Holds(blocks, live)
        /\ blocks' = u
        /\ live' = [q \in DOMAIN live \ {p} |-> live[q]]
    BY DEF IInv, Kfree, MergeFreeBlocks
  <1>2. \A x \in DOMAIN blocks : x \in Nat /\ blocks[x].size \in Nat
    BY <1>1, BlockFacts DEF Placed
  <1>3. b \in Allocated(blocks) /\ p = b + HDR
    BY <1>1, <1>2 DEF Holds, Allocated, HDR
  <1> HIDE DEF b
  <1>4. Marked(s, blocks, b, TRUE)
    BY <1>1, <1>3, SetFreeWellFormed DEF Allocated
  <1> HIDE DEF s
  <1>5. CoalescedBut(s, {b, s[b].prev})
    <2> SUFFICES ASSUME NEW x \in DOMAIN s, s[x].free, s[x].next # NULL, s[s[x].next].free, x # b
                 PROVE  x = s[b].prev
      BY DEF CoalescedBut
    <2>1. s[x].next \in DOMAIN s /\ s[s[x].next].prev = x
      BY <1>4, BlockFacts DEF Marked, Placed
    <2>2. CASE s[x].next = b
      BY <2>1, <2>2
    <2>3. CASE s[x].next # b
      BY <1>1, <1>4, <2>1, <2>3 DEF Marked, CoalescedBut
    <2>4. QED
      BY <2>2, <2>3
  <1>6. b \in DOMAIN s /\ WellFormed(s) /\ s[b].free
    BY <1>3, <1>4 DEF Marked, Allocated
  <1>7. /\ WellFormed(t) /\ b \in DOMAIN t /\ t[b].free
        /\ CoalescedBut(t, {t[b].prev})
        /\ Allocated(t) = Allocated(s)
        /\ \A x \in Allocated(s) : t[x].size = s[x].size
    BY <1>5, <1>6, MergeNextLemma
  <1> HIDE DEF t
  <1>8. /\ WellFormed(u)
        /\ CoalescedBut(u, {})
        /\ Allocated(u) = Allocated(t)
        /\ \A x \in Allocated(t) : u[x].size = t[x].size
    BY <1>7, MergePrevLemma
  <1> HIDE DEF u
  <1>9. Allocated(s) = Allocated(blocks) \ {b}
        /\ \A x \in Allocated(s) : s[x].size = blocks[x].size
    BY <1>3, <1>4 DEF Marked, Allocated
  <1>10. Holds(u, live')
    <2>1. DOMAIN live' = DOMAIN live \ {p} /\ live' = [q \in DOMAIN live' |-> live'[q]]
      BY <1>1
    <2>2. Allocated(u) = Allocated(blocks) \ {b}
      BY <1>7, <1>8, <1>9
    <2>3. \A x \in Allocated(u) : x + HDR # p
      BY <1>2, <1>3, <2>2 DEF Allocated, HDR
    <2>4. \A x \in Allocated(u) : live'[x + HDR] = live[x + HDR]
      BY <1>1, <2>2, <2>3 DEF Holds
    <2>5. DOMAIN live' = {x + HDR : x \in Allocated(u)}
      BY <1>1, <1>3, <2>1, <2>2, <2>3 DEF Holds
    <2>6. \A x \in Allocated(u) : u[x].size = blocks[x].size
      BY <1>7, <1>8, <1>9
    <2>7. QED
      BY <1>1, <2>1, <2>2, <2>4, <2>5, <2>6 DEF Holds
  <1>11. QED
    BY <1>1, <1>8, <1>10 DEF IInv

(* mm_init makes the one free block that is the heap.                      *)
LEMMA MmInitStep ==
    ASSUME IInv, MmInit
    PROVE  IInv'
  <1> USE HeapAssumption DEF HDR, NULL
  <1>1. /\ mm_initialized' = TRUE /\ DOMAIN blocks' = {HEAP_START}
        /\ blocks'[HEAP_START] =
               [size |-> HEAP_SIZE - HDR, free |-> TRUE, next |-> NULL, prev |-> NULL]
        /\ blocks' = [b \in DOMAIN blocks' |-> blocks'[b]]
        /\ live' = [p \in {} |-> 0]
    BY DEF IInv, MmInit
  <1>2. WellFormed(blocks')
    <2> DEFINE s == blocks'
    <2>1. /\ s[HEAP_START] \in Header
          /\ s[HEAP_START].size = HEAP_SIZE - HDR
          /\ s[HEAP_START].next = NULL /\ s[HEAP_START].prev = NULL
      BY <1>1 DEF Header
    <2>2. HEAP_START \in DOMAIN s /\ s = [b \in DOMAIN s |-> s[b]]
      BY <1>1
    <2>3. \A c \in DOMAIN s : c = HEAP_START
      BY <1>1
    <2> HIDE DEF s
    <2>4. End(s, HEAP_START) = HEAP_END
      BY <2>1 DEF End, HEAP_END
    <2>5. Placed(s, HEAP_START)
      BY <2>1, <2>2, <2>3, <2>4 DEF Placed, Addr, HEAP_END, End
    <2>6. WellFormed(s)
      BY <2>2, <2>3, <2>5, PlacedWellFormed
    <2>7. QED
      BY <2>6 DEF s
  <1>3. CoalescedBut(blocks', {})
    BY <1>1 DEF CoalescedBut
  <1>4. Allocated(blocks') = {}
    BY <1>1 DEF Allocated
  <1>5. Holds(blocks', live')
    BY <1>1, <1>4 DEF Holds
  <1>6. QED
    BY <1>1, <1>2, <1>3, <1>5 DEF IInv

(* The inductive invariant holds in every state, for every heap size and   *)
(* every set of requests.                                                  *)
THEOREM Invariance == HeapSpec => []IInv
  <1>1. HeapInit => IInv
    BY DEF HeapInit, IInv
  <1>2. IInv /\ [HeapNext]_heapVars => IInv'
    <2> SUFFICES ASSUME IInv, [HeapNext]_heapVars
                 PROVE  IInv'
      OBVIOUS
    <2>1. CASE MmInit
      BY <2>1, MmInitStep
    <2>2. ASSUME NEW size \in Requests, NEW b \in DOMAIN blocks, Kmalloc(size, b)
          PROVE  IInv'
      BY <2>2, KmallocStep
    <2>3. ASSUME NEW p \in DOMAIN live, Kfree(p)
          PROVE  IInv'
      BY <2>3, KfreeStep
    <2>4. CASE UNCHANGED heapVars
      BY <2>4 DEF heapVars, IInv, Holds
    <2>5. QED
      BY <2>1, <2>2, <2>3, <2>4 DEF HeapNext
  <1>3. QED
    BY <1>1, <1>2, PTL DEF HeapSpec

(* Type correctness of the heap and of what the callers hold. *)
THEOREM TypeCorrect == HeapSpec => []HeapTypeOK
  <1>1. IInv => HeapTypeOK
    <2> SUFFICES ASSUME IInv PROVE HeapTypeOK
      OBVIOUS
    <2>1. CASE mm_initialized = FALSE
      BY <2>1 DEF IInv, HeapTypeOK
    <2>2. CASE mm_initialized = TRUE
      <3>1. WellFormed(blocks) /\ Holds(blocks, live)
        BY <2>2 DEF IInv
      <3>2. \A b \in DOMAIN blocks : Placed(blocks, b)
        BY <3>1, BlockFacts
      <3>3. \A b \in DOMAIN blocks : b + HDR \in Addr
        BY <3>2, HeapAssumption DEF Placed, Addr, HDR, HEAP_END
      <3>4. DOMAIN live \subseteq Addr /\ live \in [DOMAIN live -> Requests \ {0}]
        BY <3>1, <3>3 DEF Holds, Allocated
      <3>5. QED
        BY <2>2, <3>1, <3>4 DEF HeapTypeOK, WellFormed
    <2>3. QED
      BY <2>1, <2>2 DEF IInv
  <1>2. QED
    BY <1>1, Invariance, PTL

(* The headers tile the heap from its first byte to its last, in every     *)
(* state: no byte is lost or shared by the splits and the merges.          *)
THEOREM Tiling == HeapSpec => []HeapTiled
  <1>1. IInv => HeapTiled
    BY DEF IInv, HeapTiled, WellFormed
  <1>2. QED
    BY <1>1, Invariance, PTL

(* Once everything is freed the heap is one block again: with no free      *)
(* neighbours and no allocated block, only HEAP_START can be left.         *)
THEOREM Pristine == HeapSpec => []AllFreedIsPristine
  <1>1. IInv => AllFreedIsPristine
    <2> SUFFICES ASSUME IInv, mm_initialized, DOMAIN live = {}
                 PROVE  blocks = [b \in {HEAP_START} |->
                          [size |-> HEAP_SIZE - HDR, free |-> TRUE, next |-> NULL, prev |-> NULL]]
      BY DEF AllFreedIsPristine
    <2>1. WellFormed(blocks) /\ CoalescedBut(blocks, {}) /\ Holds(blocks, live)
      BY DEF IInv
    <2>2. HEAP_START \in DOMAIN blocks /\ \A b \in DOMAIN blocks : Placed(blocks, b)
      BY <2>1, BlockFacts DEF WellFormed
    <2>3. \A b \in DOMAIN blocks : blocks[b].free
      BY <2>1 DEF Holds, Allocated
    <2>4. blocks[HEAP_START].next = NULL
      BY <2>1, <2>2, <2>3 DEF CoalescedBut, Placed
    <2>5. End(blocks, HEAP_START) = HEAP_END
      BY <2>2, <2>4 DEF Placed
    <2>6. \A b \in DOMAIN blocks : b = HEAP_START
      <3> SUFFICES ASSUME NEW b \in DOMAIN blocks, b # HEAP_START PROVE FALSE
        OBVIOUS
      <3>1. HEAP_START \in Nat /\ HEAP_END \in Nat
        BY HeapAssumption DEF HEAP_END
      <3>2. b \in HEAP_START .. HEAP_END /\ End(blocks, b) \in HEAP_START .. HEAP_END
        BY <2>2 DEF Placed, Addr
      <3>3. HEAP_START < b
        BY <3>1, <3>2
      <3>4. HEAP_END <= b
        BY <2>2, <2>5, <3>3 DEF Placed
      <3>5. b < End(blocks, b)
        BY <2>2, <3>1, <3>2 DEF Placed, HDR, Header
      <3> QED
        BY <3>1, <3>2, <3>4, <3>5
    <2>7. blocks[HEAP_START].prev = NULL
      BY <2>2, <2>4, <2>6 DEF Placed
    <2>8. blocks[HEAP_START].size = HEAP_SIZE - HDR
      BY <2>2, <2>5, HeapAssumption DEF Placed, HEAP_END, HDR
    <2>9. blocks[HEAP_START] =
            [size |-> HEAP_SIZE - HDR, free |-> TRUE, next |-> NULL, prev |-> NULL]
      BY <2>2, <2>3, <2>4, <2>7, <2>8 DEF Placed, Header
    <2>10. blocks = [b \in DOMAIN blocks |-> blocks[b]] /\ DOMAIN blocks = {HEAP_START}
      BY <2>1, <2>2, <2>6 DEF WellFormed
    <2>11. QED
      BY <2>9, <2>10
  <1>2. QED
    BY <1>1, Invariance, PTL

-----------------------------------------------------------------------------
(* The last block that begins at an address or before it. *)
LEMMA LastBlock ==
    ASSUME NEW S \in SUBSET Addr, S # {}
    PROVE  \E b \in S : \A c \in S : c <= b
  <1>1. HEAP_END \in Nat /\ S \in SUBSET (1 .. HEAP_END)
    BY HeapAssumption DEF Addr, HEAP_END, NULL
  <1>2. Max(S) \in S /\ \A c \in S : c <= Max(S)
    BY <1>1, GreatestElement
  <1>3. QED
    BY <1>2

(* No byte of the heap is outside all blocks. *)
LEMMA BlockAt ==
    ASSUME NEW blk, WellFormed(blk), NEW a \in Nat, HEAP_START <= a, a < HEAP_END
    PROVE  \E b \in DOMAIN blk : b <= a /\ a < End(blk, b)
  <1> DEFINE S == {b \in DOMAIN blk : b <= a}
  <1>1. S \in SUBSET Addr /\ HEAP_START \in S
    BY DEF WellFormed
  <1>2. PICK b \in S : \A c \in S : c <= b
    BY <1>1, LastBlock
  <1>3. Placed(blk, b)
    BY BlockFacts
  <1>4. ASSUME End(blk, b) <= a PROVE FALSE
    <2>1. blk[b].next # NULL
      BY <1>3, <1>4, HeapAssumption DEF Placed, HEAP_END
    <2>2. blk[b].next \in S /\ blk[b].next = End(blk, b)
      BY <1>3, <1>4, <2>1 DEF Placed
    <2>3. b < End(blk, b)
      BY <1>3 DEF Placed, HDR
    <2>4. QED
      BY <1>2, <1>3, <2>2, <2>3 DEF Placed
  <1>5. QED
    BY <1>3, <1>4 DEF Placed

(* kmalloc returns NULL only when no free stretch is long enough: for any  *)
(* size that is asked for, if the bytes outside the allocated blocks hold  *)
(* as much in one piece, some block of memory.c's list fits.               *)
THEOREM NeverFailsWithRoom == HeapSpec => []FailsOnlyWhenFull
  <1>1. IInv => FailsOnlyWhenFull
    <2> SUFFICES ASSUME IInv, mm_initialized, NEW size \in Requests \ {0},
                        \A b \in DOMAIN blocks : ~Fits(blocks, b, RoundUp(size)),
                        NEW a \in HEAP_START .. (HEAP_END - (HDR + RoundUp(size))),
                        \A i \in a .. (a + (HDR + RoundUp(size)) - 1) : Unallocated(i)
                 PROVE  FALSE
      BY DEF FailsOnlyWhenFull
    <2> DEFINE s == RoundUp(size)
    <2>1. WellFormed(blocks) /\ CoalescedBut(blocks, {})
      BY DEF IInv
    <2>2. s \in Nat
      BY AlignUpBound, HeapAssumption
    <2> HIDE DEF s
    <2>3. a \in Nat /\ HEAP_START <= a /\ a + HDR + s <= HEAP_END /\ HEAP_END \in Nat
      BY <2>2, HeapAssumption DEF HDR, HEAP_END, s
    <2>4. PICK b \in DOMAIN blocks : b <= a /\ a < End(blocks, b)
      BY <2>1, <2>2, <2>3, BlockAt DEF HDR
    <2>5. Placed(blocks, b)
      BY <2>1, BlockFacts
    <2>6. blocks[b].free
      <3>1. a \in a .. (a + (HDR + RoundUp(size)) - 1)
        BY <2>2, <2>3 DEF HDR, s
      <3>2. Unallocated(a)
        BY <3>1
      <3>3. QED
        BY <2>3, <2>4, <2>5, <3>2 DEF Unallocated, Placed
    <2> DEFINE n == End(blocks, b)
    <2>7. n < a + HDR + s /\ n \in Nat /\ a < n
      <3>1. ~(blocks[b].size >= s)
        BY <2>6 DEF Fits, s
      <3>2. QED
        BY <2>2, <2>3, <2>4, <2>5, <3>1 DEF Placed, HDR
    <2>8. n \in DOMAIN blocks /\ blocks[b].next = n /\ n # NULL
      <3>1. n # HEAP_END
        BY <2>2, <2>3, <2>7 DEF HDR
      <3>2. QED
        BY <2>3, <2>5, <2>7, <3>1 DEF Placed, NULL
    <2>9. ~blocks[n].free /\ Placed(blocks, n)
      BY <2>1, <2>6, <2>8, BlockFacts DEF CoalescedBut
    <2>10. Unallocated(n)
      <3>1. n \in a .. (a + (HDR + RoundUp(size)) - 1)
        BY <2>2, <2>3, <2>7 DEF HDR, s
      <3>2. QED
        BY <3>1
    <2> HIDE DEF n
    <2>11. QED
      BY <2>7, <2>8, <2>9, <2>10 DEF Unallocated, Placed, HDR
  <1>2. QED
    BY <1>1, Invariance, PTL

(* The first block at an address or behind it that fits. *)
Behind(blk, b, size) == {c \in DOMAIN blk : b # NULL /\ b <= c /\ Fits(blk, c, size)}

(* There is a first one, if there is any. *)
LEMMA FirstBehind ==
    ASSUME NEW blk, WellFormed(blk), NEW b, NEW size, Behind(blk, b, size) # {}
    PROVE  \E c \in Behind(blk, b, size) : \A d \in Behind(blk, b, size) : c <= d
  <1>1. Behind(blk, b, size) \in SUBSET Nat
    BY HeapAssumption DEF Behind, WellFormed, Addr, HEAP_END
  <1>2. QED
    BY <1>1, LeastElement

(* What find_free_block returns when it starts at b. *)
Finds(blk, b, size, r) ==
    \/ r = NULL /\ Behind(blk, b, size) = {}
    \/ r \in Behind(blk, b, size) /\ \A d \in Behind(blk, b, size) : r <= d

(* What the walk finds is one thing. *)
LEMMA FindsOne ==
    ASSUME NEW blk, WellFormed(blk), NEW b, NEW size
    PROVE  /\ \E r : Finds(blk, b, size, r)
           /\ \A r, q : Finds(blk, b, size, r) /\ Finds(blk, b, size, q) => r = q
  <1>1. Behind(blk, b, size) \in SUBSET Nat
    BY HeapAssumption DEF Behind, WellFormed, Addr, HEAP_END
  <1>2. \A r, q : Finds(blk, b, size, r) /\ Finds(blk, b, size, q) => r = q
    BY <1>1 DEF Finds
  <1>3. QED
    BY <1>2, FirstBehind DEF Finds

(* From a block that does not fit, the walk finds what it finds from the    *)
(* next one.                                                                *)
LEMMA NextFindsTheSame ==
    ASSUME NEW blk, WellFormed(blk), NEW size, NEW b \in DOMAIN blk, NEW r
    PROVE  /\ Fits(blk, b, size) => Finds(blk, b, size, b)
           /\ ~Fits(blk, b, size) => (Finds(blk, b, size, r) <=> Finds(blk, blk[b].next, size, r))
  <1>1. Placed(blk, b) /\ \A c \in DOMAIN blk : Placed(blk, c)
    BY BlockFacts
  <1>2. ASSUME Fits(blk, b, size) PROVE Finds(blk, b, size, b)
    BY <1>1, <1>2 DEF Finds, Behind, Placed
  <1>3. ASSUME ~Fits(blk, b, size) PROVE Behind(blk, b, size) = Behind(blk, blk[b].next, size)
    <2>1. \A c \in DOMAIN blk : b <= c /\ c # b <=> End(blk, b) <= c
      BY <1>1 DEF Placed, HDR
    <2>2. CASE blk[b].next = NULL
      <3>1. ASSUME NEW c \in DOMAIN blk PROVE ~(HEAP_END <= c)
        <4>1. Placed(blk, c)
          BY <1>1
        <4>2. c \in Nat /\ blk[c].size \in Nat /\ c + HDR + blk[c].size <= HEAP_END
          BY <4>1 DEF Placed, Addr
        <4>3. QED
          BY <4>2, HeapAssumption DEF HDR, HEAP_END
      <3>2. QED
        BY <1>1, <1>3, <2>1, <2>2, <3>1 DEF Behind, Placed
    <2>3. CASE blk[b].next # NULL
      BY <1>1, <1>3, <2>1, <2>3 DEF Behind, Placed
    <2>4. QED
      BY <2>2, <2>3
  <1>4. QED
    BY <1>2, <1>3 DEF Finds

(* The equation of the walk has a solution, and only that one.              *)
Walks(blk, size, f) ==
    f = [b \in DOMAIN blk \cup {NULL} |->
            IF b = NULL \/ Fits(blk, b, size) THEN b ELSE f[blk[b].next]]

(* So the walk is a function that satisfies its equation. *)
LEMMA WalkExists ==
    ASSUME NEW blk, WellFormed(blk), NEW size
    PROVE  Walks(blk, size, WalkFrom(blk, size))
  <1> DEFINE D == DOMAIN blk \cup {NULL}
             f == [b \in D |-> CHOOSE r : Finds(blk, b, size, r)]
  <1>1. \A b \in D : Finds(blk, b, size, f[b])
    BY FindsOne
  <1>2. \A b \in DOMAIN blk : blk[b].next \in D
    BY BlockFacts DEF Placed
  <1>3. ASSUME NEW b \in D
        PROVE  f[b] = IF b = NULL \/ Fits(blk, b, size) THEN b ELSE f[blk[b].next]
    <2>1. CASE b = NULL
      <3>1. Finds(blk, b, size, NULL)
        BY <2>1 DEF Finds, Behind
      <3>2. QED
        BY <1>1, <2>1, <3>1, FindsOne
    <2>2. CASE b # NULL /\ Fits(blk, b, size)
      <3>1. Finds(blk, b, size, b)
        BY <2>2, NextFindsTheSame
      <3>2. QED
        BY <1>1, <2>2, <3>1, FindsOne
    <2>3. CASE b # NULL /\ ~Fits(blk, b, size)
      <3>1. b \in DOMAIN blk /\ blk[b].next \in D
        BY <1>2, <2>3
      <3>2. Finds(blk, b, size, f[blk[b].next])
        BY <1>1, <2>3, <3>1, NextFindsTheSame
      <3> HIDE DEF f
      <3>3. QED
        BY <1>1, <2>3, <3>2, FindsOne
    <2>4. QED
      BY <2>1, <2>2, <2>3
  <1>4. Walks(blk, size, f)
    <2>1. f = [b \in D |-> f[b]]
      OBVIOUS
    <2> HIDE DEF f
    <2>2. [b \in D |-> f[b]] = [b \in D |-> IF b = NULL \/ Fits(blk, b, size) THEN b
                                            ELSE f[blk[b].next]]
      BY <1>3
    <2>3. QED
      BY <2>1, <2>2 DEF Walks
  <1>5. WalkFrom(blk, size) = CHOOSE g : Walks(blk, size, g)
    BY DEF WalkFrom, Walks
  <1> HIDE DEF f
  <1>6. QED
    BY <1>4, <1>5

(* And what satisfies it finds the first block behind, from every block on. *)
LEMMA WalkFinds ==
    ASSUME NEW blk, WellFormed(blk), NEW size, NEW f, Walks(blk, size, f)
    PROVE  \A b \in DOMAIN blk : Finds(blk, b, size, f[b])
  <1> DEFINE S == {b \in DOMAIN blk : ~Finds(blk, b, size, f[b])}
  <1>1. SUFFICES ASSUME S # {} PROVE FALSE
    OBVIOUS
  <1>2. S \in SUBSET Addr
    BY DEF WellFormed
  <1>3. PICK b \in S : \A c \in S : c <= b
    BY <1>1, <1>2, LastBlock
  <1>4. b \in DOMAIN blk /\ Placed(blk, b) /\ ~Finds(blk, b, size, f[b])
    BY BlockFacts
  <1>5. f[b] = IF Fits(blk, b, size) THEN b ELSE f[blk[b].next]
    BY <1>4 DEF Walks, Placed
  <1>6. ~Fits(blk, b, size)
    BY <1>4, <1>5, NextFindsTheSame
  <1>7. Finds(blk, blk[b].next, size, f[blk[b].next])
    <2>1. CASE blk[b].next = NULL
      <3>1. f[NULL] = NULL
        BY DEF Walks
      <3>2. QED
        BY <2>1, <3>1 DEF Finds, Behind
    <2>2. CASE blk[b].next # NULL
      <3>1. blk[b].next \in DOMAIN blk /\ ~(blk[b].next <= b)
        BY <1>4, <2>2 DEF Placed, HDR
      <3>2. QED
        BY <1>3, <3>1
    <2>3. QED
      BY <2>1, <2>2
  <1>8. Finds(blk, b, size, f[b])
    BY <1>4, <1>5, <1>6, <1>7, NextFindsTheSame
  <1>9. QED
    BY <1>4, <1>8

(* The walk from heap_start along `next` ends, at the first block that fits *)
(* or at NULL if there is none, whatever the list has become.               *)
THEOREM WalkFindsFirstFit == HeapSpec => []WalkIsFirstFit
  <1>1. IInv => WalkIsFirstFit
    <2> SUFFICES ASSUME IInv, mm_initialized, NEW size \in Requests \ {0}
                 PROVE  IF FirstFound(RoundUp(size)) = NULL
                          THEN \A c \in DOMAIN blocks : ~Fits(blocks, c, RoundUp(size))
                          ELSE IsFirstFit(blocks, FirstFound(RoundUp(size)), RoundUp(size))
      BY DEF WalkIsFirstFit
    <2> DEFINE s == RoundUp(size)
               w == FirstFound(s)
    <2>1. WellFormed(blocks) /\ HEAP_START \in DOMAIN blocks
      BY DEF IInv, WellFormed
    <2>2. Finds(blocks, HEAP_START, s, w)
      BY <2>1, WalkExists, WalkFinds DEF FirstFound
    <2>3. \A c \in DOMAIN blocks : HEAP_START <= c
      BY <2>1, HeapAssumption DEF WellFormed, Addr, HEAP_END
    <2>4. \A c : c \in Behind(blocks, HEAP_START, s) <=> c \in DOMAIN blocks /\ Fits(blocks, c, s)
      BY <2>3, HeapAssumption DEF Behind
    <2> HIDE DEF s, w
    <2>5. NULL \notin DOMAIN blocks
      BY <2>1, NoNull
    <2>6. IF w = NULL THEN \A c \in DOMAIN blocks : ~Fits(blocks, c, s)
          ELSE IsFirstFit(blocks, w, s)
      BY <2>2, <2>4, <2>5 DEF Finds, IsFirstFit
    <2>7. QED
      BY <2>6 DEF s, w
  <1>2. QED
    BY <1>1, Invariance, PTL
-----------------------------------------------------------------------------
(* What a call of kmalloc hands out lies in the heap and apart from all    *)
(* that is held: the block it comes from is free, and blocks do not        *)
(* overlap.                                                                *)
LEMMA HandedOutIsAvailable ==
    ASSUME IInv, NEW size \in Requests, NEW b \in DOMAIN blocks, Kmalloc(size, b)
    PROVE  /\ b + HDR \in HEAP_START .. HEAP_END
           /\ size \in Requests \ {0}
           /\ Abstract!Available(b + HDR, size)
  <1>1. WellFormed(blocks) /\ Holds(blocks, live)
    BY DEF IInv, Kmalloc
  <1>2. \A x \in DOMAIN blocks : Placed(blocks, x)
    BY <1>1, BlockFacts
  <1>3. size \in Nat \ {0} /\ RoundUp(size) \in Nat /\ RoundUp(size) >= size
    BY AlignUpBound, HeapAssumption DEF Kmalloc
  <1>4. blocks[b].free /\ blocks[b].size >= RoundUp(size)
    BY DEF Kmalloc, IsFirstFit, Fits
  <1>5. /\ b + HDR \in Addr /\ b + HDR \in Nat /\ End(blocks, b) \in Nat
        /\ b + HDR + size <= End(blocks, b) /\ End(blocks, b) <= HEAP_END
    <2>1. Placed(blocks, b)
      BY <1>2
    <2>2. QED
      BY <2>1, <1>3, <1>4, HeapAssumption DEF Placed, Addr, HDR, HEAP_END
  <1>6. ASSUME NEW q \in DOMAIN live
        PROVE  b + HDR + size <= q \/ q + live[q] <= b + HDR
    <2>1. PICK c \in Allocated(blocks) : q = c + HDR
      BY <1>1 DEF Holds
    <2>2. c \in DOMAIN blocks /\ c # b /\ live[q] <= blocks[c].size /\ live[q] \in Nat
      BY <1>1, <1>4, <2>1, HeapAssumption DEF Holds, Allocated
    <2>3. Placed(blocks, c) /\ Placed(blocks, b)
      BY <1>2, <2>2
    <2>4. CASE c < b
      BY <2>1, <2>2, <2>3, <2>4 DEF Placed, HDR
    <2>5. CASE b < c
      BY <1>3, <1>5, <2>1, <2>2, <2>3, <2>5 DEF Placed, HDR
    <2>6. QED
      BY <2>2, <2>3, <2>4, <2>5 DEF Placed
  <1>7. QED
    <2>1. HEAP_START <= b + HDR /\ b + HDR + size <= HEAP_END
      BY <1>3, <1>5, HeapAssumption DEF Addr, HEAP_END
    <2>2. Abstract!Available(b + HDR, size)
      BY <1>6, <2>1 DEF Abstract!Available
    <2>3. QED
      BY <1>3, <1>5, <2>2 DEF Addr

(* memory.c implements the allocator its callers see: two held ranges      *)
(* never overlap and none leaves the heap.                                 *)
THEOREM Refinement == HeapSpec => AllocatorSpec
  <1>1. HeapInit => Abstract!Init
    BY DEF HeapInit, Abstract!Init
  <1>2. IInv /\ [HeapNext]_heapVars => [Abstract!Next]_<<mm_initialized, live>>
    <2> SUFFICES ASSUME IInv, [HeapNext]_heapVars
                 PROVE  [Abstract!Next]_<<mm_initialized, live>>
      OBVIOUS
    <2>1. CASE MmInit
      BY <2>1 DEF MmInit, Abstract!Next, Abstract!Start
    <2>2. ASSUME NEW size \in Requests, NEW b \in DOMAIN blocks, Kmalloc(size, b)
          PROVE  Abstract!Next
      <3>1. /\ b + HDR \in HEAP_START .. HEAP_END
            /\ size \in Requests \ {0}
            /\ Abstract!Available(b + HDR, size)
        BY <2>2, HandedOutIsAvailable
      <3>2. Abstract!Alloc(b + HDR, size)
        BY <2>2, <3>1 DEF Kmalloc, Abstract!Alloc
      <3>3. QED
        BY <3>1, <3>2 DEF Abstract!Next
    <2>3. ASSUME NEW p \in DOMAIN live, Kfree(p)
          PROVE  Abstract!Next
      BY <2>3 DEF Kfree, Abstract!Next, Abstract!Free
    <2>4. CASE UNCHANGED heapVars
      BY <2>4 DEF heapVars
    <2>5. QED
      BY <2>1, <2>2, <2>3, <2>4 DEF HeapNext
  <1>3. QED
    BY <1>1, <1>2, Invariance, PTL DEF HeapSpec, AllocatorSpec, Abstract!Spec
=============================================================================
