--------------------------- MODULE VirtualMemory ---------------------------
(***************************************************************************)
(* Page frames, page tables and VMAs of src/src/mm/virtual_memory.c, and   *)
(* the calls that use them: mmap, munmap, the page fault handler and       *)
(* sys_brk.  Each runs to completion and is one action of a process.       *)
(*                                                                         *)
(* A frame is numbered; 0 is the address that pmm_alloc_page returns when  *)
(* it has none.  frames holds the free list, in its order, and ref_count.  *)
(* space[p] holds what belongs to process p: its VMA list in its order,    *)
(* the tables below its pgd, and the entry of each page.  A table is named *)
(* by its level (1 a pud, 2 a pmd, 3 a table of ptes) and the part of the  *)
(* page number that leads to it.                                           *)
(*                                                                         *)
(* No code in the repository sets PAGE_COW or PAGE_SWAPPED, or calls       *)
(* swap_out_page, so an entry is empty or present.  A call that changes    *)
(* nothing (a NULL from kmalloc, a SIGSEGV, a SIGKILL) is no step.         *)
(***************************************************************************)
EXTENDS Integers, Sequences, SequencesExt

CONSTANTS
    Procs,
    FRAMES,             \* page frames that are not reserved
    PAGE_SIZE,
    PAGES_PER_TABLE,
    LAST_PAGE,          \* of a process: the address space is bounded
    HeapBase,           \* heap_base of every process
    Addresses,          \* passed with MAP_FIXED, to munmap and to brk, or accessed
    Lengths             \* passed to mmap and munmap

ASSUME VirtualMemoryAssumption ==
    /\ FRAMES \in Nat
    /\ PAGE_SIZE \in Nat \ {0} /\ PAGES_PER_TABLE \in Nat \ {0}
    /\ LAST_PAGE \in Nat
    /\ HeapBase \in Nat /\ HeapBase % PAGE_SIZE = 0
    /\ Addresses \subseteq Nat /\ Lengths \subseteq Nat

VARIABLES frames, space, brk

vmVars == <<frames, space, brk>>

Frame     == 1 .. FRAMES
Pages     == 0 .. LAST_PAGE
Unmapped  == [frame |-> 0, writable |-> FALSE]
Entry     == [frame: Frame, writable: BOOLEAN] \cup {Unmapped}
TableNode(l, v) == <<l, v \div PAGES_PER_TABLE ^ (4 - l)>>

(* From start up to end, whole pages of the address space in length. *)
Vma ==
    {vma \in [start: Nat, end: Nat, write: BOOLEAN] :
        /\ vma.start <= vma.end /\ vma.end <= (LAST_PAGE + 1) * PAGE_SIZE
        /\ (vma.end - vma.start) % PAGE_SIZE = 0}

VmTypeOK ==
    /\ frames.free \in Seq(Frame)
    /\ frames.ref \in [Frame -> 0 .. 1]
    /\ \A p \in Procs :
           /\ space[p].vmas \in Seq(Vma)
           /\ \A n \in DOMAIN space[p].tables : n[1] \in 1 .. 3 /\ space[p].tables[n] \in Frame
           /\ space[p].pte \in [Pages -> Entry]
    /\ brk \in [Procs -> Nat]

VmInit ==
    /\ frames = [free |-> [i \in Frame |-> FRAMES + 1 - i], ref |-> [f \in Frame |-> 0]]
    /\ space = [p \in Procs |->
                   [vmas |-> <<>>, tables |-> <<>>, pte |-> [v \in Pages |-> Unmapped]]]
    /\ brk = [p \in Procs |-> HeapBase]
-----------------------------------------------------------------------------
(* The operators below take and return a record m with the frames and one  *)
(* process's space, so that a call's steps compose.                        *)
Of(p) == [free |-> frames.free, ref |-> frames.ref, vmas |-> space[p].vmas,
          tables |-> space[p].tables, pte |-> space[p].pte, failed |-> FALSE]

Becomes(p, m) ==
    /\ frames' = [free |-> m.free, ref |-> m.ref]
    /\ space' = [space EXCEPT ![p] = [vmas |-> m.vmas, tables |-> m.tables, pte |-> m.pte]]

AlignDown(a) == (a \div PAGE_SIZE) * PAGE_SIZE
(* Seeded fault: no rounding. *)
NoRounding(a) == a

AlignUp(a) == AlignDown(a + PAGE_SIZE - 1)
PageOf(a) == a \div PAGE_SIZE

(* Seeded fault: `<=` in the loop. *)
OnePageMore(start, end) ==
    [i \in 1 .. ((end - start) \div PAGE_SIZE + 1) |-> PageOf(start) + i - 1]

(* The pages a loop from start by PAGE_SIZE up to end visits. *)
PagesOf(start, end) ==
    [i \in 1 .. ((end - start) \div PAGE_SIZE) |-> PageOf(start) + i - 1]

AllocPage(m) == [m EXCEPT !.free = Tail(@), !.ref[Head(m.free)] = 1]

FreePage(m, f) ==
    IF m.ref[f] = 0 THEN m
    ELSE [m EXCEPT !.ref[f] = @ - 1,
                   !.free = IF m.ref[f] = 1 THEN <<f>> \o @ ELSE @]

Entered(t, n, f) == [k \in DOMAIN t \cup {n} |-> IF k = n THEN f ELSE t[k]]

(* get_pte makes the tables that are missing, from the top down, and stops *)
(* when there is no frame for one.  Those it has made stay.                *)
Descend(m, v, l) ==
    IF TableNode(l, v) \in DOMAIN m.tables \/ m.free = <<>> THEN m
    ELSE [AllocPage(m) EXCEPT !.tables = Entered(@, TableNode(l, v), Head(m.free))]

Walk(m, v) == Descend(Descend(Descend(m, v, 1), v, 2), v, 3)

(* An entry is overwritten whatever it held. *)
MapPage(m, v, f, write) ==
    LET w == Walk(m, v)
    IN  IF TableNode(3, v) \in DOMAIN w.tables
          THEN [w EXCEPT !.pte[v] = [frame |-> f, writable |-> write]]
          ELSE w

(* Seeded fault: the entry is not cleared. *)
UnmapStale(m, v) ==
    IF m.pte[v] = Unmapped THEN m ELSE FreePage(m, m.pte[v].frame)

UnmapPage(m, v) ==
    IF m.pte[v] = Unmapped THEN m
    ELSE [FreePage(m, m.pte[v].frame) EXCEPT !.pte[v] = Unmapped]

UnmapVma(m, vma) == FoldLeft(UnmapPage, m, PagesOf(vma.start, vma.end))

(* Seeded fault: only the end is compared. *)
EndsBelow(vma, lo, hi) == vma.end <= hi

InRange(vma, lo, hi) == vma.start >= lo /\ vma.end <= hi

(* One turn of munmap's loop: a VMA that lies in the range goes, with all  *)
(* its pages; one that the range only touches stays whole.                 *)
UnmapNext(m, vma, lo, hi) ==
    IF InRange(vma, lo, hi) THEN UnmapVma(m, vma) ELSE [m EXCEPT !.vmas = Append(@, vma)]

Unmap(m, addr, length) ==
    LET lo == AlignDown(addr)
        hi == AlignUp(addr + length)
    IN  FoldLeft(LAMBDA w, vma : UnmapNext(w, vma, lo, hi), [m EXCEPT !.vmas = <<>>], m.vmas)

(* One turn of mmap's loop, which does not look at map_page's result. *)
MapNext(m, v, write) ==
    IF m.failed \/ m.free = <<>> THEN [m EXCEPT !.failed = TRUE]
    ELSE MapPage(AllocPage(m), v, Head(m.free), write)

MapPages(m, start, end, write) ==
    FoldLeft(LAMBDA w, v : MapNext(w, v, write), m, PagesOf(start, end))

(* mmap, from the new VMA on; on failure the result says so.  The VMA list *)
(* grows at its front.                                                     *)
Map(m, start, length, write) ==
    LET end  == start + AlignUp(length)
        vma  == [start |-> start, end |-> end, write |-> write]
        done == MapPages([m EXCEPT !.vmas = <<vma>> \o @], start, end, write)
    IN  IF done.failed THEN Unmap(done, start, AlignUp(length)) ELSE done

HasRoom(start, length) == start + AlignUp(length) <= (LAST_PAGE + 1) * PAGE_SIZE
-----------------------------------------------------------------------------
(* Without MAP_FIXED, find_free_vma_space (not in the repository) gives an *)
(* aligned address that no VMA reaches.                                    *)
Mmap(p, length, write) ==
    \E start \in Addresses :
        /\ start # 0 /\ start % PAGE_SIZE = 0 /\ HasRoom(start, length)
        /\ \A i \in DOMAIN space[p].vmas :
               space[p].vmas[i].end <= start \/ start + AlignUp(length) <= space[p].vmas[i].start
        /\ Becomes(p, Map(Of(p), start, length, write))
        /\ UNCHANGED brk

MmapFixed(p, start, length, write) ==
    /\ HasRoom(start, length)
    /\ Becomes(p, Map(Of(p), start, length, write))
    /\ UNCHANGED brk

Munmap(p, addr, length) ==
    /\ Becomes(p, Unmap(Of(p), addr, length))
    /\ UNCHANGED brk

(* sys_brk: the heap's end moves with a mapping or an unmapping of what    *)
(* lies between; a growth that fails leaves it.                            *)
Grow(p, new) ==
    LET m == Map(Of(p), brk[p], new - brk[p], TRUE)
    IN  /\ new > brk[p] /\ HasRoom(brk[p], new - brk[p])
        /\ Becomes(p, m)
        /\ brk' = IF m.failed THEN brk ELSE [brk EXCEPT ![p] = new]

Shrink(p, new) ==
    /\ new < brk[p]
    /\ Becomes(p, Unmap(Of(p), new, brk[p] - new))
    /\ brk' = [brk EXCEPT ![p] = new]

(* The VMAs that have the address; the first of them in the list decides.  *)
Hits(m, a) == {i \in DOMAIN m.vmas : m.vmas[i].start <= a /\ a < m.vmas[i].end}

(* A page that is not present is accessed, or a present one that may not   *)
(* be written is written.                                                  *)
PageFault(p, a, write) ==
    LET m   == Of(p)
        pte == m.pte[PageOf(a)]
    IN  \E i \in Hits(m, a) :
            /\ \A j \in Hits(m, a) : i <= j
            /\ pte = Unmapped \/ (write /\ ~pte.writable)
            /\ write => m.vmas[i].write
            /\ m.free # <<>>
            /\ Becomes(p, MapPage(AllocPage(m), PageOf(a), Head(m.free), m.vmas[i].write))
            /\ UNCHANGED brk

VmNext == \E p \in Procs :
    \/ \E length \in Lengths, write \in BOOLEAN : Mmap(p, length, write)
    \/ \E a \in Addresses, length \in Lengths, write \in BOOLEAN : MmapFixed(p, a, length, write)
    \/ \E a \in Addresses, length \in Lengths : Munmap(p, a, length)
    \/ \E a \in Addresses : Grow(p, a)
    \/ \E a \in Addresses : Shrink(p, a)
    \/ \E a \in Addresses, write \in BOOLEAN : PageFault(p, a, write)

VmSpec == VmInit /\ [][VmNext]_vmVars
-----------------------------------------------------------------------------
(* All that frame f is used for: entries and tables of any process. *)
Uses(f) ==
    {u \in Procs \X Pages : space[u[1]].pte[u[2]].frame = f}
    \cup UNION {{<<p, n>> : n \in {n \in DOMAIN space[p].tables : space[p].tables[n] = f}} :
                p \in Procs}

(* No frame is used twice, by two pages, by a page and a table, or by two  *)
(* processes, and none that is used is on the free list or on it twice:    *)
(* whatever mmap has to give back half-way, and whatever a later munmap or *)
(* fault does with it.                                                     *)
OneUse ==
    \A f \in Frame :
        /\ Cardinality(Uses(f)) + Cardinality({i \in DOMAIN frames.free : frames.free[i] = f}) <= 1
        /\ Uses(f) # {} => frames.ref[f] = 1

(* A page that is present lies in some VMA, so that a munmap will find it. *)
(* Overlapping mappings and failures in the middle of a mapping leave none *)
(* behind.                                                                 *)
PresentIsInVma ==
    \A p \in Procs, v \in Pages :
        space[p].pte[v] # Unmapped =>
            \E i \in DOMAIN space[p].vmas :
                LET vma == space[p].vmas[i]
                IN  vma.start < (v + 1) * PAGE_SIZE /\ v * PAGE_SIZE < vma.end

(* "Expand heap", "Shrink heap" (syscalls.c:269, 278): what lies below the *)
(* old and the new break keeps the frame it is in.                         *)
BrkKeepsHeap ==
    [][\A p \in Procs :
         brk'[p] # brk[p] =>
             \A v \in Pages :
                 HeapBase <= v * PAGE_SIZE /\ v * PAGE_SIZE < brk[p] /\ v * PAGE_SIZE < brk'[p]
                     => space'[p].pte[v] = space[p].pte[v]]_vmVars
=============================================================================
