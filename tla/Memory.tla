-------------------------------- MODULE Memory --------------------------------
(***************************************************************************)
(* Pages, slabs and malloc on x86 (virtual/pmm.c, virtual/vmm.c, slab.c,   *)
(* malloc.c), with two clients that map pages themselves: the guarded      *)
(* stacks of thread_setup_stack and the regions of devices.                *)
(*                                                                         *)
(* malloc, free and realloc run with interrupts off and are one step; the  *)
(* allocator's state is one record, so that realloc is malloc after free.  *)
(* An address is <<page, offset>>, offset 0 being page aligned.  Contents  *)
(* are left out, except the header at the start of a page.                 *)
(***************************************************************************)
EXTENDS Integers, Sequences, FiniteSets, FiniteSetsExt, SequencesExt, Lists

CONSTANTS
    Pages, Frames,  \* how many pages of VM_START..VM_END, frames of the pmm
    PAGE_SIZE,      \* in units of the slab page's header
    ObjectSizes,    \* the object sizes of malloc_caches, increasing
    Sizes,          \* the sizes asked of malloc
    StackPages,     \* THREAD_ALLOC_PAGES
    MaxObjects      \* bound: pointers that callers hold at a time

ASSUME MemoryAssumption ==
    /\ Pages \in Nat /\ Frames \in Nat \ {0} /\ MaxObjects \in Nat
    /\ PAGE_SIZE \in Nat \ {0}
    /\ StackPages \in Nat /\ StackPages > 1
    /\ ObjectSizes \in Seq(1..(PAGE_SIZE - 1))
    /\ Sizes \subseteq Nat \ {0}

VARIABLES
    mem,        \* pmm, virt bitmap, page table, page headers, page lists, crashed
    held_ptrs,  \* what the callers of malloc hold
    stacks,     \* first pages of the thread stacks
    guard       \* thread_setup_stack: the region whose guard page is being made

memVars == <<mem, held_ptrs, stacks, guard>>

NULL == <<-1, -1>>
Unmapped == -1
Device == Frames                \* a frame the pmm does not manage
PageSet == 0..(Pages - 1)
NoHeader == [kind |-> "none"]
Caches == 1..Len(ObjectSizes)

MemInit ==
    /\ mem = [pmm |-> {}, virt |-> {}, pte |-> [p \in PageSet |-> Unmapped],
              head |-> [p \in PageSet |-> NoHeader],
              list |-> [c \in Caches |-> <<>>], crashed |-> FALSE]
    /\ held_ptrs = {} /\ stacks = {} /\ guard = NULL

-----------------------------------------------------------------------------
(* The first run of n free bits, or -1.                                    *)
find_contiguous_bits(virt, n) ==
    LET fits == {s \in PageSet : s + n <= Pages /\ (s..(s + n - 1)) \cap virt = {}}
    IN  IF fits = {} THEN -1 ELSE Min(fits)

FreeFrames(m) == (0..(Frames - 1)) \ m.pmm

(* The frame the i-th of several calls of pmm_alloc_frame returns.         *)
pmm_alloc_frame(m, i) ==
    CHOOSE f \in FreeFrames(m) : Cardinality({g \in FreeFrames(m) : g < f}) = i - 1

(* A frame above total_frames is not the pmm's.                            *)
pmm_free_frame(m, f) == IF f < Frames THEN [m EXCEPT !.pmm = @ \ {f}] ELSE m

vmm_map_page(pte, page, frame) == [pte EXCEPT ![page] = frame]

(* The first n pages of a region, mapped to the lowest free frames.        *)
MapPages(m, start, n) ==
    LET frame(p) == pmm_alloc_frame(m, p - start + 1)
        new == start..(start + n - 1)
    IN  [m EXCEPT !.pmm = @ \cup {frame(p) : p \in new},
                  !.virt = @ \cup new,
                  !.pte = [p \in PageSet |-> IF p \in new THEN frame(p) ELSE @[p]]]

KeepsFrames(m, start, n) ==     \* variant: the frames are not given back
    LET old == start..(start + n - 1)
    IN  [m EXCEPT !.virt = @ \ old,
                  !.pte = [p \in PageSet |-> IF p \in old THEN Unmapped ELSE @[p]]]

(* Pages that are not present have no frame to give back; what was in a    *)
(* page goes with its frame.                                               *)
vmm_free_pages(m, start, n) ==
    LET old == start..(start + n - 1)
        freed == {m.pte[p] : p \in old} \ {Unmapped}
    IN  [m EXCEPT !.pmm = @ \ (freed \cap 0..(Frames - 1)),
                  !.virt = @ \ old,
                  !.head = [p \in PageSet |-> IF p \in old THEN NoHeader ELSE @[p]],
                  !.pte = [p \in PageSet |-> IF p \in old THEN Unmapped ELSE @[p]]]

(* Out of address space or of frames, after what was mapped was undone,    *)
(* the kernel stops.                                                       *)
vmm_alloc_pages(m, n) ==
    LET start == find_contiguous_bits(m.virt, n)
        have == Cardinality(FreeFrames(m))
    IN  IF start = -1 THEN [m |-> [m EXCEPT !.crashed = TRUE], page |-> -1]
        ELSE IF have < n
        THEN [m |-> [vmm_free_pages(MapPages(m, start, have), start, have)
                        EXCEPT !.crashed = TRUE], page |-> -1]
        ELSE [m |-> MapPages(m, start, n), page |-> start]

-----------------------------------------------------------------------------
(* The header takes one unit; the slots follow it.                         *)
Slots(c) == (PAGE_SIZE - 1) \div ObjectSizes[c]
Offset(c, i) == 1 + (i - 1) * ObjectSizes[c]

(* A new page gets its header.                                             *)
Formatted(a, c) ==
    IF a.page = -1 THEN a
    ELSE [a EXCEPT !.m.head[a.page] =
            [kind |-> "slab", cache |-> c, num_allocated |-> 0,
             free_list |-> [i \in 1..Slots(c) |-> Offset(c, i)]]]

slab_grow(m, c) == Formatted(vmm_alloc_pages(m, 1), c)

(* A new page goes to the front of the cache's list.                       *)
PushPage(a, c) == IF a.page = -1 THEN a ELSE [a EXCEPT !.m.list[c] = <<a.page>> \o @]

(* The first slot of the page that was found.                              *)
TakeSlot(a) ==
    IF a.page = -1 THEN [m |-> a.m, ptr |-> NULL]
    ELSE [m |-> [a.m EXCEPT !.head[a.page].free_list = Tail(@),
                            !.head[a.page].num_allocated = @ + 1],
          ptr |-> <<a.page, Head(a.m.head[a.page].free_list)>>]

slab_alloc(m, c) ==
    LET open == {i \in 1..Len(m.list[c]) : m.head[m.list[c][i]].free_list # <<>>}
    IN  TakeSlot(IF open # {} THEN [m |-> m, page |-> m.list[c][Min(open)]]
                 ELSE PushPage(slab_grow(m, c), c))

LeftOnList(m, c, page) ==       \* variant: an emptied page stays on the list
    vmm_free_pages(m, page, 1)

ReleaseSlab(m, c, page) ==
    vmm_free_pages([m EXCEPT !.list[c] = WithoutAll(@, {page})], page, 1)

(* Freeing a slot twice stops the kernel.                                  *)
slab_free(m, c, ptr) ==
    LET page == ptr[1]
        freed == [m EXCEPT !.head[page].free_list = <<ptr[2]>> \o @,
                           !.head[page].num_allocated = @ - 1]
    IN  IF Contains(m.head[page].free_list, ptr[2]) THEN [m EXCEPT !.crashed = TRUE]
        ELSE IF freed.head[page].num_allocated = 0 THEN ReleaseSlab(freed, c, page)
        ELSE freed

-----------------------------------------------------------------------------
(* Large allocations have a page of their own in front of them.            *)
PagesFor(size) == (size + PAGE_SIZE + PAGE_SIZE - 1) \div PAGE_SIZE
CacheFor(size) ==
    LET fits == {c \in Caches : size <= ObjectSizes[c]}
    IN  IF fits = {} THEN 0 ELSE Min(fits)

Large(a, n) ==
    IF a.page = -1 THEN [m |-> a.m, ptr |-> NULL]
    ELSE [m |-> [a.m EXCEPT !.head[a.page] = [kind |-> "large", num_pages |-> n]],
          ptr |-> <<a.page + 1, 0>>]

malloc_unlocked(m, size) ==
    IF CacheFor(size) # 0 THEN slab_alloc(m, CacheFor(size))
    ELSE Large(vmm_alloc_pages(m, PagesFor(size)), PagesFor(size))

IsLarge(ptr) == ptr[2] = 0

free_unlocked(m, ptr) ==
    IF IsLarge(ptr) THEN vmm_free_pages(m, ptr[1] - 1, m.head[ptr[1] - 1].num_pages)
    ELSE slab_free(m, m.head[ptr[1]].cache, ptr)

(* A block that keeps its number of pages, or its slab, stays in place.    *)
StaysInPlace(m, ptr, size) ==
    IF IsLarge(ptr) THEN PagesFor(size) = m.head[ptr[1] - 1].num_pages
    ELSE CacheFor(size) = m.head[ptr[1]].cache

Relocated(a, ptr) == IF a.ptr = NULL THEN a ELSE [a EXCEPT !.m = free_unlocked(@, ptr)]

realloc_unlocked(m, ptr, size) ==
    IF StaysInPlace(m, ptr, size) THEN [m |-> m, ptr |-> ptr]
    ELSE Relocated(malloc_unlocked(m, size), ptr)

malloc(size) ==
    /\ ~mem.crashed /\ Cardinality(held_ptrs) < MaxObjects
    /\ \E a \in {malloc_unlocked(mem, size)} :
          mem' = a.m /\ held_ptrs' = held_ptrs \cup ({a.ptr} \ {NULL})
    /\ UNCHANGED <<stacks, guard>>

free(ptr) ==
    /\ ~mem.crashed /\ ptr \in held_ptrs
    /\ mem' = free_unlocked(mem, ptr)
    /\ held_ptrs' = held_ptrs \ {ptr}
    /\ UNCHANGED <<stacks, guard>>

realloc(ptr, size) ==
    /\ ~mem.crashed /\ ptr \in held_ptrs
    /\ \E a \in {realloc_unlocked(mem, ptr, size)} :
          /\ mem' = a.m
          /\ held_ptrs' = IF a.ptr = NULL THEN held_ptrs
                          ELSE (held_ptrs \ {ptr}) \cup {a.ptr}
    /\ UNCHANGED <<stacks, guard>>

-----------------------------------------------------------------------------
(* thread_setup_stack: between its three calls other threads may run.      *)
AllocStack ==
    /\ ~mem.crashed /\ guard = NULL
    /\ \E a \in {vmm_alloc_pages(mem, StackPages)} :
          /\ mem' = a.m
          /\ guard' = IF a.page = -1 THEN NULL ELSE <<a.page, a.m.pte[a.page]>>
    /\ UNCHANGED <<held_ptrs, stacks>>

vmm_unmap_page ==
    /\ ~mem.crashed /\ guard # NULL /\ mem.pte[guard[1]] # Unmapped
    /\ mem' = [mem EXCEPT !.pte[guard[1]] = Unmapped]
    /\ UNCHANGED <<held_ptrs, stacks, guard>>

FreeGuardFrame ==
    /\ ~mem.crashed /\ guard # NULL /\ mem.pte[guard[1]] = Unmapped
    /\ mem' = pmm_free_frame(mem, guard[2])
    /\ stacks' = stacks \cup {guard[1]}
    /\ guard' = NULL
    /\ UNCHANGED held_ptrs

(* reap_threads gives back the whole region, the guard page included.      *)
FreeStack(p) ==
    /\ ~mem.crashed /\ p \in stacks
    /\ mem' = vmm_free_pages(mem, p, StackPages)
    /\ stacks' = stacks \ {p}
    /\ UNCHANGED <<held_ptrs, guard>>

(* A device's page; nothing in the code ever unmaps one.                   *)
vmm_map_mmio_region ==
    LET start == find_contiguous_bits(mem.virt, 1)
    IN  /\ ~mem.crashed /\ start # -1
        /\ mem' = [mem EXCEPT !.virt = @ \cup {start},
                               !.pte = vmm_map_page(@, start, Device)]
        /\ UNCHANGED <<held_ptrs, stacks, guard>>

MemNext ==
    \/ \E s \in Sizes : malloc(s)
    \/ \E ptr \in held_ptrs : free(ptr) \/ \E s \in Sizes : realloc(ptr, s)
    \/ AllocStack \/ vmm_unmap_page \/ FreeGuardFrame
    \/ \E p \in stacks : FreeStack(p)
    \/ vmm_map_mmio_region

MemSpec == MemInit /\ [][MemNext]_memVars
-----------------------------------------------------------------------------
(* The pages an object's owner may touch.                                  *)
PagesOf(ptr) ==
    IF IsLarge(ptr) THEN (ptr[1] - 1)..(ptr[1] - 2 + mem.head[ptr[1] - 1].num_pages)
    ELSE {ptr[1]}
SlabPages == UNION {Range(mem.list[c]) : c \in Caches}

(* A frame in use backs exactly one page (or is the guard frame about to   *)
(* be given back), and a page of the address space in use is mapped, save  *)
(* the guard pages.                                                        *)
FramesOwned ==
    LET mapped == {p \in PageSet : mem.pte[p] # Unmapped /\ mem.pte[p] # Device}
        limbo == IF guard # NULL /\ mem.pte[guard[1]] = Unmapped THEN {guard[2]} ELSE {}
        guards == stacks \cup (IF guard # NULL THEN {guard[1]} ELSE {})
    IN  /\ mem.pmm = {mem.pte[p] : p \in mapped} \cup limbo
        /\ \A p, q \in mapped : mem.pte[p] = mem.pte[q] => p = q
        /\ \A p \in mapped : mem.pte[p] \notin limbo
        /\ mem.virt = {p \in PageSet : mem.pte[p] # Unmapped} \cup guards

(* What malloc gave out stays mapped and is nobody else's: large objects   *)
(* share no page, slab objects no slot, and a slab page is on its list     *)
(* with its counts right exactly while it holds an object.                 *)
ObjectsApart ==
    /\ \A a, b \in held_ptrs : a # b /\ (IsLarge(a) \/ IsLarge(b)) =>
          PagesOf(a) \cap PagesOf(b) = {}
    /\ \A a \in held_ptrs : \A p \in PagesOf(a) : mem.pte[p] \in 0..(Frames - 1)
    /\ \A a \in held_ptrs : ~IsLarge(a) =>
          LET h == mem.head[a[1]]
          IN  /\ h.kind = "slab" /\ ~Contains(h.free_list, a[2])
              /\ Contains(mem.list[h.cache], a[1])
              /\ h.num_allocated = Cardinality({b \in held_ptrs : b[1] = a[1]})
              /\ h.num_allocated + Len(h.free_list) = Slots(h.cache)
    /\ SlabPages = {a[1] : a \in {b \in held_ptrs : ~IsLarge(b)}}

(* A crash for want of memory leaves every other owner as it was: memory   *)
(* that the failed call had taken is given back first.                     *)
MemoryIsOwned == FramesOwned /\ ObjectsApart
=============================================================================
