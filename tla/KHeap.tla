-------------------------------- MODULE KHeap --------------------------------
(***************************************************************************)
(* The kernel object heap: kmalloc, kfree and the walk over all objects,   *)
(* on x86 (arch/x86/heap.c) and on the AVR (arch/avr/heap.c).  The two     *)
(* ports share the layout: a bitmap of blocks, and in front of each object *)
(* a header in the pool itself.                                            *)
(*                                                                         *)
(* Every call runs alone (interrupts are off on x86, the AVR has one       *)
(* thread).  Addresses are block numbers.  What callers write into their   *)
(* objects may look like a header, and stays in the pool when freed.       *)
(***************************************************************************)
EXTENDS Integers, FiniteSets, FiniteSetsExt

CONSTANTS
    BlockCount,     \* kmalloc_block_count
    Reserved,       \* kmalloc_reserved_blocks, which hold the bitmap
    BlockSize,      \* in units of KMALLOC_HEADER_SIZE
    ObjectRange     \* the sizes asked for, in those units

ASSUME KHeapAssumption ==
    /\ BlockCount \in Nat /\ Reserved \in 0..BlockCount
    /\ BlockSize \in Nat \ {0} /\ ObjectRange \subseteq Nat

VARIABLES
    platform,   \* "x86" or "avr"
    bitmap,     \* blocks in use
    header,     \* what the bytes at the start of a block read as, as a header
    objects,    \* ghost: start block and size of the objects callers hold
    panicked    \* kernel_crashout was called

heapVars == <<platform, bitmap, header, objects, panicked>>

Blocks == 0..(BlockCount - 1)
KMALLOC_NULL == -1
NotAHeader == [magic |-> FALSE, size |-> 0]
HeaderOf(size) == [magic |-> TRUE, size |-> size]

kmalloc_blocks_required(total) == (total + BlockSize - 1) \div BlockSize
BlocksFor(size) == kmalloc_blocks_required(size + 1)
Span(start, size) == start..(start + BlocksFor(size) - 1)

(* heap_init, on either port.                                              *)
KHeapInit ==
    /\ platform \in {"x86", "avr"}
    /\ bitmap = {}
    /\ header = [b \in Blocks |-> NotAHeader]
    /\ objects = {}
    /\ panicked = FALSE

(* Where the search for consecutive free blocks ends: the first fit.       *)
Fits(n) == {s \in Reserved..(BlockCount - n) : (s..(s + n - 1)) \cap bitmap = {}}

Take(start, size) ==
    /\ bitmap' = bitmap \cup Span(start, size)
    /\ header' = [header EXCEPT ![start] = HeaderOf(size)]
    /\ objects' = objects \cup {<<start, size>>}
    /\ UNCHANGED <<platform, panicked>>

(* x86: a request that could never fit returns NULL, one that does not fit *)
(* now stops the kernel.                                                   *)
kmalloc_unlocked(size) ==
    /\ platform = "x86" /\ ~panicked
    /\ size # 0 /\ BlocksFor(size) <= BlockCount - Reserved
    /\ \/ /\ Fits(BlocksFor(size)) # {}
          /\ Take(Min(Fits(BlocksFor(size))), size)
       \/ /\ Fits(BlocksFor(size)) = {}
          /\ panicked' = TRUE
          /\ UNCHANGED <<platform, bitmap, header, objects>>

(* AVR: NULL in both cases.                                                *)
kmalloc(size) ==
    /\ platform = "avr"
    /\ size # 0 /\ BlocksFor(size) <= BlockCount - Reserved
    /\ Fits(BlocksFor(size)) # {}
    /\ Take(Min(Fits(BlocksFor(size))), size)

(* An address is good if what lies in front of it reads as a header.       *)
kmalloc_is_valid(start) ==
    /\ start \in Reserved..(BlockCount - 1)
    /\ header[start].magic /\ header[start].size # 0
    /\ start + BlocksFor(header[start].size) <= BlockCount

Wipe(start) ==
    /\ bitmap' = bitmap \ Span(start, header[start].size)
    /\ header' = [header EXCEPT ![start] = NotAHeader]

(* Callers free what they hold.                                            *)
kfree_unlocked(start) ==
    /\ platform = "x86" /\ ~panicked
    /\ kmalloc_is_valid(start)
    /\ Wipe(start)
    /\ objects' = {o \in objects : o[1] # start}
    /\ UNCHANGED <<platform, panicked>>

kfree(start) ==
    /\ platform = "avr"
    /\ kmalloc_is_valid(start)
    /\ Wipe(start)
    /\ objects' = {o \in objects : o[1] # start}
    /\ UNCHANGED <<platform, panicked>>

(* kmem_write, kmemset: an owner fills a block of its object, behind the   *)
(* header, with bytes that read as a header or with others.                *)
kmem_write(start, size, b) ==
    /\ ~panicked /\ b \in Span(start, size) \ {start}
    /\ \E s \in ObjectRange : header' \in {[header EXCEPT ![b] = HeaderOf(s)],
                                           [header EXCEPT ![b] = NotAHeader]}
    /\ UNCHANGED <<platform, bitmap, objects, panicked>>

KHeapNext ==
    \/ \E size \in ObjectRange : kmalloc_unlocked(size) \/ kmalloc(size)
    \/ \E o \in objects : \/ kfree_unlocked(o[1]) \/ kfree(o[1])
                          \/ \E b \in Blocks : kmem_write(o[1], o[2], b)

KHeapSpec == KHeapInit /\ [][KHeapNext]_heapVars
-----------------------------------------------------------------------------
FromNextBlock(start) == start + 1   \* variant: the object is not skipped

(* Where the walk goes on after the object at start.                       *)
Behind(start) == start + BlocksFor(header[start].size)

(* Blocks in use that read as the start of an object.                      *)
Found(from) == {b \in from..(BlockCount - 1) :
                  b \in bitmap /\ header[b].magic /\ header[b].size # 0}

kmalloc_next(start) ==
    LET found == Found(IF start = KMALLOC_NULL THEN Reserved ELSE Behind(start))
    IN  IF found = {} THEN KMALLOC_NULL ELSE Min(found)

(* Objects do not overlap, the bitmap has exactly their blocks, and the    *)
(* walk from NULL with kmalloc_next meets each of them once, in order,     *)
(* although what callers wrote into the pool looks like headers.           *)
HeapWalkExact ==
    /\ \A o, p \in objects : o # p => Span(o[1], o[2]) \cap Span(p[1], p[2]) = {}
    /\ bitmap = UNION {Span(o[1], o[2]) : o \in objects}
    /\ bitmap \cap 0..(Reserved - 1) = {}
    /\ LET starts == {o[1] : o \in objects}
           after(b) == {s \in starts : s > b}
           first(S) == IF S = {} THEN KMALLOC_NULL ELSE Min(S)
       IN  /\ kmalloc_next(KMALLOC_NULL) = first(starts)
           /\ \A o \in objects : /\ kmalloc_is_valid(o[1])
                                 /\ header[o[1]] = HeaderOf(o[2])
                                 /\ kmalloc_next(o[1]) = first(after(o[1]))
=============================================================================
