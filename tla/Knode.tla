-------------------------------- MODULE Knode --------------------------------
(***************************************************************************)
(* Kernel nodes (knode.c): the directories of the kernel's own tree, kept  *)
(* in the kernel object heap.  A directory has room for a few references   *)
(* and a doubly linked chain of extents for more.                          *)
(*                                                                         *)
(* An address is a number; 0 and NO_NODE are no address.  The heap is      *)
(* a function from the addresses in use, and has room (kmalloc stops the   *)
(* kernel otherwise); names are left to VFS.                               *)
(***************************************************************************)
EXTENDS Integers, Sequences, FiniteSets, FiniteSetsExt, SequencesExt

CONSTANTS
    Addresses,              \* 1 .. n: what kmalloc may return
    KDIRECTORY_REF_MAX,
    KDIRECTORYEX_REF_MAX

ASSUME KnodeAssumption ==
    /\ Addresses \subseteq Nat \ {0} /\ IsFiniteSet(Addresses)
    /\ KDIRECTORY_REF_MAX \in Nat \ {0} /\ KDIRECTORYEX_REF_MAX \in Nat \ {0}

VARIABLES
    heap,       \* address -> directory, extent or other object
    added,      \* ghost: directory -> what was added to it and not removed
    lost        \* ghost: extents whose directory was destroyed

knodeVars == <<heap, added, lost>>

NO_NODE == -1
Root == 1       \* knode_root: the first node made

Directory(parent) ==
    [kind |-> "directory", parent |-> parent, next |-> 0, prev |-> 0, refs |-> <<>>]
Extent(prev, refs) == [kind |-> "extent", next |-> 0, prev |-> prev, refs |-> refs]
Object == [kind |-> "object"]

KnodeInit ==
    /\ heap = [a \in {Root} |-> Directory(0)]
    /\ added = [d \in {Root} |-> {}]
    /\ lost = {}

knode_is_valid_address(h, a) == a \in DOMAIN h /\ h[a].kind = "directory"

Put(h, a, o) == [x \in DOMAIN h \cup {a} |-> IF x = a THEN o ELSE h[x]]
kfree_node(h, a) == [x \in DOMAIN h \ {a} |-> h[x]]

(* kmalloc takes the lowest address that is free.                          *)
Fresh(h) == Min(Addresses \ DOMAIN h)
HasRoom(h, n) == Cardinality(Addresses \ DOMAIN h) >= n

-----------------------------------------------------------------------------
(* The extents of a directory: the walk is at at[i] after i steps and ends *)
(* at the first null link.                                                 *)
Extents(h, d) ==
    LET at[i \in Nat] == IF i = 0 THEN h[d].next
                         ELSE IF at[i - 1] = 0 THEN 0 ELSE h[at[i - 1]].next
        steps == Min({i \in 0..Cardinality(DOMAIN h) : at[i] = 0})
    IN  [i \in 1..steps |-> at[i - 1]]

References(h, d) ==
    h[d].refs \o FlattenSeq([i \in 1..Len(Extents(h, d)) |-> h[Extents(h, d)[i]].refs])

knode_contains_reference_address(h, d, r) ==
    knode_is_valid_address(h, d) /\ Contains(References(h, d), r)

knode_get_reference(h, d, index) ==
    IF knode_is_valid_address(h, d) /\ index < Len(References(h, d))
    THEN References(h, d)[index + 1] ELSE NO_NODE

knode_get_reference_count(h, d) ==
    IF knode_is_valid_address(h, d) THEN Len(References(h, d)) ELSE NO_NODE

KeepsOldLast(h, d, last, e) ==  \* variant: directory.prev is not moved
    IF last = 0 THEN [h EXCEPT ![d].next = e] ELSE [h EXCEPT ![last].next = e]

(* A new extent e goes behind the last one.                                *)
LinkExtent(h, d, last, e) ==
    IF last = 0 THEN [h EXCEPT ![d].next = e, ![d].prev = e]
    ELSE [h EXCEPT ![last].next = e, ![d].prev = e]

(* The first place with room: the directory, an extent, a new extent.      *)
knode_add_reference(h, d, r) ==
    LET exts == Extents(h, d)
        room == {i \in 1..Len(exts) : Len(h[exts[i]].refs) < KDIRECTORYEX_REF_MAX}
        last == IF exts = <<>> THEN 0 ELSE Last(exts)
        e == Fresh(h)
    IN  IF ~knode_is_valid_address(h, d) \/ knode_contains_reference_address(h, d, r) THEN h
        ELSE IF Len(h[d].refs) < KDIRECTORY_REF_MAX
        THEN [h EXCEPT ![d].refs = Append(@, r)]
        ELSE IF room # {} THEN [h EXCEPT ![exts[Min(room)]].refs = Append(@, r)]
        ELSE LinkExtent(Put(h, e, Extent(last, <<r>>)), d, last, e)

(* An empty extent e is taken out of the chain.                            *)
Unlink(h, d, e) ==
    LET prev == h[e].prev
        next == h[e].next
        front == IF prev # 0 THEN [h EXCEPT ![prev].next = next]
                 ELSE [h EXCEPT ![d].next = next]
        back == IF next # 0 THEN [front EXCEPT ![next].prev = prev]
                ELSE [front EXCEPT ![d].prev = prev]
    IN  IF back[d].next = 0 THEN [back EXCEPT ![d].prev = 0] ELSE back

knode_remove_reference(h, d, r) ==
    LET exts == Extents(h, d)
        home == {i \in 1..Len(exts) : Contains(h[exts[i]].refs, r)}
        e == exts[Min(home)]
        cut == [h EXCEPT ![e].refs = RemoveFirst(@, r)]
    IN  IF ~knode_is_valid_address(h, d) THEN h
        ELSE IF Contains(h[d].refs, r) THEN [h EXCEPT ![d].refs = RemoveFirst(@, r)]
        ELSE IF home = {} THEN h
        ELSE IF cut[e].refs = <<>> THEN kfree_node(Unlink(cut, d, e), e) ELSE cut

-----------------------------------------------------------------------------
create_knode(parent) ==
    /\ parent \in DOMAIN added /\ HasRoom(heap, 2)
    /\ LET a == Fresh(heap)
       IN  /\ heap' = knode_add_reference(Put(heap, a, Directory(parent)), parent, a)
           /\ added' = Put([added EXCEPT ![parent] = @ \cup {a}], a, {})
    /\ UNCHANGED lost

(* An object of the kernel (a device, a process block) is hung in a node.  *)
AddObject(d) ==
    /\ d \in DOMAIN added /\ HasRoom(heap, 2)
    /\ LET a == Fresh(heap)
       IN  /\ heap' = knode_add_reference(Put(heap, a, Object), d, a)
           /\ added' = [added EXCEPT ![d] = @ \cup {a}]
    /\ UNCHANGED lost

(* The node alone is freed: its extents and what it refers to stay.        *)
destroy_knode(a) ==
    LET parent == heap[a].parent
    IN  /\ a \in DOMAIN added \ {Root} /\ parent \in DOMAIN added
        /\ a \in added[parent]
        /\ heap' = kfree_node(knode_remove_reference(heap, parent, a), a)
        /\ added' = kfree_node([added EXCEPT ![parent] = @ \ {a}], a)
        /\ lost' = lost \cup Range(Extents(heap, a))

KnodeNext ==
    \/ \E d \in Addresses : create_knode(d) \/ AddObject(d)
    \/ \E a \in DOMAIN added : destroy_knode(a)

KnodeSpec == KnodeInit /\ [][KnodeNext]_knodeVars
-----------------------------------------------------------------------------
Linked(d) ==
    LET exts == Extents(heap, d)
    IN  /\ \A i \in 1..Len(exts) : /\ heap[exts[i]].kind = "extent"
                                   /\ heap[exts[i]].refs # <<>>
                                   /\ heap[exts[i]].prev = IF i = 1 THEN 0 ELSE exts[i - 1]
        /\ heap[d].prev = IF exts = <<>> THEN 0 ELSE Last(exts)

(* Whatever was added and removed, in whatever order, a directory lists    *)
(* exactly what it holds, each once; its chain of extents is linked both   *)
(* ways, has no empty extent and shares none; and no extent is lost but    *)
(* those of a directory that was destroyed with them.                      *)
KnodeListsExact ==
    LET chains == [d \in DOMAIN added |-> Range(Extents(heap, d))]
    IN  /\ \A d \in DOMAIN added :
              /\ Range(References(heap, d)) = added[d]
              /\ IsInjective(References(heap, d))
              /\ Linked(d)
        /\ \A c, d \in DOMAIN added : c # d => chains[c] \cap chains[d] = {}
        /\ {a \in DOMAIN heap : heap[a].kind = "extent"} =
               (UNION {chains[d] : d \in DOMAIN added}) \cup lost
=============================================================================
