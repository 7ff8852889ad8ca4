----------------------------- MODULE MemoryProofs -----------------------------
(***************************************************************************)
(* Proofs about the two allocators and the tree of nodes kept in the       *)
(* kernel's heap.  Memory: for any number of pages and frames, any page    *)
(* size, any object sizes, stack size and requests.  KHeap: for any number *)
(* of blocks, block size and sizes of objects, on either port.  Knode: for *)
(* any number of addresses and of references to a directory or an extent.  *)
(***************************************************************************)
EXTENDS Memory, KHeap, Knode, ListProofs, FiniteSetTheorems

FrameSet == 0..(Frames - 1)
SlabHeader == [kind : {"slab"}, cache : Caches, num_allocated : Nat, free_list : Seq(Nat \ {0})]
LargeHeader == [kind : {"large"}, num_pages : Nat]

Memories == [pmm : SUBSET FrameSet, virt : SUBSET PageSet, pte : [PageSet -> -1..Frames],
             head : [PageSet -> SlabHeader \cup LargeHeader \cup {NoHeader}],
             list : [Caches -> Seq(PageSet)], crashed : BOOLEAN]

Run(start, n) == start..(start + n - 1)

-----------------------------------------------------------------------------
(***************************************************************************)
(* Pages and frames.  T are the guard pages, L the frames that belong to   *)
(* no page any more and are not given back yet.                            *)
(***************************************************************************)
Mapped(m) == {p \in PageSet : m.pte[p] # Unmapped /\ m.pte[p] # Device}

FramesOK(m, T, L) ==
    /\ m.pmm = {m.pte[p] : p \in Mapped(m)} \cup L
    /\ \A p, q \in Mapped(m) : m.pte[p] = m.pte[q] => p = q
    /\ \A p \in Mapped(m) : m.pte[p] \notin L
    /\ m.virt = {p \in PageSet : m.pte[p] # Unmapped} \cup T

(* f is what is left of m when the n pages from start are freed.           *)
FreedPages(m, f, start, n, T, L) ==
    /\ f \in Memories /\ FramesOK(f, T \ Run(start, n), L)
    /\ f.list = m.list /\ f.crashed = m.crashed
    /\ f.virt = m.virt \ Run(start, n)
    /\ \A p \in PageSet \ Run(start, n) : f.pte[p] = m.pte[p] /\ f.head[p] = m.head[p]

(* Freeing a run of pages gives back its frames and touches no other page. *)
LEMMA FreePagesOK ==
    ASSUME NEW m \in Memories, NEW T, NEW L, FramesOK(m, T, L),
           NEW start \in Int, NEW n \in Int, Run(start, n) \subseteq PageSet
    PROVE  FreedPages(m, vmm_free_pages(m, start, n), start, n, T, L)
<1> DEFINE R == Run(start, n)
           freed == {m.pte[p] : p \in R} \ {Unmapped}
           f == vmm_free_pages(m, start, n)
<1>1. f = [m EXCEPT !.pmm = @ \ (freed \cap 0..(Frames - 1)),
                    !.virt = @ \ R,
                    !.head = [p \in PageSet |-> IF p \in R THEN NoHeader ELSE @[p]],
                    !.pte = [p \in PageSet |-> IF p \in R THEN Unmapped ELSE @[p]]]
    BY DEF vmm_free_pages, Run
<1>2. /\ f.pmm = m.pmm \ (freed \cap 0..(Frames - 1))
      /\ f.virt = m.virt \ R
      /\ f.head = [p \in PageSet |-> IF p \in R THEN NoHeader ELSE m.head[p]]
      /\ f.pte = [p \in PageSet |-> IF p \in R THEN Unmapped ELSE m.pte[p]]
      /\ f.list = m.list /\ f.crashed = m.crashed
    BY <1>1 DEF Memories
<1>3. Unmapped \in -1..Frames
    BY MemoryAssumption DEF Unmapped
<1>4. f \in Memories
  <2>1. /\ m.pmm \subseteq FrameSet /\ m.virt \subseteq PageSet
        /\ m.pte \in [PageSet -> -1..Frames]
        /\ m.head \in [PageSet -> SlabHeader \cup LargeHeader \cup {NoHeader}]
    BY DEF Memories
  <2>2. f.pte \in [PageSet -> -1..Frames]
    BY <1>2, <1>3, <2>1
  <2>3. f.head \in [PageSet -> SlabHeader \cup LargeHeader \cup {NoHeader}]
    BY <1>2, <2>1
  <2>4. f.pmm \subseteq FrameSet /\ f.virt \subseteq PageSet
    BY <1>2, <2>1
  <2>5. f = [pmm |-> f.pmm, virt |-> f.virt, pte |-> f.pte, head |-> f.head,
             list |-> f.list, crashed |-> f.crashed]
    BY <1>1 DEF Memories
  <2>6. f.list \in [Caches -> Seq(PageSet)] /\ f.crashed \in BOOLEAN
    BY <1>2 DEF Memories
  <2> QED BY <2>2, <2>3, <2>4, <2>5, <2>6 DEF Memories
<1>5. \A p \in PageSet \ R : f.pte[p] = m.pte[p] /\ f.head[p] = m.head[p]
    BY <1>2
<1>6. \A p \in PageSet : p \in R => f.pte[p] = Unmapped
    BY <1>2
<1>7. Mapped(f) = Mapped(m) \ R
    BY <1>5, <1>6 DEF Mapped
<1>8. \A p \in Mapped(m) : m.pte[p] \in 0..(Frames - 1)
    BY MemoryAssumption DEF Mapped, Memories, Unmapped, Device
<1>9. FramesOK(f, T \ R, L)
  <2>1. f.pmm = {f.pte[p] : p \in Mapped(f)} \cup L
    <3>1. ASSUME NEW x \in m.pmm, x \notin freed PROVE x \in {f.pte[p] : p \in Mapped(f)} \cup L
      <4>1. CASE x \in L
        BY <4>1
      <4>2. CASE x \notin L
        <5>1. PICK p \in Mapped(m) : x = m.pte[p]
          BY <4>2, <3>1 DEF FramesOK
        <5>2. p \notin R
          BY <5>1, <3>1 DEF Mapped
        <5>3. p \in Mapped(f) /\ f.pte[p] = x
          BY <5>1, <5>2, <1>5, <1>7 DEF Mapped
        <5> QED BY <5>3
      <4> QED BY <4>1, <4>2
    <3>2. ASSUME NEW p \in Mapped(f)
          PROVE  f.pte[p] \in m.pmm /\ f.pte[p] \notin freed
      <4>1. p \in Mapped(m) /\ p \notin R /\ f.pte[p] = m.pte[p]
        BY <1>5, <1>7 DEF Mapped
      <4>2. ASSUME NEW q \in R, m.pte[q] = m.pte[p] PROVE FALSE
        <5>1. q \in Mapped(m)
          BY <4>1, <4>2 DEF Mapped
        <5> QED BY <4>1, <4>2, <5>1 DEF FramesOK
      <4> QED BY <4>1, <4>2 DEF FramesOK
    <3>3. ASSUME NEW x \in L PROVE x \in m.pmm /\ (x \in freed => x \notin 0..(Frames - 1))
      <4>1. x \in m.pmm
        BY DEF FramesOK
      <4>2. ASSUME x \in freed, x \in 0..(Frames - 1) PROVE FALSE
        <5>1. PICK q \in R : x = m.pte[q]
          BY <4>2
        <5>2. q \in Mapped(m)
          BY <5>1, <4>2, MemoryAssumption DEF Mapped, Unmapped, Device
        <5> QED BY <5>1, <5>2 DEF FramesOK
      <4> QED BY <4>1, <4>2
    <3>4. m.pmm \subseteq 0..(Frames - 1)
      BY DEF Memories, FrameSet
    <3> QED BY <1>2, <3>1, <3>2, <3>3, <3>4
  <2>2. \A p, q \in Mapped(f) : f.pte[p] = f.pte[q] => p = q
    BY <1>5, <1>7 DEF FramesOK, Mapped
  <2>3. \A p \in Mapped(f) : f.pte[p] \notin L
    BY <1>5, <1>7 DEF FramesOK, Mapped
  <2>4. f.virt = {p \in PageSet : f.pte[p] # Unmapped} \cup (T \ R)
    BY <1>2, <1>5, <1>6 DEF FramesOK
  <2> QED BY <2>1, <2>2, <2>3, <2>4 DEF FramesOK
<1> HIDE DEF f
<1>10. FreedPages(m, f, start, n, T, L)
    BY <1>2, <1>4, <1>5, <1>9 DEF FreedPages
<1> QED BY <1>10 DEF f

(* A set of small numbers is finite.                                       *)
LEMMA SmallNumbersFinite ==
    ASSUME NEW F \in Nat, NEW S \in SUBSET (0..(F - 1))
    PROVE  IsFiniteSet(S) /\ Cardinality(S) \in Nat
<1>1. IsFiniteSet(0..(F - 1))
  <2>1. 0 \in Int /\ F - 1 \in Int
    OBVIOUS
  <2> QED BY <2>1, FS_Interval
<1>2. IsFiniteSet(S)
    BY <1>1, FS_Subset
<1> QED BY <1>2, FS_CardinalityType

(* Counting upwards through a set of numbers meets every rank once.        *)
LEMMA RankExists ==
    ASSUME NEW F \in Nat, NEW S \in SUBSET (0..(F - 1)), NEW i \in 1..Cardinality(S)
    PROVE  \E f \in S : Cardinality({g \in S : g < f}) = i - 1
<1> DEFINE Below(x) == {g \in S : g < x}
           c(x) == Cardinality(Below(x))
           T == {x \in Nat : c(x) >= i}
<1>0. \A g \in S : g \in Nat /\ g < F
    OBVIOUS
<1>1. IsFiniteSet(S) /\ Cardinality(S) \in Nat
    BY SmallNumbersFinite
<1>2. ASSUME NEW x \in Nat PROVE IsFiniteSet(Below(x)) /\ c(x) \in Nat
  <2>1. Below(x) \in SUBSET S
    OBVIOUS
  <2>2. IsFiniteSet(Below(x))
    BY <1>1, <2>1, FS_Subset
  <2> QED BY <2>2, FS_CardinalityType
<1>3. Below(F) = S
    BY <1>0
<1>4. i \in Nat /\ i >= 1
    BY <1>1
<1>5. c(0) = 0
  <2>1. ASSUME NEW g \in Below(0) PROVE FALSE
    <3>1. g \in S /\ g < 0
      OBVIOUS
    <3> QED BY <1>0, <3>1
  <2>2. Below(0) = {}
    BY <2>1
  <2> HIDE DEF Below
  <2> QED BY <2>2, FS_EmptySet
<1>6. ASSUME NEW y \in Nat
      PROVE  c(y + 1) = IF y \in S THEN c(y) + 1 ELSE c(y)
  <2>1. CASE y \in S
    <3>1. Below(y + 1) = Below(y) \cup {y} /\ y \notin Below(y)
      <4>1. ASSUME NEW g \in S PROVE g < y + 1 <=> (g < y \/ g = y)
        <5>1. g \in Nat
          BY <1>0
        <5> QED BY <5>1
      <4>2. y < y + 1 /\ ~(y < y)
        OBVIOUS
      <4>3. Below(y + 1) \subseteq Below(y) \cup {y}
        BY <4>1
      <4>4. Below(y) \cup {y} \subseteq Below(y + 1)
        BY <2>1, <4>1, <4>2
      <4>5. y \notin Below(y)
        BY <4>2
      <4> QED BY <4>3, <4>4, <4>5
    <3>2. IsFiniteSet(Below(y))
      BY <1>2
    <3> HIDE DEF Below
    <3> QED BY <2>1, <3>1, <3>2, FS_AddElement
  <2>2. CASE y \notin S
    <3>1. Below(y + 1) = Below(y)
      <4>1. \A g \in S : g < y + 1 <=> g < y
        BY <1>0, <2>2
      <4> QED BY <4>1
    <3> HIDE DEF Below
    <3> QED BY <2>2, <3>1
  <2> QED BY <2>1, <2>2
<1>7. c(F) = Cardinality(S)
    BY <1>3
<1>20. ASSUME NEW x \in Nat PROVE c(x) \in Nat
    BY <1>2
<1> HIDE DEF c
<1>8. F \in T /\ T \subseteq Nat
    BY <1>1, <1>7
<1>9. PICK x \in T : \A y \in T : x <= y
    BY <1>8, NatMin
<1>10. x \in Nat /\ x # 0 /\ c(x) >= i
    BY <1>4, <1>5, <1>9
<1> DEFINE y == x - 1
<1>11. y \in Nat /\ y + 1 = x
    BY <1>10
<1> HIDE DEF y
<1>12. ~(c(y) >= i)
    BY <1>9, <1>10, <1>11
<1>13. y \in S /\ c(y) = i - 1
  <2>1. c(y + 1) >= i
    BY <1>10, <1>11
  <2>2. c(y) \in Nat /\ i \in Nat /\ c(y + 1) = IF y \in S THEN c(y) + 1 ELSE c(y)
    BY <1>20, <1>4, <1>6, <1>11
  <2> QED BY <1>12, <2>1, <2>2
<1> QED BY <1>13 DEF c

(* Successive calls of pmm_alloc_frame return different free frames.       *)
LEMMA AllocFramesOK ==
    ASSUME NEW m, NEW n \in 0..Cardinality(FreeFrames(m))
    PROVE  /\ \A i \in 1..n : pmm_alloc_frame(m, i) \in FreeFrames(m)
           /\ \A i, j \in 1..n : pmm_alloc_frame(m, i) = pmm_alloc_frame(m, j) => i = j
<1>1. FreeFrames(m) \in SUBSET (0..(Frames - 1)) /\ Frames \in Nat
    BY MemoryAssumption DEF FreeFrames
<1>2. Cardinality(FreeFrames(m)) \in Nat
    BY <1>1, SmallNumbersFinite
<1>3. ASSUME NEW i \in 1..n
      PROVE  /\ pmm_alloc_frame(m, i) \in FreeFrames(m)
             /\ Cardinality({g \in FreeFrames(m) : g < pmm_alloc_frame(m, i)}) = i - 1
  <2>1. \E f \in FreeFrames(m) : Cardinality({g \in FreeFrames(m) : g < f}) = i - 1
    <3>1. i \in 1..Cardinality(FreeFrames(m))
      BY <1>2
    <3> QED BY <1>1, <3>1, RankExists
  <2> QED BY <2>1 DEF pmm_alloc_frame
<1>4. ASSUME NEW i \in 1..n, NEW j \in 1..n, pmm_alloc_frame(m, i) = pmm_alloc_frame(m, j)
      PROVE  i = j
  <2>1. i - 1 = j - 1
    BY <1>3, <1>4
  <2> QED BY <2>1
<1> QED BY <1>3, <1>4

(* Mapping a free run gives each of its pages a frame of its own.          *)
LEMMA MapPagesOK ==
    ASSUME NEW m \in Memories, NEW T, NEW L, FramesOK(m, T, L),
           NEW start \in Int, NEW n \in 0..Cardinality(FreeFrames(m)),
           Run(start, n) \subseteq PageSet, Run(start, n) \cap m.virt = {}
    PROVE  LET f == MapPages(m, start, n)
           IN  /\ f \in Memories /\ FramesOK(f, T, L)
               /\ f.list = m.list /\ f.crashed = m.crashed /\ f.head = m.head
               /\ f.virt = m.virt \cup Run(start, n)
               /\ \A p \in Run(start, n) : f.pte[p] \in FrameSet
               /\ \A p \in PageSet \ Run(start, n) : f.pte[p] = m.pte[p]
<1> DEFINE R == Run(start, n)
           fr(p) == pmm_alloc_frame(m, p - start + 1)
           f == MapPages(m, start, n)
<1>0. n \in Nat
    OBVIOUS
<1>1. f = [m EXCEPT !.pmm = @ \cup {fr(p) : p \in R},
                    !.virt = @ \cup R,
                    !.pte = [p \in PageSet |-> IF p \in R THEN fr(p) ELSE @[p]]]
    BY DEF MapPages, Run
<1>2. /\ f.pmm = m.pmm \cup {fr(p) : p \in R}
      /\ f.virt = m.virt \cup R
      /\ f.pte = [p \in PageSet |-> IF p \in R THEN fr(p) ELSE m.pte[p]]
      /\ f.list = m.list /\ f.crashed = m.crashed /\ f.head = m.head
    BY <1>1 DEF Memories
<1>3. \A p \in R : fr(p) \in FrameSet \ m.pmm
  <2>1. \A p \in R : p - start + 1 \in 1..n
    BY <1>0 DEF Run
  <2> QED BY <2>1, AllocFramesOK DEF FreeFrames, FrameSet
<1>4. \A p, q \in R : fr(p) = fr(q) => p = q
  <2>1. SUFFICES ASSUME NEW p \in R, NEW q \in R, fr(p) = fr(q) PROVE p = q
    OBVIOUS
  <2>2. p \in Int /\ q \in Int /\ p - start + 1 \in 1..n /\ q - start + 1 \in 1..n
    BY <1>0 DEF Run
  <2>3. p - start + 1 = q - start + 1
    BY <2>1, <2>2, AllocFramesOK
  <2> QED BY <2>2, <2>3
<1>5. FrameSet \subseteq -1..Frames /\ Unmapped \notin FrameSet /\ Device \notin FrameSet
    BY MemoryAssumption DEF FrameSet, Unmapped, Device
<1> HIDE DEF fr, f
<1>6. f \in Memories
  <2>1. /\ m.pmm \subseteq FrameSet /\ m.virt \subseteq PageSet
        /\ m.pte \in [PageSet -> -1..Frames]
    BY DEF Memories
  <2>2. f.pte \in [PageSet -> -1..Frames]
    BY <1>2, <1>3, <1>5, <2>1
  <2>4. f.pmm \subseteq FrameSet /\ f.virt \subseteq PageSet
    BY <1>2, <1>3, <2>1
  <2>5. f = [pmm |-> f.pmm, virt |-> f.virt, pte |-> f.pte, head |-> f.head,
             list |-> f.list, crashed |-> f.crashed]
    BY <1>1 DEF Memories
  <2>6. /\ f.list \in [Caches -> Seq(PageSet)] /\ f.crashed \in BOOLEAN
        /\ f.head \in [PageSet -> SlabHeader \cup LargeHeader \cup {NoHeader}]
    BY <1>2 DEF Memories
  <2> QED BY <2>2, <2>4, <2>5, <2>6 DEF Memories
<1>7. /\ \A p \in R : f.pte[p] = fr(p) /\ f.pte[p] \in FrameSet
      /\ \A p \in PageSet \ R : f.pte[p] = m.pte[p]
    BY <1>2, <1>3
<1>8. \A p \in R : m.pte[p] = Unmapped
    BY DEF FramesOK
<1>9. Mapped(f) = Mapped(m) \cup R
    BY <1>5, <1>7 DEF Mapped
<1>10. Mapped(m) \cap R = {}
    BY <1>8 DEF Mapped
<1>11. FramesOK(f, T, L)
  <2>1. f.pmm = {f.pte[p] : p \in Mapped(f)} \cup L
    <3>1. \A p \in Mapped(m) : f.pte[p] = m.pte[p] /\ p \in Mapped(f)
      BY <1>7, <1>9, <1>10 DEF Mapped
    <3>2. {f.pte[p] : p \in Mapped(f)} = {m.pte[p] : p \in Mapped(m)} \cup {fr(p) : p \in R}
      BY <1>7, <1>9, <3>1
    <3> QED BY <1>2, <3>2 DEF FramesOK
  <2>2. ASSUME NEW p \in Mapped(f), NEW q \in Mapped(f), f.pte[p] = f.pte[q] PROVE p = q
    <3>1. \A x \in Mapped(m) : m.pte[x] \in m.pmm /\ f.pte[x] = m.pte[x]
      BY <1>7, <1>10 DEF FramesOK, Mapped
    <3> QED BY <1>3, <1>4, <1>7, <1>9, <2>2, <3>1 DEF FramesOK
  <2>3. \A p \in Mapped(f) : f.pte[p] \notin L
    <3>1. L \subseteq m.pmm
      BY DEF FramesOK
    <3> QED BY <1>3, <1>7, <1>9, <1>10, <3>1 DEF FramesOK, Mapped
  <2>4. f.virt = {p \in PageSet : f.pte[p] # Unmapped} \cup T
    BY <1>2, <1>5, <1>7 DEF FramesOK
  <2> QED BY <2>1, <2>2, <2>3, <2>4 DEF FramesOK
<1> QED BY <1>2, <1>6, <1>7, <1>11 DEF f

(* What an allocation leaves alone: every page in use and every list.      *)
Grown(m, f) ==
    /\ f.list = m.list
    /\ m.virt \subseteq f.virt
    /\ \A p \in m.virt : f.pte[p] = m.pte[p] /\ f.head[p] = m.head[p]

(* vmm_alloc_pages maps a run that was free, or stops the kernel with      *)
(* everything as it was.                                                   *)
LEMMA AllocPagesOK ==
    ASSUME NEW m \in Memories, NEW T, NEW L, FramesOK(m, T, L), NEW n \in Nat
    PROVE  LET a == vmm_alloc_pages(m, n)
           IN  /\ a = [m |-> a.m, page |-> a.page]
               /\ a.m \in Memories /\ FramesOK(a.m, T, L) /\ Grown(m, a.m)
               /\ \/ a.page = -1
                  \/ /\ a.page \in PageSet /\ Run(a.page, n) \subseteq PageSet
                     /\ Run(a.page, n) \cap m.virt = {}
                     /\ Run(a.page, n) \subseteq a.m.virt
                     /\ \A p \in Run(a.page, n) : a.m.pte[p] \in FrameSet
<1> DEFINE start == find_contiguous_bits(m.virt, n)
           have == Cardinality(FreeFrames(m))
           a == vmm_alloc_pages(m, n)
           fits == {s \in PageSet : s + n <= Pages /\ (s..(s + n - 1)) \cap m.virt = {}}
<1>0. m.virt \subseteq PageSet /\ PageSet \subseteq Nat /\ Pages \in Nat
    BY MemoryAssumption DEF Memories, PageSet
<1>1. have \in Nat
  <2>1. FreeFrames(m) \in SUBSET (0..(Frames - 1)) /\ Frames \in Nat
    BY MemoryAssumption DEF FreeFrames
  <2> QED BY <2>1, SmallNumbersFinite
<1>2. start = -1 \/ start \in fits
    BY <1>0, MinExists DEF find_contiguous_bits
<1>3. ASSUME NEW k \in Int, k <= n, start # -1
      PROVE  /\ start \in PageSet /\ Run(start, k) \subseteq PageSet
             /\ Run(start, k) \cap m.virt = {}
  <2>1. start \in fits
    BY <1>2, <1>3
  <2>2. start \in Nat /\ start + n <= Pages /\ start \in PageSet
        /\ (start..(start + n - 1)) \cap m.virt = {}
    BY <1>0, <2>1
  <2>3. Run(start, k) \subseteq start..(start + n - 1)
    BY <1>3, <2>2 DEF Run
  <2>4. start..(start + n - 1) \subseteq PageSet
    BY <1>0, <2>2 DEF PageSet
  <2> QED BY <2>2, <2>3, <2>4
<1>4. ASSUME NEW f \in Memories
      PROVE  /\ [f EXCEPT !.crashed = TRUE] \in Memories
             /\ FramesOK(f, T, L) => FramesOK([f EXCEPT !.crashed = TRUE], T, L)
             /\ Grown(m, f) => Grown(m, [f EXCEPT !.crashed = TRUE])
  <2>1. [f EXCEPT !.crashed = TRUE] \in Memories
    BY DEF Memories
  <2>2. /\ [f EXCEPT !.crashed = TRUE].pmm = f.pmm /\ [f EXCEPT !.crashed = TRUE].virt = f.virt
        /\ [f EXCEPT !.crashed = TRUE].pte = f.pte /\ [f EXCEPT !.crashed = TRUE].head = f.head
        /\ [f EXCEPT !.crashed = TRUE].list = f.list
    BY DEF Memories
  <2> QED BY <2>1, <2>2 DEF FramesOK, Mapped, Grown
<1>5. CASE start = -1
  <2>1. a = [m |-> [m EXCEPT !.crashed = TRUE], page |-> -1]
    BY <1>5 DEF vmm_alloc_pages
  <2>2. Grown(m, m)
    BY DEF Grown
  <2> QED BY <1>4, <2>1, <2>2
<1>6. CASE start # -1 /\ have < n
  <2> DEFINE g == MapPages(m, start, have)
             f == vmm_free_pages(g, start, have)
  <2>1. a = [m |-> [f EXCEPT !.crashed = TRUE], page |-> -1]
    BY <1>6 DEF vmm_alloc_pages
  <2>2. /\ start \in PageSet /\ Run(start, have) \subseteq PageSet
        /\ Run(start, have) \cap m.virt = {} /\ start \in Int /\ have \in 0..have
    <3>1. have \in Int /\ have <= n /\ have \in 0..have
      BY <1>1, <1>6
    <3>2. start \in PageSet /\ Run(start, have) \subseteq PageSet /\ Run(start, have) \cap m.virt = {}
      BY <1>3, <1>6, <3>1
    <3>3. start \in Int
      <4>1. start \in Nat
        BY <1>0, <3>2, Zenon
      <4> QED BY <4>1
    <3> QED BY <3>1, <3>2, <3>3
  <2>3. /\ g \in Memories /\ FramesOK(g, T, L) /\ g.list = m.list /\ g.head = m.head
        /\ g.virt = m.virt \cup Run(start, have)
        /\ \A p \in PageSet \ Run(start, have) : g.pte[p] = m.pte[p]
    BY <2>2, MapPagesOK
  <2> HIDE DEF g
  <2>4. /\ f \in Memories /\ FramesOK(f, T \ Run(start, have), L)
        /\ f.list = g.list /\ f.virt = g.virt \ Run(start, have)
        /\ \A p \in PageSet \ Run(start, have) : f.pte[p] = g.pte[p] /\ f.head[p] = g.head[p]
    BY <1>1, <2>2, <2>3, FreePagesOK DEF FreedPages
  <2> HIDE DEF f
  <2>5. T \ Run(start, have) = T
    BY <2>2 DEF FramesOK
  <2>6. Grown(m, f)
    <3>1. \A p \in m.virt : p \in PageSet /\ p \notin Run(start, have)
      BY <1>0, <2>2
    <3> HIDE DEF start, have
    <3> QED BY <2>3, <2>4, <3>1 DEF Grown
  <2> QED BY <1>4, <2>1, <2>4, <2>5, <2>6
<1>7. CASE start # -1 /\ ~(have < n)
  <2> DEFINE f == MapPages(m, start, n)
  <2>1. a = [m |-> f, page |-> start]
    BY <1>7 DEF vmm_alloc_pages
  <2>2. /\ start \in PageSet /\ Run(start, n) \subseteq PageSet
        /\ Run(start, n) \cap m.virt = {} /\ start \in Int /\ n \in 0..have
    <3>1. n \in Int /\ n <= n /\ n \in 0..have
      BY <1>1, <1>7
    <3>2. start \in PageSet /\ Run(start, n) \subseteq PageSet /\ Run(start, n) \cap m.virt = {}
      BY <1>3, <1>7, <3>1
    <3>3. start \in Int
      <4>1. start \in Nat
        BY <1>0, <3>2, Zenon
      <4> QED BY <4>1
    <3> QED BY <3>1, <3>2, <3>3
  <2>3. /\ f \in Memories /\ FramesOK(f, T, L) /\ f.list = m.list /\ f.head = m.head
        /\ f.virt = m.virt \cup Run(start, n)
        /\ \A p \in Run(start, n) : f.pte[p] \in FrameSet
        /\ \A p \in PageSet \ Run(start, n) : f.pte[p] = m.pte[p]
    BY <2>2, MapPagesOK
  <2> HIDE DEF f
  <2>4. Grown(m, f)
    BY <1>0, <2>2, <2>3 DEF Grown
  <2> QED BY <2>1, <2>2, <2>3, <2>4
<1> QED BY <1>5, <1>6, <1>7

-----------------------------------------------------------------------------
(***************************************************************************)
(* Who owns which page: the large objects and the slots of H, the slab     *)
(* pages Q and the runs of the stacks that start at T.                     *)
(***************************************************************************)
LargeOnes(H) == {a \in H : IsLarge(a)}

OnPage(H, q) == {b \in H : b[1] = q}

(* The pages of a large object, its header's page included.                *)
LargeRun(m, a) == Run(a[1] - 1, m.head[a[1] - 1].num_pages)

StackRun(s) == Run(s, StackPages)

LargeOK(m, a) ==
    /\ a[1] - 1 \in PageSet /\ m.head[a[1] - 1] \in LargeHeader
    /\ m.head[a[1] - 1].num_pages >= 2
    /\ LargeRun(m, a) \subseteq PageSet
    /\ \A p \in LargeRun(m, a) : m.pte[p] \in FrameSet

(* The slots of a slab page are taken or on its free list.                 *)
SlotsOK(h, H, q) ==
    /\ h \in SlabHeader
    /\ \A i, j \in 1..Len(h.free_list) : h.free_list[i] = h.free_list[j] => i = j
    /\ \A a \in OnPage(H, q) : ~Contains(h.free_list, a[2])
    /\ h.num_allocated = Cardinality(OnPage(H, q))
    /\ h.num_allocated + Len(h.free_list) = Slots(h.cache)

SlabOK(m, H, q) == q \in PageSet /\ m.pte[q] \in FrameSet /\ SlotsOK(m.head[q], H, q)

(* A list has the pages of its cache, each once.                           *)
ListOK(m, Q, c) ==
    LET l == m.list[c]
    IN  /\ \A i, j \in 1..Len(l) : l[i] = l[j] => i = j
        /\ {l[i] : i \in 1..Len(l)} = {q \in Q : m.head[q].cache = c}

ApartOK(m, H, T, Q) ==
    /\ \A a, b \in LargeOnes(H) : a # b => LargeRun(m, a) \cap LargeRun(m, b) = {}
    /\ \A a \in LargeOnes(H) : LargeRun(m, a) \cap Q = {}
    /\ \A s \in T : StackRun(s) \subseteq m.virt /\ StackRun(s) \cap Q = {}
    /\ \A s \in T, a \in LargeOnes(H) : StackRun(s) \cap LargeRun(m, a) = {}
    /\ \A s, t \in T : s # t => StackRun(s) \cap StackRun(t) = {}

ObjectsOK(m, H, T, Q) ==
    /\ IsFiniteSet(H) /\ H \subseteq PageSet \X Nat
    /\ \A a \in LargeOnes(H) : LargeOK(m, a)
    /\ \A a \in H \ LargeOnes(H) : a[1] \in Q
    /\ \A q \in Q : SlabOK(m, H, q)
    /\ \A c \in Caches : ListOK(m, Q, c)
    /\ ApartOK(m, H, T, Q)

(* What a call leaves of the guard pages.                                  *)
SameGuards(m, f, T) == \A s \in T : f.pte[s] = m.pte[s]

(* From m to f, which belongs to H, T, L and Q.                            *)
Becomes(m, f, H, T, L, Q) ==
    f \in Memories /\ FramesOK(f, T, L) /\ ObjectsOK(f, H, T, Q) /\ SameGuards(m, f, T)

(* A run of pages that was mapped and given to nobody.                     *)
NobodysRun(m, H, T, Q, page, n) ==
    /\ page \in PageSet /\ n \in Nat /\ n >= 2
    /\ Run(page, n) \subseteq PageSet /\ \A p \in Run(page, n) : m.pte[p] \in FrameSet
    /\ Run(page, n) \cap Q = {}
    /\ \A a \in LargeOnes(H) : Run(page, n) \cap LargeRun(m, a) = {}
    /\ \A s \in T : Run(page, n) \cap StackRun(s) = {}

(* A large object's own page is the second of its span.                    *)
LEMMA LargeFacts ==
    ASSUME NEW m, NEW H, NEW T, NEW Q, ObjectsOK(m, H, T, Q), NEW a \in LargeOnes(H)
    PROVE  /\ a \in H /\ a[1] \in PageSet /\ a[1] \in Int /\ a[2] = 0 /\ a = <<a[1], a[2]>>
           /\ m.head[a[1] - 1].num_pages \in Nat
           /\ a[1] \in LargeRun(m, a) /\ a[1] - 1 \in LargeRun(m, a) /\ a[1] \notin Q
<1>1. a \in H /\ a[2] = 0 /\ LargeOK(m, a)
    BY DEF ObjectsOK, LargeOnes, IsLarge
<1>2. a \in PageSet \X Nat
    BY <1>1 DEF ObjectsOK
<1>3. a[1] \in PageSet /\ a = <<a[1], a[2]>>
    BY <1>2
<1>4. a[1] \in Int
    BY <1>3, MemoryAssumption DEF PageSet
<1>5. m.head[a[1] - 1].num_pages \in Nat /\ m.head[a[1] - 1].num_pages >= 2
    BY <1>1 DEF LargeOK, LargeHeader
<1>6. a[1] \in LargeRun(m, a) /\ a[1] - 1 \in LargeRun(m, a)
    BY <1>4, <1>5 DEF LargeRun, Run
<1>7. LargeRun(m, a) \cap Q = {}
    BY DEF ObjectsOK, ApartOK
<1> QED BY <1>1, <1>3, <1>4, <1>5, <1>6, <1>7

(* Owners do not notice what happens to pages that are nobody's.           *)
LEMMA SamePagesOK ==
    ASSUME NEW m, NEW f, NEW H, NEW T, NEW Q, NEW P, ObjectsOK(m, H, T, Q),
           f.list = m.list, Q \subseteq P,
           \A p \in P : f.pte[p] = m.pte[p] /\ f.head[p] = m.head[p],
           \A a \in LargeOnes(H) : LargeRun(m, a) \subseteq P,
           \A s \in T : StackRun(s) \subseteq f.virt
    PROVE  ObjectsOK(f, H, T, Q)
<1>1. ASSUME NEW a \in LargeOnes(H) PROVE LargeRun(f, a) = LargeRun(m, a) /\ LargeOK(f, a)
  <2>1. LargeOK(m, a) /\ a[1] - 1 \in P
    BY LargeFacts DEF ObjectsOK
  <2>2. f.head[a[1] - 1] = m.head[a[1] - 1]
    BY <2>1
  <2>3. LargeRun(f, a) = LargeRun(m, a)
    BY <2>2 DEF LargeRun
  <2>4. \A p \in LargeRun(f, a) : f.pte[p] \in FrameSet
    BY <2>1, <2>3 DEF LargeOK
  <2> QED BY <2>1, <2>2, <2>3, <2>4 DEF LargeOK
<1>2. \A q \in Q : SlabOK(f, H, q)
    BY DEF ObjectsOK, SlabOK
<1>3. \A c \in Caches : ListOK(f, Q, c)
  <2>1. \A c : {q \in Q : f.head[q].cache = c} = {q \in Q : m.head[q].cache = c}
    OBVIOUS
  <2> QED BY <2>1 DEF ObjectsOK, ListOK
<1>4. ApartOK(f, H, T, Q)
    BY <1>1 DEF ObjectsOK, ApartOK
<1> QED BY <1>1, <1>2, <1>3, <1>4 DEF ObjectsOK

(* Pages in use are not touched by an allocation.                          *)
LEMMA GrownOK ==
    ASSUME NEW m \in Memories, NEW f \in Memories, NEW H, NEW T, NEW L, NEW Q,
           FramesOK(m, T, L), ObjectsOK(m, H, T, Q), Grown(m, f)
    PROVE  /\ ObjectsOK(f, H, T, Q) /\ Q \subseteq m.virt
           /\ \A a \in LargeOnes(H) : LargeRun(m, a) \subseteq m.virt /\ LargeRun(f, a) = LargeRun(m, a)
           /\ \A q \in PageSet \ m.virt : OnPage(H, q) = {}
<1>1. ASSUME NEW p \in PageSet, m.pte[p] \in FrameSet PROVE p \in m.virt
    BY <1>1, MemoryAssumption DEF FramesOK, FrameSet, Unmapped
<1>2. Q \subseteq m.virt
    BY <1>1 DEF ObjectsOK, SlabOK
<1>3. \A a \in LargeOnes(H) : LargeRun(m, a) \subseteq m.virt
    BY <1>1 DEF ObjectsOK, LargeOK
<1>4. \A s \in T : StackRun(s) \subseteq f.virt
    BY DEF ObjectsOK, ApartOK, Grown
<1>5. ObjectsOK(f, H, T, Q)
    BY <1>2, <1>3, <1>4, SamePagesOK DEF Grown
<1>6. \A a \in LargeOnes(H) : LargeRun(f, a) = LargeRun(m, a)
    BY <1>3, LargeFacts DEF Grown, LargeRun
<1>7. ASSUME NEW q \in PageSet \ m.virt, NEW a \in OnPage(H, q) PROVE FALSE
  <2>1. a \in H /\ a[1] = q
    BY DEF OnPage
  <2>2. CASE a \in LargeOnes(H)
    BY <1>3, <1>7, <2>1, <2>2, LargeFacts
  <2>3. CASE a \notin LargeOnes(H)
    BY <1>2, <1>7, <2>1, <2>3 DEF ObjectsOK
  <2> QED BY <2>2, <2>3
<1> QED BY <1>2, <1>3, <1>5, <1>6, <1>7

-----------------------------------------------------------------------------
(***************************************************************************)
(* Large objects.                                                          *)
(***************************************************************************)

(* A run that is nobody's becomes an object: its header says how long it   *)
(* is, and its second page is the pointer.                                 *)
LEMMA AddLargeOK ==
    ASSUME NEW m, NEW H, NEW T, NEW L, NEW Q, NEW page, NEW n,
           m \in Memories, FramesOK(m, T, L), ObjectsOK(m, H, T, Q),
           NobodysRun(m, H, T, Q, page, n)
    PROVE  /\ Becomes(m, [m EXCEPT !.head[page] = [kind |-> "large", num_pages |-> n]],
                       H \cup {<<page + 1, 0>>}, T, L, Q)
           /\ <<page + 1, 0>> \notin H
<1> SUFFICES ASSUME page \in PageSet, n \in Nat, n >= 2, Run(page, n) \subseteq PageSet,
                    \A p \in Run(page, n) : m.pte[p] \in FrameSet,
                    Run(page, n) \cap Q = {},
                    \A a \in LargeOnes(H) : Run(page, n) \cap LargeRun(m, a) = {},
                    \A s \in T : Run(page, n) \cap StackRun(s) = {}
             PROVE  /\ Becomes(m, [m EXCEPT !.head[page] = [kind |-> "large", num_pages |-> n]],
                                H \cup {<<page + 1, 0>>}, T, L, Q)
                    /\ <<page + 1, 0>> \notin H
    BY DEF NobodysRun
<1> DEFINE h == [kind |-> "large", num_pages |-> n]
           f == [m EXCEPT !.head[page] = h]
           ptr == <<page + 1, 0>>
           G == H \cup {ptr}
           R == Run(page, n)
<1>0. page \in Nat /\ page \in R /\ page + 1 \in R
    BY MemoryAssumption DEF PageSet, Run
<1>1. h \in LargeHeader
    BY DEF LargeHeader
<1>2. /\ f.pmm = m.pmm /\ f.virt = m.virt /\ f.pte = m.pte /\ f.list = m.list
      /\ f.head = [m.head EXCEPT ![page] = h]
      /\ f \in Memories
    BY <1>1 DEF Memories
<1>3. f.head[page] = h /\ \A p \in PageSet \ {page} : f.head[p] = m.head[p]
    BY <1>2 DEF Memories
<1> HIDE DEF f
<1>4. FramesOK(f, T, L)
    BY <1>2 DEF FramesOK, Mapped
<1>5. ObjectsOK(f, H, T, Q)
  <2>1. Q \subseteq PageSet /\ \A a \in LargeOnes(H) : LargeRun(m, a) \subseteq PageSet
    BY DEF ObjectsOK, SlabOK, LargeOK
  <2>2. Q \subseteq PageSet \ {page} /\ \A a \in LargeOnes(H) : LargeRun(m, a) \subseteq PageSet \ {page}
    BY <1>0, <2>1
  <2>3. \A s \in T : StackRun(s) \subseteq f.virt
    BY <1>2 DEF ObjectsOK, ApartOK
  <2> DEFINE P == PageSet \ {page}
  <2>4. \A p \in P : f.pte[p] = m.pte[p] /\ f.head[p] = m.head[p]
    BY <1>2, <1>3
  <2> HIDE DEF P
  <2> QED BY ZenonT(30), <1>2, <2>2, <2>3, <2>4, SamePagesOK DEF P
<1>6. \A a \in LargeOnes(H) : LargeRun(f, a) = LargeRun(m, a)
  <2>1. \A a \in LargeOnes(H) : a[1] - 1 \in PageSet /\ a[1] - 1 # page
    BY <1>0, LargeFacts DEF ObjectsOK, LargeOK
  <2> QED BY <1>3, <2>1 DEF LargeRun
<1>7. ptr[1] = page + 1 /\ ptr[2] = 0 /\ ptr[1] - 1 = page /\ IsLarge(ptr)
    BY <1>0 DEF IsLarge
<1>8. LargeRun(f, ptr) = R
    BY <1>3, <1>7 DEF LargeRun
<1>9. ptr \notin LargeOnes(H)
    BY <1>0, <1>7, LargeFacts
<1>10. ptr \notin H
    BY <1>7, <1>9 DEF LargeOnes
<1>11. LargeOnes(G) = LargeOnes(H) \cup {ptr} /\ G \ LargeOnes(G) = H \ LargeOnes(H)
    BY <1>7 DEF LargeOnes
<1>12. \A q \in Q : OnPage(G, q) = OnPage(H, q)
  <2>1. ptr[1] \notin Q
    BY <1>0, <1>7
  <2> QED BY <2>1 DEF OnPage
<1>13. LargeOK(f, ptr)
    BY <1>1, <1>2, <1>3, <1>7, <1>8 DEF LargeOK
<1>14. IsFiniteSet(G) /\ G \subseteq PageSet \X Nat
  <2>1. ptr \in PageSet \X Nat
    BY <1>0
  <2>2. IsFiniteSet(H) /\ H \subseteq PageSet \X Nat
    BY DEF ObjectsOK
  <2> QED BY <2>1, <2>2, FS_AddElement
<1>15. \A q \in Q : SlabOK(f, G, q)
    BY <1>5, <1>12 DEF ObjectsOK, SlabOK, SlotsOK
<1>16. ApartOK(f, G, T, Q)
  <2>1. ApartOK(f, H, T, Q)
    BY <1>5 DEF ObjectsOK
  <2>2. ASSUME NEW a \in LargeOnes(H)
        PROVE  LargeRun(f, a) \cap LargeRun(f, ptr) = {} /\ LargeRun(f, a) \cap Q = {}
    BY <1>6, <1>8 DEF ObjectsOK, ApartOK
  <2>3. LargeRun(f, ptr) \cap Q = {} /\ \A s \in T : StackRun(s) \cap LargeRun(f, ptr) = {}
    BY <1>8
  <2> HIDE DEF ptr, G
  <2>4. \A a, b \in LargeOnes(G) : a # b => LargeRun(f, a) \cap LargeRun(f, b) = {}
    BY <1>11, <2>1, <2>2 DEF ApartOK
  <2>5. /\ \A a \in LargeOnes(G) : LargeRun(f, a) \cap Q = {}
        /\ \A s \in T, a \in LargeOnes(G) : StackRun(s) \cap LargeRun(f, a) = {}
    BY <1>11, <2>1, <2>3 DEF ApartOK
  <2> QED BY <2>1, <2>4, <2>5 DEF ApartOK
<1>17. ObjectsOK(f, G, T, Q)
    BY <1>5, <1>11, <1>13, <1>14, <1>15, <1>16 DEF ObjectsOK
<1>18. Becomes(m, f, G, T, L, Q)
  <2> HIDE DEF G
  <2> QED BY <1>2, <1>4, <1>17 DEF Becomes, SameGuards
<1> QED BY <1>10, <1>18 DEF f

(* Without one of its large objects, the rest is as it was.                *)
LEMMA DropLargeOK ==
    ASSUME NEW m, NEW H, NEW T, NEW Q, ObjectsOK(m, H, T, Q), NEW a \in LargeOnes(H)
    PROVE  ObjectsOK(m, H \ {a}, T, Q)
<1> DEFINE G == H \ {a}
<1>1. LargeOnes(G) = LargeOnes(H) \ {a} /\ G \ LargeOnes(G) \subseteq H \ LargeOnes(H)
    BY DEF LargeOnes
<1>2. \A q \in Q : OnPage(G, q) = OnPage(H, q)
  <2>1. a[1] \notin Q
    BY LargeFacts
  <2> QED BY <2>1 DEF OnPage
<1>3. IsFiniteSet(G) /\ G \subseteq PageSet \X Nat
    BY FS_RemoveElement DEF ObjectsOK
<1>4. \A q \in Q : SlabOK(m, G, q)
    BY <1>2 DEF ObjectsOK, SlabOK, SlotsOK
<1>5. ApartOK(m, G, T, Q)
    BY <1>1 DEF ObjectsOK, ApartOK
<1> QED BY <1>1, <1>3, <1>4, <1>5 DEF ObjectsOK

(* free of a large object gives back its span.                             *)
LEMMA FreeLargeOK ==
    ASSUME NEW m, NEW H, NEW T, NEW L, NEW Q, NEW a,
           m \in Memories, FramesOK(m, T, L), ObjectsOK(m, H, T, Q), a \in LargeOnes(H)
    PROVE  Becomes(m, vmm_free_pages(m, a[1] - 1, m.head[a[1] - 1].num_pages),
                   H \ {a}, T, L, Q)
<1> DEFINE n == m.head[a[1] - 1].num_pages
           R == Run(a[1] - 1, n)
           f == vmm_free_pages(m, a[1] - 1, n)
<1>1. R = LargeRun(m, a) /\ R \subseteq PageSet /\ a[1] - 1 \in Int /\ n \in Int
    BY LargeFacts DEF LargeRun, ObjectsOK, LargeOK
<1>2. ObjectsOK(m, H \ {a}, T, Q)
    BY DropLargeOK
<1>3. /\ f \in Memories /\ FramesOK(f, T \ R, L) /\ f.list = m.list
      /\ f.virt = m.virt \ R
      /\ \A p \in PageSet \ R : f.pte[p] = m.pte[p] /\ f.head[p] = m.head[p]
  <2>1. PICK start \in Int, k \in Int : start = a[1] - 1 /\ k = n
    BY <1>1
  <2>2. Run(start, k) \subseteq PageSet /\ R = Run(start, k) /\ f = vmm_free_pages(m, start, k)
    BY <1>1, <2>1
  <2> DEFINE g == vmm_free_pages(m, start, k)
  <2>3. /\ g \in Memories /\ FramesOK(g, T \ Run(start, k), L)
        /\ g.list = m.list /\ g.virt = m.virt \ Run(start, k)
        /\ \A p \in PageSet \ Run(start, k) : g.pte[p] = m.pte[p] /\ g.head[p] = m.head[p]
    BY <2>2, FreePagesOK DEF FreedPages
  <2>4. f = g
    BY <2>2
  <2> HIDE DEF f, R, g
  <2> QED BY <2>2, <2>3, <2>4
<1> HIDE DEF f
<1>4. \A s \in T : s \in StackRun(s) /\ s \in PageSet
  <2>1. T \subseteq PageSet
    BY DEF FramesOK, Memories
  <2> QED BY <2>1, MemoryAssumption DEF StackRun, Run, PageSet
<1>5. /\ Q \cap R = {} /\ \A s \in T : StackRun(s) \cap R = {} /\ StackRun(s) \subseteq m.virt
      /\ \A b \in LargeOnes(H \ {a}) : LargeRun(m, b) \cap R = {}
    BY <1>1 DEF ObjectsOK, ApartOK, LargeOnes
<1>6. T \ R = T
    BY <1>4, <1>5
<1>7. Q \subseteq PageSet /\ \A b \in LargeOnes(H \ {a}) : LargeRun(m, b) \subseteq PageSet
    BY <1>2 DEF ObjectsOK, SlabOK, LargeOK
<1>8. ObjectsOK(f, H \ {a}, T, Q)
  <2>1. Q \subseteq PageSet \ R /\ \A b \in LargeOnes(H \ {a}) : LargeRun(m, b) \subseteq PageSet \ R
    BY <1>5, <1>7
  <2>2. \A s \in T : StackRun(s) \subseteq f.virt
    BY <1>3, <1>5
  <2> QED BY <1>2, <1>3, <2>1, <2>2, SamePagesOK
<1>9. \A s \in T : f.pte[s] = m.pte[s]
    BY <1>3, <1>4, <1>5
<1>10. Becomes(m, f, H \ {a}, T, L, Q)
    BY <1>3, <1>6, <1>8, <1>9 DEF Becomes, SameGuards
<1> QED BY <1>10 DEF f

-----------------------------------------------------------------------------
(***************************************************************************)
(* Slots.                                                                  *)
(***************************************************************************)

(* One slab page changes its header, and its slots change hands.           *)
LEMMA SetHeaderOK ==
    ASSUME NEW m \in Memories, NEW H, NEW T, NEW L, NEW Q, NEW G,
           FramesOK(m, T, L), ObjectsOK(m, H, T, Q), NEW q \in Q,
           NEW h, SlotsOK(h, G, q), h.cache = m.head[q].cache,
           IsFiniteSet(G), G \subseteq PageSet \X Nat, LargeOnes(G) = LargeOnes(H),
           \A a \in G \ LargeOnes(G) : a[1] \in Q,
           \A r \in Q \ {q} : OnPage(G, r) = OnPage(H, r)
    PROVE  LET f == [m EXCEPT !.head[q] = h]
           IN  f \in Memories /\ FramesOK(f, T, L) /\ ObjectsOK(f, G, T, Q)
<1> DEFINE f == [m EXCEPT !.head[q] = h]
<1>0. q \in PageSet /\ m.pte[q] \in FrameSet /\ h \in SlabHeader
    BY DEF ObjectsOK, SlabOK, SlotsOK
<1>1. /\ f.pmm = m.pmm /\ f.virt = m.virt /\ f.pte = m.pte /\ f.list = m.list
      /\ f.head = [m.head EXCEPT ![q] = h]
      /\ f \in Memories
    BY <1>0 DEF Memories
<1>2. f.head[q] = h /\ \A p \in PageSet \ {q} : f.head[p] = m.head[p]
    BY <1>0, <1>1 DEF Memories
<1> HIDE DEF f
<1>3. FramesOK(f, T, L)
    BY <1>1 DEF FramesOK, Mapped
<1>4. \A a \in LargeOnes(H) : LargeRun(f, a) = LargeRun(m, a) /\ LargeOK(f, a)
  <2>1. SUFFICES ASSUME NEW a \in LargeOnes(H) PROVE LargeRun(f, a) = LargeRun(m, a) /\ LargeOK(f, a)
    OBVIOUS
  <2>2. LargeOK(m, a) /\ a[1] - 1 \in LargeRun(m, a) /\ LargeRun(m, a) \cap Q = {}
    <3>1. LargeOK(m, a) /\ LargeRun(m, a) \cap Q = {}
      BY DEF ObjectsOK, ApartOK
    <3>2. a[1] - 1 \in LargeRun(m, a)
      BY LargeFacts
    <3> QED BY <3>1, <3>2
  <2>3. f.head[a[1] - 1] = m.head[a[1] - 1]
    BY <1>2, <2>2 DEF LargeOK
  <2>4. LargeRun(f, a) = LargeRun(m, a)
    BY <2>3 DEF LargeRun
  <2> QED BY <1>1, <2>2, <2>3, <2>4 DEF LargeOK
<1>5. \A r \in Q : SlabOK(f, G, r)
  <2>1. SlabOK(f, G, q)
    BY <1>0, <1>1, <1>2 DEF SlabOK
  <2>2. ASSUME NEW r \in Q \ {q} PROVE SlabOK(f, G, r)
    <3>1. SlabOK(m, H, r)
      BY DEF ObjectsOK
    <3>2. f.head[r] = m.head[r] /\ OnPage(G, r) = OnPage(H, r) /\ f.pte = m.pte
      BY <1>1, <1>2, <3>1 DEF SlabOK
    <3> QED BY <3>1, <3>2 DEF SlabOK, SlotsOK
  <2> QED BY <2>1, <2>2
<1>6. \A c \in Caches : ListOK(f, Q, c)
  <2>1. \A r \in Q : f.head[r].cache = m.head[r].cache
    BY <1>2 DEF ObjectsOK, SlabOK
  <2>2. \A c : {r \in Q : f.head[r].cache = c} = {r \in Q : m.head[r].cache = c}
    BY <2>1
  <2> QED BY <1>1, <2>2 DEF ObjectsOK, ListOK
<1>7. ApartOK(f, G, T, Q)
    BY <1>1, <1>4 DEF ObjectsOK, ApartOK
<1>8. ObjectsOK(f, G, T, Q)
    BY <1>4, <1>5, <1>6, <1>7 DEF ObjectsOK
<1> QED BY <1>1, <1>3, <1>8 DEF f

(* The first free slot of a page is taken: nobody had it.                  *)
LEMMA TakeSlotOK ==
    ASSUME NEW m \in Memories, NEW H, NEW T, NEW L, NEW Q,
           FramesOK(m, T, L), ObjectsOK(m, H, T, Q), NEW q \in Q,
           m.head[q].free_list # <<>>
    PROVE  LET a == TakeSlot([m |-> m, page |-> q])
           IN  /\ a.m \in Memories /\ FramesOK(a.m, T, L)
               /\ ObjectsOK(a.m, H \cup {a.ptr}, T, Q)
               /\ a.m.pte = m.pte /\ a.ptr \notin H
               /\ a.ptr \in PageSet \X Nat /\ a.ptr[1] = q /\ ~IsLarge(a.ptr)
<1> DEFINE h == m.head[q]
           l == h.free_list
           k == [h EXCEPT !.free_list = Tail(@), !.num_allocated = @ + 1]
           ptr == <<q, Head(l)>>
           G == H \cup {ptr}
           f == [m EXCEPT !.head[q] = k]
<1>1. q \in PageSet /\ q # -1 /\ SlotsOK(h, H, q)
    BY MemoryAssumption DEF ObjectsOK, SlabOK, PageSet
<1>2. /\ h \in SlabHeader /\ l \in Seq(Nat \ {0}) /\ l # <<>> /\ h.num_allocated \in Nat
      /\ h.kind = "slab" /\ h.cache \in Caches
    BY <1>1 DEF SlotsOK, SlabHeader
<1>3. /\ Tail(l) \in Seq(Nat \ {0}) /\ Head(l) \in Nat \ {0} /\ Head(l) = l[1]
      /\ Len(l) \in Nat /\ Len(l) >= 1 /\ Len(Tail(l)) = Len(l) - 1
      /\ \A i \in 1..Len(Tail(l)) : Tail(l)[i] = l[i + 1]
    BY <1>2
<1>4. /\ k \in SlabHeader
      /\ k.free_list = Tail(l) /\ k.num_allocated = h.num_allocated + 1 /\ k.cache = h.cache
  <2>1. PICK x \in SlabHeader : x = h
    BY <1>2
  <2>2. PICK t \in Seq(Nat \ {0}) : t = Tail(x.free_list)
    BY <1>3, <2>1
  <2> DEFINE y == [x EXCEPT !.free_list = t]
  <2>3. y \in SlabHeader /\ y.free_list = t /\ y.num_allocated = x.num_allocated
        /\ y.cache = x.cache /\ y.num_allocated \in Nat
    BY DEF SlabHeader
  <2>4. PICK u \in SlabHeader : u = y
    BY <2>3
  <2> DEFINE z == [u EXCEPT !.num_allocated = u.num_allocated + 1]
  <2>6. k = z
    BY <2>1, <2>2, <2>4
  <2> HIDE DEF y
  <2>5. z \in SlabHeader /\ z.free_list = t /\ z.num_allocated = u.num_allocated + 1
        /\ z.cache = u.cache
    BY <2>3, <2>4, SMTT(20) DEF SlabHeader
  <2> QED BY <2>1, <2>2, <2>3, <2>4, <2>5, <2>6
<1>5. TakeSlot([m |-> m, page |-> q]) = [m |-> f, ptr |-> ptr]
  <2>1. TakeSlot([m |-> m, page |-> q]) =
            [m |-> [m EXCEPT !.head[q].free_list = Tail(@),
                             !.head[q].num_allocated = @ + 1],
             ptr |-> <<q, Head(m.head[q].free_list)>>]
    BY <1>1 DEF TakeSlot
  <2>3. [m EXCEPT !.head[q].free_list = Tail(@), !.head[q].num_allocated = @ + 1] = f
    BY <1>1 DEF Memories
  <2> QED BY <2>1, <2>3
<1>6. ptr[1] = q /\ ptr[2] = Head(l) /\ ~IsLarge(ptr) /\ ptr \in PageSet \X Nat
    BY <1>1, <1>3 DEF IsLarge
<1>7. ptr \notin H
  <2>1. Contains(l, ptr[2])
    BY <1>3, <1>6 DEF Contains
  <2> QED BY <1>1, <1>6, <2>1 DEF SlotsOK, OnPage
<1> HIDE DEF ptr
<1>8. OnPage(G, q) = OnPage(H, q) \cup {ptr} /\ ptr \notin OnPage(H, q)
    BY <1>6, <1>7 DEF OnPage
<1>9. IsFiniteSet(OnPage(H, q)) /\ Cardinality(OnPage(H, q)) \in Nat
  <2>1. OnPage(H, q) \in SUBSET H /\ IsFiniteSet(H)
    BY DEF OnPage, ObjectsOK
  <2> QED BY <2>1, FS_Subset, FS_CardinalityType
<1>10. Cardinality(OnPage(G, q)) = Cardinality(OnPage(H, q)) + 1
    BY <1>8, <1>9, FS_AddElement
<1>11. SlotsOK(k, G, q)
  <2>1. \A i, j \in 1..Len(Tail(l)) : Tail(l)[i] = Tail(l)[j] => i = j
    <3>1. \A i, j \in 1..Len(l) : l[i] = l[j] => i = j
      BY <1>1 DEF SlotsOK
    <3>2. \A i \in 1..Len(Tail(l)) : i \in Int /\ i + 1 \in 1..Len(l) /\ Tail(l)[i] = l[i + 1]
      BY <1>3
    <3>3. ASSUME NEW i \in 1..Len(Tail(l)), NEW j \in 1..Len(Tail(l)), Tail(l)[i] = Tail(l)[j]
          PROVE  i = j
      <4>1. i + 1 = j + 1
        BY <3>1, <3>2, <3>3
      <4> QED BY <3>2, <4>1
    <3> QED BY <3>3
  <2>2. \A a \in OnPage(G, q) : ~Contains(Tail(l), a[2])
    <3>1. ASSUME NEW a \in OnPage(G, q), NEW i \in 1..Len(Tail(l)), Tail(l)[i] = a[2]
          PROVE  FALSE
      <4>1. i \in Int /\ i + 1 \in 1..Len(l) /\ l[i + 1] = a[2] /\ i + 1 # 1
        BY <1>3, <3>1
      <4>2. CASE a = ptr
        <5>1. l[i + 1] = l[1] /\ 1 \in 1..Len(l)
          BY <1>3, <1>6, <4>1, <4>2
        <5> QED BY <1>1, <4>1, <5>1 DEF SlotsOK
      <4>3. CASE a # ptr
        <5>1. a \in OnPage(H, q) /\ Contains(l, a[2])
          BY <1>8, <4>1, <4>3 DEF Contains
        <5> QED BY <1>1, <5>1 DEF SlotsOK
      <4> QED BY <4>2, <4>3
    <3> QED BY <3>1 DEF Contains
  <2>3. /\ k.num_allocated = h.num_allocated + 1 /\ k.free_list = Tail(l)
        /\ k.cache = h.cache
    BY <1>4
  <2>4. /\ h.num_allocated = Cardinality(OnPage(H, q))
        /\ h.num_allocated + Len(l) = Slots(h.cache)
    BY <1>1 DEF SlotsOK
  <2>5. k.num_allocated + Len(k.free_list) = Slots(k.cache)
    BY <1>2, <1>3, <2>3, <2>4
  <2> HIDE DEF k
  <2> QED BY <1>4, <1>10, <2>1, <2>2, <2>3, <2>4, <2>5 DEF SlotsOK
<1>12. IsFiniteSet(G) /\ G \subseteq PageSet \X Nat
    BY <1>6, FS_AddElement DEF ObjectsOK
<1>13. LargeOnes(G) = LargeOnes(H) /\ G \ LargeOnes(G) = (H \ LargeOnes(H)) \cup {ptr}
    BY <1>6, <1>7 DEF LargeOnes
<1>14. \A a \in G \ LargeOnes(G) : a[1] \in Q
    BY <1>6, <1>13 DEF ObjectsOK
<1>15. \A r \in Q \ {q} : OnPage(G, r) = OnPage(H, r)
    BY <1>6 DEF OnPage
<1>16. k.cache = m.head[q].cache
    BY <1>4
<1> HIDE DEF k, G
<1>17. f \in Memories /\ FramesOK(f, T, L) /\ ObjectsOK(f, G, T, Q)
    BY <1>11, <1>12, <1>13, <1>14, <1>15, <1>16, SetHeaderOK
<1>18. f.pte = m.pte
    BY DEF Memories
<1> HIDE DEF f
<1> DEFINE a == TakeSlot([m |-> m, page |-> q])
<1>19. a.m = f /\ a.ptr = ptr
    BY <1>5
<1> HIDE DEF a
<1>20. /\ a.m \in Memories /\ FramesOK(a.m, T, L) /\ ObjectsOK(a.m, H \cup {a.ptr}, T, Q)
       /\ a.m.pte = m.pte /\ a.ptr \notin H
       /\ a.ptr \in PageSet \X Nat /\ a.ptr[1] = q /\ ~IsLarge(a.ptr)
    BY <1>6, <1>7, <1>17, <1>18, <1>19 DEF G
<1> QED BY <1>20 DEF a

(* A page has room for a slot of every cache, and its slots are apart.     *)
LEMMA SlotsFacts ==
    ASSUME NEW c \in Caches
    PROVE  /\ Slots(c) \in Nat /\ Slots(c) >= 1
           /\ \A i \in 1..Slots(c) : Offset(c, i) \in Nat \ {0}
           /\ \A i, j \in 1..Slots(c) : Offset(c, i) = Offset(c, j) => i = j
<1>1. PICK k \in Nat : k = ObjectSizes[c] /\ 1 <= k /\ k <= PAGE_SIZE - 1
  <2>1. ObjectSizes[c] \in 1..(PAGE_SIZE - 1)
    BY MemoryAssumption DEF Caches
  <2> QED BY <2>1, MemoryAssumption
<1>2. PICK n \in Nat : n = PAGE_SIZE - 1 /\ k <= n
  <2>1. PAGE_SIZE \in Nat
    BY MemoryAssumption
  <2> QED BY <1>1, <2>1
<1>3. (n \div k) \in Nat /\ (n \div k) >= 1
  BY <1>1, <1>2
<1>4. Slots(c) = n \div k
  BY <1>1, <1>2 DEF Slots
<1>5. Slots(c) \in Nat /\ Slots(c) >= 1
  BY <1>3, <1>4
<1>6. ASSUME NEW i \in 1..Slots(c)
      PROVE  /\ i - 1 \in Nat /\ Offset(c, i) = 1 + (i - 1) * k /\ (i - 1) * k \in Nat
             /\ Offset(c, i) \in Nat \ {0}
  <2>1. i - 1 \in Nat
    BY <1>5
  <2>2. (i - 1) * k \in Nat
    BY <1>1, <2>1
  <2>3. Offset(c, i) = 1 + (i - 1) * k
    BY <1>1 DEF Offset
  <2> QED BY <2>1, <2>2, <2>3
<1>7. ASSUME NEW i \in 1..Slots(c), NEW j \in 1..Slots(c), Offset(c, i) = Offset(c, j)
      PROVE  i = j
  <2>1. (i - 1) * k = (j - 1) * k
    <3>1. PICK x \in Nat : x = (i - 1) * k
      BY <1>6
    <3>2. PICK y \in Nat : y = (j - 1) * k
      BY <1>6
    <3>3. 1 + x = 1 + y
      BY <1>6, <1>7, <3>1, <3>2
    <3> QED BY <3>1, <3>2, <3>3
  <2>2. ASSUME NEW a \in Nat, NEW b \in Nat, a * k = b * k, a < b PROVE FALSE
    <3>1. PICK e \in Nat : b = a + 1 + e
      <4>1. b - a - 1 \in Nat /\ b = a + 1 + (b - a - 1)
        BY <2>2
      <4> QED BY <4>1
    <3>2. b * k = a * k + k + e * k /\ e * k \in Nat /\ a * k \in Nat
      BY <1>1, <3>1
    <3> QED BY <1>1, <2>2, <3>2
  <2>3. i - 1 \in Nat /\ j - 1 \in Nat
    BY <1>6
  <2>4. ~(i - 1 < j - 1) /\ ~(j - 1 < i - 1)
    BY <2>1, <2>2, <2>3
  <2> QED BY <1>5, <2>3, <2>4
<1> QED BY <1>5, <1>6, <1>7

(* A page that was mapped and given to nobody.                             *)
Nobodys(m, H, T, Q, page) ==
    /\ page \in PageSet /\ m.pte[page] \in FrameSet /\ page \notin Q
    /\ \A a \in LargeOnes(H) : page \notin LargeRun(m, a)
    /\ \A s \in T : page \notin StackRun(s)
    /\ OnPage(H, page) = {}

(* A page that becomes one of the slab pages, with free slots.             *)
GotPage(m, H, T, L, Q, page, a) ==
    /\ a = [m |-> a.m, page |-> page]
    /\ a.m \in Memories /\ FramesOK(a.m, T, L)
    /\ ObjectsOK(a.m, H, T, Q \cup {page})
    /\ a.m.pte = m.pte
    /\ a.m.head[page].free_list # <<>>

(* A new slab page has all its slots free and is the first of its list.    *)
LEMMA NewSlabOK ==
    ASSUME NEW m, NEW H, NEW T, NEW L, NEW Q, NEW page, NEW c \in Caches,
           m \in Memories, FramesOK(m, T, L), ObjectsOK(m, H, T, Q),
           Nobodys(m, H, T, Q, page)
    PROVE  GotPage(m, H, T, L, Q, page, PushPage(Formatted([m |-> m, page |-> page], c), c))
<1> SUFFICES ASSUME page \in PageSet, m.pte[page] \in FrameSet, page \notin Q,
                    \A a \in LargeOnes(H) : page \notin LargeRun(m, a),
                    \A s \in T : page \notin StackRun(s), OnPage(H, page) = {}
             PROVE  GotPage(m, H, T, L, Q, page,
                            PushPage(Formatted([m |-> m, page |-> page], c), c))
    BY DEF Nobodys
<1> DEFINE fl == [i \in 1..Slots(c) |-> Offset(c, i)]
           h == [kind |-> "slab", cache |-> c, num_allocated |-> 0, free_list |-> fl]
           l == m.list[c]
           hd == [m.head EXCEPT ![page] = h]
           ls == [m.list EXCEPT ![c] = <<page>> \o l]
           f == [m EXCEPT !.head = hd, !.list = ls]
           R == Q \cup {page}
<1>0. page # -1
    BY MemoryAssumption DEF PageSet
<1>1. PushPage(Formatted([m |-> m, page |-> page], c), c) = [m |-> f, page |-> page]
  <2>1. PICK g : g = [m EXCEPT !.head = hd]
    OBVIOUS
  <2>2. Formatted([m |-> m, page |-> page], c) = [m |-> g, page |-> page]
    <3>1. Formatted([m |-> m, page |-> page], c) =
              [[m |-> m, page |-> page] EXCEPT !.m.head[page] = h]
      BY <1>0 DEF Formatted
    <3>2. PICK g0 : g0 = [m |-> m, page |-> page]
      OBVIOUS
    <3>3. g0.m = m /\ g0.page = page
      BY <3>2
    <3>4. [g0 EXCEPT !.m = g] = [m |-> g, page |-> page]
      BY <3>2
    <3>5. [g0 EXCEPT !.m.head[page] = h] = [g0 EXCEPT !.m = g]
      BY <2>1, <3>3
    <3> QED BY <3>1, <3>2, <3>4, <3>5
  <2>3. PushPage([m |-> g, page |-> page], c) =
            [m |-> [g EXCEPT !.list[c] = <<page>> \o @], page |-> page]
    BY <1>0 DEF PushPage
  <2>4. [g EXCEPT !.list[c] = <<page>> \o @] = f
    BY <2>1 DEF Memories
  <2> QED BY <2>2, <2>3, <2>4
<1>2. fl \in Seq(Nat \ {0}) /\ Len(fl) = Slots(c) /\ fl # <<>>
    BY SlotsFacts
<1>3. h \in SlabHeader
    BY <1>2 DEF SlabHeader
<1>4. /\ l \in Seq(PageSet) /\ <<page>> \o l \in Seq(PageSet)
      /\ Len(<<page>> \o l) = Len(l) + 1 /\ Len(l) \in Nat
      /\ (<<page>> \o l)[1] = page
      /\ \A i \in 1..Len(l) : (<<page>> \o l)[i + 1] = l[i]
  <2>1. l \in Seq(PageSet) /\ <<page>> \in Seq(PageSet) /\ Len(<<page>>) = 1
    BY DEF Memories
  <2> QED BY <2>1
<1> DEFINE nl == <<page>> \o l
<1>5. /\ f.pmm = m.pmm /\ f.virt = m.virt /\ f.pte = m.pte /\ f.head = hd /\ f.list = ls
      /\ f \in Memories
    BY <1>3, <1>4 DEF Memories
<1>6. /\ f.head[page] = h /\ f.list[c] = nl
      /\ \A p \in PageSet \ {page} : f.head[p] = m.head[p]
      /\ \A d \in Caches \ {c} : f.list[d] = m.list[d]
    BY <1>5 DEF Memories
<1> HIDE DEF f, hd, ls
<1>7. FramesOK(f, T, L)
    BY <1>5 DEF FramesOK, Mapped
<1>8. \A a \in LargeOnes(H) : LargeRun(f, a) = LargeRun(m, a) /\ LargeOK(f, a)
  <2>1. SUFFICES ASSUME NEW a \in LargeOnes(H) PROVE LargeRun(f, a) = LargeRun(m, a) /\ LargeOK(f, a)
    OBVIOUS
  <2>2. LargeOK(m, a)
    BY DEF ObjectsOK
  <2>3. a[1] - 1 \in LargeRun(m, a)
    BY LargeFacts
  <2>4. f.head[a[1] - 1] = m.head[a[1] - 1]
    BY <1>6, <2>2, <2>3 DEF LargeOK
  <2>5. LargeRun(f, a) = LargeRun(m, a)
    BY <2>4 DEF LargeRun
  <2> QED BY <1>5, <2>2, <2>4, <2>5 DEF LargeOK
<1>9. \A q \in Q : q \in PageSet /\ q # page /\ f.head[q] = m.head[q]
    BY <1>6 DEF ObjectsOK, SlabOK
<1>10. \A q \in R : SlabOK(f, H, q)
  <2>1. ASSUME NEW q \in Q PROVE SlabOK(f, H, q)
    BY <1>5, <1>9 DEF ObjectsOK, SlabOK
  <2>2. SlotsOK(h, H, page)
    <3>1. Len(fl) = Slots(c) /\ Slots(c) \in Nat /\ Cardinality({}) = 0
      BY <1>2, SlotsFacts, FS_EmptySet
    <3>2. \A i, j \in 1..Len(fl) : fl[i] = fl[j] => i = j
      BY <3>1, SlotsFacts
    <3> HIDE DEF fl
    <3>3. h.num_allocated = 0 /\ h.free_list = fl /\ h.cache = c
      OBVIOUS
    <3> HIDE DEF h
    <3>4. h.num_allocated = Cardinality(OnPage(H, page))
      BY <3>1, <3>3
    <3>5. h.num_allocated + Len(h.free_list) = Slots(h.cache)
      BY <3>1, <3>3
    <3> QED BY <1>3, <3>2, <3>3, <3>4, <3>5 DEF SlotsOK
  <2>3. SlabOK(f, H, page)
    BY <1>5, <1>6, <2>2 DEF SlabOK
  <2> QED BY <2>1, <2>3
<1>11. ASSUME NEW d \in Caches PROVE ListOK(f, R, d)
  <2>1. ListOK(m, Q, d)
    BY DEF ObjectsOK
  <2>2. f.head[page].cache = c
    BY <1>6
  <2>3. CASE d # c
    <3>1. {q \in R : f.head[q].cache = d} = {q \in Q : m.head[q].cache = d}
      <4> HIDE DEF h, nl
      <4> QED BY <1>9, <2>2, <2>3
    <3>2. f.list[d] = m.list[d]
      BY <1>6, <2>3
    <3> HIDE DEF R
    <3> QED BY <2>1, <3>1, <3>2 DEF ListOK
  <2>4. CASE d = c
    <3>1. {q \in R : f.head[q].cache = d} = {q \in Q : m.head[q].cache = d} \cup {page}
      BY <1>9, <2>2, <2>4
    <3>2. \A i, j \in 1..Len(l) : l[i] = l[j] => i = j
      BY <2>1, <2>4 DEF ListOK
    <3>3. {l[i] : i \in 1..Len(l)} = {q \in Q : m.head[q].cache = c}
      BY <2>1, <2>4 DEF ListOK
    <3>4. \A i \in 1..Len(l) : l[i] \in Q
      BY <3>3
    <3>5. ASSUME NEW i \in 1..Len(nl)
          PROVE  \/ i = 1 /\ nl[i] = page
                 \/ i - 1 \in 1..Len(l) /\ nl[i] = l[i - 1] /\ nl[i] # page
      <4>0. Len(nl) = Len(l) + 1 /\ Len(l) \in Nat /\ i \in 1..(Len(l) + 1)
        BY <1>4
      <4>1. CASE i = 1
        <5>1. nl[1] = page
          BY <1>4
        <5> HIDE DEF nl
        <5> QED BY <4>1, <5>1
      <4>2. CASE i # 1
        <5>1. i \in Int /\ i - 1 \in 1..Len(l) /\ (i - 1) + 1 = i
          BY <4>0, <4>2
        <5>2. nl[i] = l[i - 1]
          BY <1>4, <5>1
        <5> QED BY <3>4, <5>1, <5>2
      <4> QED BY <4>1, <4>2
    <3>6. ASSUME NEW i \in 1..Len(l) PROVE i + 1 \in 1..Len(nl) /\ nl[i + 1] = l[i]
      <4>1. Len(nl) = Len(l) + 1 /\ Len(l) \in Nat
        BY <1>4
      <4>2. nl[i + 1] = l[i]
        BY <1>4
      <4> HIDE DEF nl
      <4> QED BY <4>1, <4>2
    <3>7. 1 \in 1..Len(nl) /\ nl[1] = page
      BY <1>4
    <3> HIDE DEF nl
    <3>8. {nl[i] : i \in 1..Len(nl)} = {l[i] : i \in 1..Len(l)} \cup {page}
      <4>1. \A i \in 1..Len(nl) : nl[i] \in {l[j] : j \in 1..Len(l)} \cup {page}
        BY <3>5
      <4>2. \A j \in 1..Len(l) : l[j] \in {nl[i] : i \in 1..Len(nl)}
        <5>1. SUFFICES ASSUME NEW j \in 1..Len(l) PROVE \E i \in 1..Len(nl) : nl[i] = l[j]
          OBVIOUS
        <5> QED BY <3>6
      <4>3. page \in {nl[i] : i \in 1..Len(nl)}
        BY <3>7
      <4> QED BY <4>1, <4>2, <4>3
    <3>9. ASSUME NEW i \in 1..Len(nl), NEW j \in 1..Len(nl), nl[i] = nl[j] PROVE i = j
      <4>0. i \in Int /\ j \in Int
        OBVIOUS
      <4>1. CASE i = 1
        BY <3>5, <3>7, <3>9, <4>1
      <4>2. CASE j = 1
        BY <3>5, <3>7, <3>9, <4>2
      <4>3. CASE i # 1 /\ j # 1
        <5>1. i - 1 \in 1..Len(l) /\ j - 1 \in 1..Len(l) /\ l[i - 1] = l[j - 1]
          BY <3>5, <3>9, <4>3
        <5>2. i - 1 = j - 1
          BY <3>2, <5>1
        <5> QED BY <4>0, <5>2
      <4> QED BY <4>1, <4>2, <4>3
    <3>10. f.list[d] = nl
      BY <1>6, <2>4
    <3>11. {nl[i] : i \in 1..Len(nl)} = {q \in R : f.head[q].cache = d}
      BY <2>4, <3>1, <3>3, <3>8
    <3> HIDE DEF R
    <3> QED BY <3>9, <3>10, <3>11 DEF ListOK
  <2> QED BY <2>3, <2>4
<1>12. ApartOK(f, H, T, R)
  <2>1. ApartOK(m, H, T, Q)
    BY DEF ObjectsOK
  <2> QED BY <1>5, <1>8, <2>1 DEF ApartOK
<1>13. ObjectsOK(f, H, T, R)
  <2>1. /\ IsFiniteSet(H) /\ H \subseteq PageSet \X Nat
        /\ \A a \in H \ LargeOnes(H) : a[1] \in R
    BY DEF ObjectsOK
  <2> QED BY <1>8, <1>10, <1>11, <1>12, <2>1 DEF ObjectsOK
<1>14. f.head[page].free_list # <<>>
    BY <1>2, <1>6
<1> HIDE DEF h
<1> QED BY <1>1, <1>5, <1>7, <1>13, <1>14 DEF GotPage

(* A slot goes back to the front of its page's free list.                  *)
LEMMA GiveSlotOK ==
    ASSUME NEW m \in Memories, NEW H, NEW T, NEW L, NEW Q,
           FramesOK(m, T, L), ObjectsOK(m, H, T, Q), NEW ptr \in H \ LargeOnes(H)
    PROVE  LET f == [m EXCEPT !.head[ptr[1]].free_list = <<ptr[2]>> \o @,
                              !.head[ptr[1]].num_allocated = @ - 1]
           IN  /\ f \in Memories /\ FramesOK(f, T, L) /\ ObjectsOK(f, H \ {ptr}, T, Q)
               /\ f.pte = m.pte /\ ~Contains(m.head[ptr[1]].free_list, ptr[2])
               /\ f.head[ptr[1]].num_allocated = Cardinality(OnPage(H \ {ptr}, ptr[1]))
               /\ f.head[ptr[1]].cache = m.head[ptr[1]].cache
<1> DEFINE q == ptr[1]
           o == ptr[2]
           h == m.head[q]
           l == h.free_list
           nl == <<o>> \o l
           k == [h EXCEPT !.free_list = <<o>> \o @, !.num_allocated = @ - 1]
           G == H \ {ptr}
           f == [m EXCEPT !.head[q] = k]
<1>1. /\ q \in Q /\ ptr \in H /\ ptr \in PageSet \X Nat /\ ptr \in OnPage(H, q)
      /\ SlotsOK(h, H, q) /\ q \in PageSet
    BY DEF ObjectsOK, SlabOK, OnPage
<1>2. o \in Nat \ {0}
    BY <1>1 DEF LargeOnes, IsLarge
<1>3. /\ h \in SlabHeader /\ l \in Seq(Nat \ {0}) /\ h.num_allocated \in Nat
      /\ h.cache \in Caches
    BY <1>1 DEF SlotsOK, SlabHeader
<1>4. /\ nl \in Seq(Nat \ {0}) /\ Len(l) \in Nat /\ Len(nl) = Len(l) + 1
      /\ nl[1] = o /\ \A i \in 1..Len(l) : nl[i + 1] = l[i]
  <2>1. l \in Seq(Nat \ {0}) /\ <<o>> \in Seq(Nat \ {0}) /\ Len(<<o>>) = 1
    BY <1>2, <1>3
  <2> QED BY SMTT(30), <2>1
<1>5. IsFiniteSet(OnPage(H, q)) /\ Cardinality(OnPage(H, q)) \in Nat
  <2>1. OnPage(H, q) \in SUBSET H /\ IsFiniteSet(H)
    BY DEF OnPage, ObjectsOK
  <2> QED BY <2>1, FS_Subset, FS_CardinalityType
<1>6. OnPage(G, q) = OnPage(H, q) \ {ptr}
    BY DEF OnPage
<1>7. /\ Cardinality(OnPage(G, q)) = Cardinality(OnPage(H, q)) - 1
      /\ Cardinality(OnPage(G, q)) \in Nat
  <2>0. PICK S, x : S = OnPage(H, q) /\ x = ptr /\ IsFiniteSet(S) /\ x \in S
    BY <1>1, <1>5
  <2>3. OnPage(G, q) = S \ {x}
    BY <1>6, <2>0
  <2>4. Cardinality(S \ {x}) = Cardinality(S) - 1 /\ IsFiniteSet(S \ {x})
    BY <2>0, FS_RemoveElement
  <2> HIDE DEF G
  <2>1. Cardinality(OnPage(G, q)) = Cardinality(OnPage(H, q)) - 1
    BY <2>0, <2>3, <2>4
  <2>2. IsFiniteSet(OnPage(G, q))
    BY <2>3, <2>4
  <2> QED BY <2>1, <2>2, FS_CardinalityType
<1>8. h.num_allocated = Cardinality(OnPage(H, q)) /\ h.num_allocated - 1 \in Nat
    BY <1>1, <1>7 DEF SlotsOK
<1>9. /\ k \in SlabHeader
      /\ k.free_list = nl /\ k.num_allocated = h.num_allocated - 1 /\ k.cache = h.cache
  <2>1. PICK x \in SlabHeader : x = h
    BY <1>3
  <2>2. PICK t \in Seq(Nat \ {0}) : t = <<o>> \o x.free_list
    BY <1>4, <2>1
  <2> DEFINE y == [x EXCEPT !.free_list = t]
  <2>3. y \in SlabHeader /\ y.free_list = t /\ y.num_allocated = x.num_allocated
        /\ y.cache = x.cache
    BY DEF SlabHeader
  <2>4. PICK u \in SlabHeader : u = y
    BY <2>3
  <2>7. PICK v \in Nat : v = u.num_allocated - 1
    BY <1>8, <2>1, <2>3, <2>4
  <2> DEFINE z == [u EXCEPT !.num_allocated = v]
  <2>6. k = z
    BY <2>1, <2>2, <2>4, <2>7
  <2> HIDE DEF y
  <2>5. z \in SlabHeader /\ z.free_list = t /\ z.num_allocated = v
        /\ z.cache = u.cache
    BY <2>3, <2>4 DEF SlabHeader
  <2> QED BY <2>1, <2>2, <2>3, <2>4, <2>5, <2>6, <2>7
<1>10. [m EXCEPT !.head[ptr[1]].free_list = <<ptr[2]>> \o @,
                 !.head[ptr[1]].num_allocated = @ - 1] = f
    BY <1>1 DEF Memories
<1>11. SlotsOK(k, G, q)
  <2>1. \A i, j \in 1..Len(l) : l[i] = l[j] => i = j
    BY <1>1 DEF SlotsOK
  <2>2. \A i \in 1..Len(l) : l[i] # o
    BY <1>1 DEF SlotsOK, Contains
  <2>3. ASSUME NEW i \in 1..Len(nl)
        PROVE  \/ i = 1 /\ nl[i] = o
               \/ i \in Int /\ i - 1 \in 1..Len(l) /\ nl[i] = l[i - 1] /\ nl[i] # o
    <3>0. Len(nl) = Len(l) + 1 /\ Len(l) \in Nat /\ i \in 1..(Len(l) + 1)
      BY <1>4
    <3>1. CASE i = 1
      <4>1. nl[1] = o
        BY <1>4
      <4> HIDE DEF nl
      <4> QED BY <3>1, <4>1
    <3>2. CASE i # 1
      <4>1. i \in Int /\ i - 1 \in 1..Len(l) /\ (i - 1) + 1 = i
        BY <3>0, <3>2
      <4>2. nl[i] = l[i - 1]
        BY <1>4, <4>1
      <4> HIDE DEF nl
      <4> QED BY <2>2, <4>1, <4>2
    <3> QED BY <3>1, <3>2
  <2>4. k.free_list = nl /\ k \in SlabHeader /\ k.cache = h.cache
        /\ k.num_allocated = h.num_allocated - 1
    BY <1>9
  <2>5. h.num_allocated + Len(l) = Slots(h.cache)
    BY <1>1 DEF SlotsOK
  <2>11. Len(nl) = Len(l) + 1 /\ Len(l) \in Nat /\ h.num_allocated \in Nat
    BY <1>3, <1>4
  <2> HIDE DEF nl, k
  <2>6. k.num_allocated + Len(k.free_list) = Slots(k.cache)
    <3>1. PICK x \in Nat, y \in Nat : x = h.num_allocated /\ y = Len(l)
      BY <2>11
    <3>2. k.num_allocated = x - 1 /\ Len(k.free_list) = y + 1
      BY <2>4, <2>11, <3>1
    <3>3. x - 1 + (y + 1) = x + y
      OBVIOUS
    <3> QED BY <2>4, <2>5, <3>1, <3>2, <3>3
  <2>7. \A i, j \in 1..Len(nl) : nl[i] = nl[j] => i = j
    <3>1. SUFFICES ASSUME NEW i \in 1..Len(nl), NEW j \in 1..Len(nl), nl[i] = nl[j]
                   PROVE  i = j
      OBVIOUS
    <3>2. CASE i = 1
      BY <2>3, <3>1, <3>2
    <3>3. CASE j = 1
      BY <2>3, <3>1, <3>3
    <3>4. CASE i # 1 /\ j # 1
      <4>1. /\ i \in Int /\ i - 1 \in 1..Len(l) /\ j \in Int /\ j - 1 \in 1..Len(l)
            /\ l[i - 1] = l[j - 1]
        BY <2>3, <3>1, <3>4
      <4>2. i - 1 = j - 1
        BY <2>1, <4>1
      <4> QED BY <4>1, <4>2
    <3> QED BY <3>2, <3>3, <3>4
  <2>8. ASSUME NEW a \in OnPage(G, q), NEW i \in 1..Len(nl), nl[i] = a[2]
        PROVE  FALSE
    <3>1. a \in OnPage(H, q) /\ a # ptr /\ a[1] = q /\ a \in H
      BY <1>6 DEF OnPage
    <3>2. CASE i = 1
      <4>1. a[2] = o
        BY <2>3, <2>8, <3>2
      <4>2. a = <<q, o>> /\ ptr = <<q, o>>
        BY <1>1, <3>1, <4>1 DEF ObjectsOK
      <4> QED BY <3>1, <4>2
    <3>3. CASE i # 1
      <4>1. Contains(l, a[2])
        BY <2>3, <2>8, <3>3 DEF Contains
      <4> QED BY <1>1, <3>1, <4>1 DEF SlotsOK
    <3> QED BY <3>2, <3>3
  <2>9. \A a \in OnPage(G, q) : ~Contains(nl, a[2])
    BY <2>8 DEF Contains
  <2>10. k.num_allocated = Cardinality(OnPage(G, q))
    BY <1>7, <1>8, <2>4
  <2> HIDE DEF G
  <2> QED BY <2>4, <2>6, <2>7, <2>9, <2>10 DEF SlotsOK
<1>12. IsFiniteSet(G) /\ G \subseteq PageSet \X Nat
    BY FS_RemoveElement DEF ObjectsOK
<1>13. LargeOnes(G) = LargeOnes(H) /\ \A a \in G \ LargeOnes(G) : a[1] \in Q
    BY DEF LargeOnes, ObjectsOK
<1>14. \A r \in Q \ {q} : OnPage(G, r) = OnPage(H, r)
    BY DEF OnPage
<1>15. k.cache = m.head[q].cache
    BY <1>9
<1> HIDE DEF k, G
<1>16. f \in Memories /\ FramesOK(f, T, L) /\ ObjectsOK(f, G, T, Q)
    BY <1>1, <1>11, <1>12, <1>13, <1>14, <1>15, SetHeaderOK
<1>17. f.pte = m.pte /\ f.head[q] = k
    BY <1>1 DEF Memories
<1>18. ~Contains(l, o)
    BY <1>1 DEF SlotsOK
<1> HIDE DEF f
<1>19. /\ f.head[q].num_allocated = Cardinality(OnPage(G, q)) /\ f.head[q].cache = h.cache
    BY <1>7, <1>8, <1>9, <1>17
<1> QED BY <1>10, <1>16, <1>17, <1>18, <1>19 DEF G

(* A slab page without objects leaves its list and is given back.          *)
LEMMA ReleaseSlabOK ==
    ASSUME NEW m, NEW H, NEW T, NEW L, NEW Q, NEW q, NEW c,
           m \in Memories, FramesOK(m, T, L), ObjectsOK(m, H, T, Q), q \in Q,
           OnPage(H, q) = {}, c \in Caches, c = m.head[q].cache
    PROVE  Becomes(m, ReleaseSlab(m, c, q), H, T, L, Q \ {q})
<1> DEFINE l == m.list[c]
           w == WithoutAll(l, {q})
           g == [m EXCEPT !.list[c] = w]
           f == vmm_free_pages(g, q, 1)
           R == Run(q, 1)
           P == Q \ {q}
<1>1. f = ReleaseSlab(m, c, q)
    BY DEF ReleaseSlab
<1>2. q \in PageSet /\ q \in Int /\ R = {q}
  <2>1. q \in PageSet
    BY DEF ObjectsOK, SlabOK
  <2>2. q \in Int /\ 1 \in Int
    BY <2>1 DEF PageSet
  <2> QED BY <2>1, <2>2 DEF Run
<1>3. l \in Seq(PageSet)
    BY DEF Memories
<1>4. /\ w \in Seq(PageSet)
      /\ {w[i] : i \in 1..Len(w)} = {l[i] : i \in 1..Len(l)} \ {q}
      /\ (\A i, j \in 1..Len(l) : l[i] = l[j] => i = j)
            => \A i, j \in 1..Len(w) : w[i] = w[j] => i = j
  <2> HIDE DEF l
  <2> QED BY <1>3, WithoutAllFacts
<1> HIDE DEF w
<1>5. /\ g.pmm = m.pmm /\ g.virt = m.virt /\ g.pte = m.pte /\ g.head = m.head
      /\ g.list = [m.list EXCEPT ![c] = w] /\ g \in Memories
    BY <1>4 DEF Memories
<1>6. g.list[c] = w /\ \A d \in Caches \ {c} : g.list[d] = m.list[d]
    BY <1>5 DEF Memories
<1> HIDE DEF g
<1>7. FramesOK(g, T, L)
    BY <1>5 DEF FramesOK, Mapped
<1>8. ObjectsOK(g, H, T, P)
  <2>1. \A a \in LargeOnes(H) : LargeRun(g, a) = LargeRun(m, a) /\ LargeOK(g, a)
    BY <1>5 DEF LargeRun, LargeOK, ObjectsOK
  <2>2. \A r \in P : SlabOK(g, H, r)
    BY <1>5 DEF SlabOK, ObjectsOK
  <2>3. \A a \in H \ LargeOnes(H) : a[1] \in P
    BY DEF ObjectsOK, OnPage
  <2>4. ASSUME NEW d \in Caches PROVE ListOK(g, P, d)
    <3>1. ListOK(m, Q, d)
      BY DEF ObjectsOK
    <3>2. CASE d = c
      <4>1. {r \in P : g.head[r].cache = d} = {r \in Q : m.head[r].cache = d} \ {q}
        BY <1>5
      <4>2. g.list[d] = w /\ m.list[d] = l
        BY <1>6, <3>2
      <4>3. /\ \A i, j \in 1..Len(l) : l[i] = l[j] => i = j
            /\ {l[i] : i \in 1..Len(l)} = {r \in Q : m.head[r].cache = d}
        BY <3>1, <3>2 DEF ListOK
      <4> HIDE DEF l, P
      <4>4. /\ \A i, j \in 1..Len(w) : w[i] = w[j] => i = j
            /\ {w[i] : i \in 1..Len(w)} = {r \in P : g.head[r].cache = d}
        BY <1>4, <4>1, <4>3
      <4> QED BY <4>2, <4>4 DEF ListOK
    <3>3. CASE d # c
      <4>1. {r \in P : g.head[r].cache = d} = {r \in Q : m.head[r].cache = d}
        BY <1>5, <3>3
      <4>2. g.list[d] = m.list[d]
        BY <1>6, <3>3
      <4> HIDE DEF P
      <4> QED BY <3>1, <4>1, <4>2 DEF ListOK
    <3> QED BY <3>2, <3>3
  <2>5. ApartOK(g, H, T, P)
    BY <1>5, <2>1 DEF ApartOK, ObjectsOK
  <2> QED BY <2>1, <2>2, <2>3, <2>4, <2>5 DEF ObjectsOK
<1>9. /\ f \in Memories /\ FramesOK(f, T \ R, L)
      /\ f.list = g.list /\ f.virt = g.virt \ R
      /\ \A p \in PageSet \ R : f.pte[p] = g.pte[p] /\ f.head[p] = g.head[p]
  <2>1. Run(q, 1) \subseteq PageSet /\ 1 \in Int
    BY <1>2
  <2> HIDE DEF R
  <2>2. FreedPages(g, f, q, 1, T, L)
    BY <1>2, <1>5, <1>7, <2>1, FreePagesOK
  <2> QED BY <2>2 DEF FreedPages, R
<1> HIDE DEF f
<1>10. \A s \in T : s \in StackRun(s) /\ s \in PageSet /\ s # q /\ q \notin StackRun(s)
  <2>1. T \subseteq PageSet
    BY DEF FramesOK, Memories
  <2>2. \A s \in T : s \in StackRun(s)
    BY <2>1, MemoryAssumption DEF StackRun, Run, PageSet
  <2> QED BY <2>1, <2>2 DEF ObjectsOK, ApartOK
<1>11. ObjectsOK(f, H, T, P)
  <2>1. P \subseteq PageSet \ R
    BY <1>2 DEF ObjectsOK, SlabOK
  <2>2. \A a \in LargeOnes(H) : LargeRun(g, a) \subseteq PageSet \ R
    <3>1. ASSUME NEW a \in LargeOnes(H) PROVE LargeRun(g, a) \subseteq PageSet \ R
      <4>1. LargeRun(g, a) = LargeRun(m, a)
        BY <1>5 DEF LargeRun
      <4> QED BY <1>2, <4>1 DEF ObjectsOK, ApartOK, LargeOK
    <3> QED BY <3>1
  <2>3. \A s \in T : StackRun(s) \subseteq f.virt
    BY <1>2, <1>5, <1>9, <1>10 DEF ObjectsOK, ApartOK
  <2> DEFINE Z == PageSet \ R
  <2>4. \A p \in Z : f.pte[p] = g.pte[p] /\ f.head[p] = g.head[p]
    BY <1>9
  <2> HIDE DEF Z, P
  <2> QED BY <1>8, <1>9, <2>1, <2>2, <2>3, <2>4, SamePagesOK DEF Z
<1>12. T \ R = T /\ \A s \in T : f.pte[s] = m.pte[s]
    BY <1>2, <1>5, <1>9, <1>10
<1>13. Becomes(m, f, H, T, L, P)
  <2> HIDE DEF P
  <2> QED BY <1>9, <1>11, <1>12 DEF Becomes, SameGuards
<1> QED BY <1>1, <1>13

-----------------------------------------------------------------------------
(***************************************************************************)
(* malloc, free and realloc.                                               *)
(***************************************************************************)
SlabsOf(H) == {a[1] : a \in H \ LargeOnes(H)}

(* Memory as the holders of H and the stacks at T know it: each slab page  *)
(* has an object.                                                          *)
Owned(m, H, T, L) ==
    /\ m \in Memories /\ FramesOK(m, T, L)
    /\ ObjectsOK(m, H, T, SlabsOf(H))

(* A result: no memory and nothing taken, or an object nobody had.         *)
Allocated(m, H, T, L, a) ==
    /\ SameGuards(m, a.m, T)
    /\ \/ a.ptr = NULL /\ Owned(a.m, H, T, L)
       \/ /\ a.ptr # NULL /\ a.ptr \notin H
          /\ Owned(a.m, H \cup {a.ptr}, T, L)

LEMMA NotNull ==
    ASSUME NEW p \in PageSet \X Nat
    PROVE  p # NULL
BY MemoryAssumption DEF PageSet, NULL

(* The guard pages are in use.                                             *)
LEMMA GuardsInUse ==
    ASSUME NEW m \in Memories, NEW T, NEW L, FramesOK(m, T, L)
    PROVE  \A s \in T : s \in m.virt /\ s \in PageSet /\ s \in StackRun(s)
<1>1. T \subseteq m.virt /\ m.virt \subseteq PageSet
    BY DEF FramesOK, Memories
<1> QED BY <1>1, MemoryAssumption DEF StackRun, Run, PageSet

(* slab_alloc takes the first slot of the first page with one, or of a new *)
(* page.                                                                   *)
LEMMA SlabAllocOK ==
    ASSUME NEW m, NEW H, NEW T, NEW L, Owned(m, H, T, L), NEW c \in Caches
    PROVE  Allocated(m, H, T, L, slab_alloc(m, c))
<1> DEFINE Q == SlabsOf(H)
           open == {i \in 1..Len(m.list[c]) : m.head[m.list[c][i]].free_list # <<>>}
<1>1. m \in Memories /\ FramesOK(m, T, L) /\ ObjectsOK(m, H, T, Q)
    BY DEF Owned
<1>2. \A q \in Q : \E a \in H \ LargeOnes(H) : a[1] = q
    BY DEF SlabsOf
<1>3. ASSUME NEW n \in Memories, NEW R, FramesOK(n, T, L), ObjectsOK(n, H, T, R),
             SameGuards(m, n, T), NEW q \in R, R = Q \cup {q}, n.head[q].free_list # <<>>
      PROVE  Allocated(m, H, T, L, TakeSlot([m |-> n, page |-> q]))
  <2> DEFINE a == TakeSlot([m |-> n, page |-> q])
  <2>1. /\ a.m \in Memories /\ FramesOK(a.m, T, L)
        /\ ObjectsOK(a.m, H \cup {a.ptr}, T, R)
        /\ a.m.pte = n.pte /\ a.ptr \notin H
        /\ a.ptr \in PageSet \X Nat /\ a.ptr[1] = q /\ ~IsLarge(a.ptr)
    <3> HIDE DEF Q, open
    <3> QED BY <1>3, TakeSlotOK
  <2> HIDE DEF a
  <2>2. SlabsOf(H \cup {a.ptr}) = R
    <3>1. LargeOnes(H \cup {a.ptr}) = LargeOnes(H)
      BY <2>1 DEF LargeOnes
    <3>2. (H \cup {a.ptr}) \ LargeOnes(H \cup {a.ptr}) = (H \ LargeOnes(H)) \cup {a.ptr}
      BY <2>1, <3>1 DEF LargeOnes
    <3> QED BY <1>3, <2>1, <3>2 DEF SlabsOf
  <2>3. Owned(a.m, H \cup {a.ptr}, T, L)
    BY <2>1, <2>2 DEF Owned
  <2>4. a.ptr # NULL
    BY <2>1, NotNull
  <2>5. SameGuards(m, a.m, T)
    BY <1>3, <2>1 DEF SameGuards
  <2> QED BY <2>1, <2>3, <2>4, <2>5 DEF Allocated, a
<1>4. CASE open # {}
  <2> DEFINE q == m.list[c][Min(open)]
  <2>1. Min(open) \in open
    <3>1. open \in SUBSET Nat
      OBVIOUS
    <3> HIDE DEF open
    <3> QED BY <1>4, <3>1, MinExists
  <2>2. q \in Q /\ m.head[q].free_list # <<>>
    <3>1. PICK i \in open : i = Min(open)
      BY <2>1
    <3>2. m.list[c][i] \in {m.list[c][j] : j \in 1..Len(m.list[c])}
      BY <3>1
    <3>3. ListOK(m, Q, c)
      BY <1>1 DEF ObjectsOK
    <3>4. m.list[c][i] \in Q
      BY <3>2, <3>3 DEF ListOK
    <3> QED BY <3>1, <3>4
  <2> HIDE DEF open
  <2>3. Q = Q \cup {q} /\ SameGuards(m, m, T)
    BY <2>2 DEF SameGuards
  <2>4. slab_alloc(m, c) = TakeSlot([m |-> m, page |-> q])
    BY <1>4 DEF slab_alloc, open
  <2> HIDE DEF Q, q
  <2> QED BY <1>1, <1>3, <2>2, <2>3, <2>4
<1>5. CASE open = {}
  <2> DEFINE a == vmm_alloc_pages(m, 1)
  <2>1. /\ a = [m |-> a.m, page |-> a.page]
        /\ a.m \in Memories /\ FramesOK(a.m, T, L) /\ Grown(m, a.m)
        /\ \/ a.page = -1
           \/ /\ a.page \in PageSet /\ Run(a.page, 1) \subseteq PageSet
              /\ Run(a.page, 1) \cap m.virt = {}
              /\ Run(a.page, 1) \subseteq a.m.virt
              /\ \A p \in Run(a.page, 1) : a.m.pte[p] \in FrameSet
    BY <1>1, AllocPagesOK
  <2>2. slab_alloc(m, c) = TakeSlot(PushPage(Formatted(a, c), c))
    BY <1>5 DEF slab_alloc, slab_grow
  <2> HIDE DEF a, Q, open
  <2>3. /\ ObjectsOK(a.m, H, T, Q) /\ Q \subseteq m.virt
        /\ \A b \in LargeOnes(H) : LargeRun(m, b) \subseteq m.virt /\ LargeRun(a.m, b) = LargeRun(m, b)
        /\ \A q \in PageSet \ m.virt : OnPage(H, q) = {}
    BY <1>1, <2>1, GrownOK
  <2>4. SameGuards(m, a.m, T)
    BY <1>1, <2>1, GuardsInUse DEF SameGuards, Grown
  <2>5. CASE a.page = -1
    <3>1. slab_alloc(m, c) = [m |-> a.m, ptr |-> NULL]
      BY <2>2, <2>5 DEF Formatted, PushPage, TakeSlot
    <3> QED BY <2>1, <2>3, <2>4, <3>1 DEF Allocated, Owned, Q
  <2>6. CASE a.page # -1
    <3> DEFINE q == a.page
               b == PushPage(Formatted([m |-> a.m, page |-> q], c), c)
    <3>1. /\ q \in PageSet /\ q \notin m.virt /\ a.m.pte[q] \in FrameSet
      <4>1. q \in PageSet /\ q \in Int
        BY <2>1, <2>6 DEF PageSet
      <4>2. q \in Run(q, 1)
        BY <4>1 DEF Run
      <4> QED BY <2>1, <2>6, <4>1, <4>2
    <3>2. /\ q \notin Q /\ \A x \in LargeOnes(H) : q \notin LargeRun(a.m, x)
          /\ OnPage(H, q) = {}
      BY <2>3, <3>1
    <3>3. \A s \in T : q \notin StackRun(s)
      BY <1>1, <3>1 DEF ObjectsOK, ApartOK
    <3>4. /\ b = [m |-> b.m, page |-> q]
          /\ b.m \in Memories /\ FramesOK(b.m, T, L)
          /\ ObjectsOK(b.m, H, T, Q \cup {q})
          /\ b.m.pte = a.m.pte
          /\ b.m.head[q].free_list # <<>>
      <4>1. Nobodys(a.m, H, T, Q, q)
        BY <3>1, <3>2, <3>3 DEF Nobodys
      <4> HIDE DEF q, b
      <4>2. GotPage(a.m, H, T, L, Q, q, PushPage(Formatted([m |-> a.m, page |-> q], c), c))
        BY <2>1, <2>3, <4>1, NewSlabOK
      <4> QED BY <4>2 DEF GotPage, b
    <3>5. slab_alloc(m, c) = TakeSlot(b)
      BY <2>1, <2>2
    <3> HIDE DEF q, b
    <3>6. SameGuards(m, b.m, T)
      BY <2>4, <3>4 DEF SameGuards
    <3>7. q \in Q \cup {q}
      OBVIOUS
    <3>8. Allocated(m, H, T, L, TakeSlot([m |-> b.m, page |-> q]))
      BY <1>3, <3>4, <3>6, <3>7
    <3> QED BY <3>4, <3>5, <3>8
  <2> QED BY <2>5, <2>6
<1> QED BY <1>4, <1>5


(* A slot that is given back leaves its page a slab page, unless it was    *)
(* the last one.                                                           *)
LEMMA SlabFreeOK ==
    ASSUME NEW m, NEW H, NEW T, NEW L, Owned(m, H, T, L), NEW ptr \in H, ~IsLarge(ptr)
    PROVE  /\ Owned(slab_free(m, m.head[ptr[1]].cache, ptr), H \ {ptr}, T, L)
           /\ SameGuards(m, slab_free(m, m.head[ptr[1]].cache, ptr), T)
<1> DEFINE q == ptr[1]
           c == m.head[q].cache
           Q == SlabsOf(H)
           G == H \ {ptr}
           g == [m EXCEPT !.head[q].free_list = <<ptr[2]>> \o @,
                          !.head[q].num_allocated = @ - 1]
           f == slab_free(m, c, ptr)
<1>1. m \in Memories /\ FramesOK(m, T, L) /\ ObjectsOK(m, H, T, Q)
    BY DEF Owned
<1>2. ptr \in H \ LargeOnes(H) /\ LargeOnes(G) = LargeOnes(H)
    BY DEF LargeOnes
<1>3. q \in Q /\ c \in Caches
  <2>1. q \in Q
    BY <1>2 DEF SlabsOf
  <2>2. SlabOK(m, H, q)
    BY <1>1, <2>1 DEF ObjectsOK
  <2> QED BY <2>1, <2>2 DEF SlabOK, SlotsOK, SlabHeader
<1>4. /\ g \in Memories /\ FramesOK(g, T, L) /\ ObjectsOK(g, G, T, Q)
      /\ g.pte = m.pte /\ ~Contains(m.head[q].free_list, ptr[2])
      /\ g.head[q].num_allocated = Cardinality(OnPage(G, q))
      /\ g.head[q].cache = c
  <2> HIDE DEF Q
  <2> QED BY <1>1, <1>2, GiveSlotOK, ZenonT(30)
<1>5. f = IF g.head[q].num_allocated = 0 THEN ReleaseSlab(g, c, q) ELSE g
    BY <1>4 DEF slab_free
<1> HIDE DEF g
<1>6. SlabsOf(G) \subseteq Q /\ Q \subseteq SlabsOf(G) \cup {q}
    BY <1>2 DEF SlabsOf
<1>7. CASE Cardinality(OnPage(G, q)) = 0
  <2>1. OnPage(G, q) = {}
    <3>1. IsFiniteSet(OnPage(G, q))
      <4>1. OnPage(G, q) \in SUBSET G /\ IsFiniteSet(G)
        BY <1>4 DEF OnPage, ObjectsOK
      <4> QED BY <4>1, FS_Subset
    <3> QED BY <1>7, <3>1, FS_EmptySet
  <2>2. f = ReleaseSlab(g, c, q)
    BY <1>4, <1>5, <1>7
  <2>3. q \notin SlabsOf(G)
    BY <2>1 DEF SlabsOf, OnPage
  <2>4. SlabsOf(G) = Q \ {q}
    BY <1>6, <2>3
  <2> HIDE DEF Q, G, f, c, q
  <2>5. Becomes(g, f, G, T, L, Q \ {q})
    BY <1>3, <1>4, <2>1, <2>2, ReleaseSlabOK
  <2>6. Owned(f, G, T, L) /\ SameGuards(m, f, T)
    BY <1>4, <2>4, <2>5 DEF Owned, Becomes, SameGuards
  <2> QED BY <2>6 DEF G, f, c, q
<1>8. CASE Cardinality(OnPage(G, q)) # 0
  <2>1. OnPage(G, q) # {}
    BY <1>8, FS_EmptySet
  <2>2. q \in SlabsOf(G)
    <3>1. PICK a \in G : a[1] = q
      BY <2>1 DEF OnPage
    <3>2. a \notin LargeOnes(H)
      BY <1>1, <1>3, <3>1, LargeFacts
    <3> QED BY <1>2, <3>1, <3>2 DEF SlabsOf
  <2>3. SlabsOf(G) = Q
    BY <1>6, <2>2
  <2>4. f = g
    BY <1>4, <1>5, <1>8
  <2> HIDE DEF Q, G, f
  <2>5. Owned(f, G, T, L) /\ SameGuards(m, f, T)
    BY <1>4, <2>3, <2>4 DEF Owned, SameGuards
  <2> QED BY <2>5 DEF G, f
<1> QED BY <1>7, <1>8

(* free takes one object away and disturbs no other.                       *)
LEMMA FreeOK ==
    ASSUME NEW m, NEW H, NEW T, NEW L, Owned(m, H, T, L), NEW ptr \in H
    PROVE  /\ Owned(free_unlocked(m, ptr), H \ {ptr}, T, L)
           /\ SameGuards(m, free_unlocked(m, ptr), T)
<1>1. CASE ~IsLarge(ptr)
    BY <1>1, SlabFreeOK DEF free_unlocked
<1>2. CASE IsLarge(ptr)
  <2> DEFINE f == vmm_free_pages(m, ptr[1] - 1, m.head[ptr[1] - 1].num_pages)
             G == H \ {ptr}
             Q == SlabsOf(H)
  <2>1. f = free_unlocked(m, ptr)
    BY <1>2 DEF free_unlocked
  <2>2. ptr \in LargeOnes(H)
    BY <1>2 DEF LargeOnes
  <2>3. G \ LargeOnes(G) = H \ LargeOnes(H)
    BY <2>2 DEF LargeOnes
  <2>4. SlabsOf(G) = Q
    BY <2>3 DEF SlabsOf
  <2>5. m \in Memories /\ FramesOK(m, T, L) /\ ObjectsOK(m, H, T, Q)
    BY DEF Owned
  <2> HIDE DEF Q
  <2>6. Becomes(m, f, G, T, L, Q)
    BY <2>2, <2>5, FreeLargeOK
  <2> HIDE DEF f
  <2> QED BY <2>1, <2>4, <2>6 DEF Owned, Becomes
<1> QED BY <1>1, <1>2

(* A large object gets a run of pages that was free.                       *)
LEMMA LargeAllocOK ==
    ASSUME NEW m, NEW H, NEW T, NEW L, Owned(m, H, T, L), NEW n \in Nat, n >= 2
    PROVE  Allocated(m, H, T, L, Large(vmm_alloc_pages(m, n), n))
<1> DEFINE Q == SlabsOf(H)
           a == vmm_alloc_pages(m, n)
<1>1. m \in Memories /\ FramesOK(m, T, L) /\ ObjectsOK(m, H, T, Q)
    BY DEF Owned
<1>2. /\ a.m \in Memories /\ FramesOK(a.m, T, L) /\ Grown(m, a.m)
      /\ \/ a.page = -1
         \/ /\ a.page \in PageSet /\ Run(a.page, n) \subseteq PageSet
            /\ Run(a.page, n) \cap m.virt = {}
            /\ Run(a.page, n) \subseteq a.m.virt
            /\ \A p \in Run(a.page, n) : a.m.pte[p] \in FrameSet
    BY <1>1, AllocPagesOK
<1> HIDE DEF a, Q
<1>3. /\ ObjectsOK(a.m, H, T, Q) /\ Q \subseteq m.virt
      /\ \A b \in LargeOnes(H) : LargeRun(m, b) \subseteq m.virt /\ LargeRun(a.m, b) = LargeRun(m, b)
    BY <1>1, <1>2, GrownOK
<1>4. SameGuards(m, a.m, T)
    BY <1>1, <1>2, GuardsInUse DEF SameGuards, Grown
<1>5. CASE a.page = -1
  <2>1. Large(a, n) = [m |-> a.m, ptr |-> NULL]
    BY <1>5 DEF Large
  <2> QED BY <1>2, <1>3, <1>4, <2>1 DEF Allocated, Owned, Q, a
<1>6. CASE a.page # -1
  <2> DEFINE p == a.page
             f == [a.m EXCEPT !.head[p] = [kind |-> "large", num_pages |-> n]]
             ptr == <<p + 1, 0>>
  <2>1. Large(a, n) = [m |-> f, ptr |-> ptr]
    BY <1>6 DEF Large
  <2>2. p \in PageSet /\ Run(p, n) \subseteq PageSet /\ \A x \in Run(p, n) : a.m.pte[x] \in FrameSet
    BY <1>2, <1>6
  <2>3. /\ Run(p, n) \cap Q = {}
        /\ \A b \in LargeOnes(H) : Run(p, n) \cap LargeRun(a.m, b) = {}
        /\ \A s \in T : Run(p, n) \cap StackRun(s) = {}
    BY <1>1, <1>2, <1>3, <1>6 DEF ObjectsOK, ApartOK
  <2>4. NobodysRun(a.m, H, T, Q, p, n)
    BY <2>2, <2>3 DEF NobodysRun
  <2>5. Becomes(a.m, f, H \cup {ptr}, T, L, Q) /\ ptr \notin H
    BY <1>2, <1>3, <2>4, AddLargeOK
  <2>6. ptr # NULL /\ IsLarge(ptr)
    BY DEF NULL, IsLarge
  <2> HIDE DEF f, ptr
  <2>7. SlabsOf(H \cup {ptr}) = Q
    <3>1. (H \cup {ptr}) \ LargeOnes(H \cup {ptr}) = H \ LargeOnes(H)
      BY <2>6 DEF LargeOnes
    <3> QED BY <3>1 DEF SlabsOf, Q
  <2>8. Owned(f, H \cup {ptr}, T, L) /\ SameGuards(m, f, T)
    BY <1>4, <2>5, <2>7 DEF Owned, Becomes, SameGuards
  <2> QED BY <2>1, <2>5, <2>6, <2>8 DEF Allocated, a
<1> QED BY <1>5, <1>6

(* A large object takes two pages at least.                                *)
LEMMA PagesForFacts ==
    ASSUME NEW size \in Nat \ {0}
    PROVE  PagesFor(size) \in Nat /\ PagesFor(size) >= 2
<1>1. PICK P \in Nat : P = PAGE_SIZE /\ P >= 1
    BY MemoryAssumption
<1>2. PICK x \in Nat : x = size + P + P - 1 /\ x >= 2 * P
  <2>1. size + P + P - 1 \in Nat /\ size + P + P - 1 >= 2 * P
    BY <1>1
  <2> QED BY <2>1
<1>3. x \div P \in Nat /\ x \div P >= 2
    BY <1>1, <1>2
<1> QED BY <1>1, <1>2, <1>3 DEF PagesFor

(* malloc gives out an object that nobody has.                             *)
LEMMA MallocOK ==
    ASSUME NEW m, NEW H, NEW T, NEW L, Owned(m, H, T, L), NEW size \in Nat \ {0}
    PROVE  Allocated(m, H, T, L, malloc_unlocked(m, size))
<1>1. CASE CacheFor(size) # 0
  <2>1. CacheFor(size) \in Caches
    <3> DEFINE fits == {c \in Caches : size <= ObjectSizes[c]}
    <3>1. fits \in SUBSET Nat /\ fits \subseteq Caches
      BY DEF Caches
    <3>2. fits # {} /\ CacheFor(size) = Min(fits)
      BY <1>1 DEF CacheFor
    <3> HIDE DEF fits
    <3> QED BY <3>1, <3>2, MinExists
  <2>2. malloc_unlocked(m, size) = slab_alloc(m, CacheFor(size))
    BY <1>1 DEF malloc_unlocked
  <2> QED BY <2>1, <2>2, SlabAllocOK
<1>2. CASE CacheFor(size) = 0
  <2>1. malloc_unlocked(m, size) = Large(vmm_alloc_pages(m, PagesFor(size)), PagesFor(size))
    BY <1>2 DEF malloc_unlocked
  <2>2. PICK n \in Nat : n = PagesFor(size) /\ n >= 2
    BY PagesForFacts
  <2>3. Allocated(m, H, T, L, Large(vmm_alloc_pages(m, n), n))
    BY <2>2, LargeAllocOK
  <2> QED BY <2>1, <2>2, <2>3
<1> QED BY <1>1, <1>2

(* A block that moves is freed after the new one was found.                *)
LEMMA RelocatedOK ==
    ASSUME NEW m, NEW H, NEW T, NEW L, NEW ptr \in H, NEW size \in Nat \ {0},
           Owned(m, H, T, L), NEW a, a = malloc_unlocked(m, size)
    PROVE  LET r == Relocated(a, ptr)
           IN  /\ SameGuards(m, r.m, T)
               /\ r.ptr = a.ptr
               /\ Owned(r.m, IF r.ptr = NULL THEN H ELSE (H \ {ptr}) \cup {r.ptr}, T, L)
<1>1. Allocated(m, H, T, L, a)
    BY MallocOK
<1>2. CASE a.ptr = NULL
  <2>1. Owned(a.m, H, T, L) /\ SameGuards(m, a.m, T)
    BY <1>1, <1>2 DEF Allocated
  <2> QED BY <1>2, <2>1 DEF Relocated
<1>3. CASE a.ptr # NULL
  <2> DEFINE f == free_unlocked(a.m, ptr)
             G == H \cup {a.ptr}
  <2>1. Owned(a.m, G, T, L) /\ SameGuards(m, a.m, T) /\ a.ptr \notin H
    BY <1>1, <1>3 DEF Allocated
  <2>2. Owned(f, G \ {ptr}, T, L) /\ SameGuards(a.m, f, T)
    BY <2>1, FreeOK
  <2>3. G \ {ptr} = (H \ {ptr}) \cup {a.ptr}
    BY <2>1
  <2>4. SameGuards(m, f, T)
    BY <2>1, <2>2 DEF SameGuards
  <2> HIDE DEF f
  <2>5. Relocated(a, ptr).m = f /\ Relocated(a, ptr).ptr = a.ptr
    <3>1. Relocated(a, ptr) = [a EXCEPT !.m = f]
      BY <1>3 DEF Relocated, f
    <3>2. a = [m |-> a.m, ptr |-> a.ptr]
      <4>1. \A b, k : Large(b, k) = [m |-> Large(b, k).m, ptr |-> Large(b, k).ptr]
        BY DEF Large
      <4>2. \A b : TakeSlot(b) = [m |-> TakeSlot(b).m, ptr |-> TakeSlot(b).ptr]
        BY DEF TakeSlot
      <4> QED BY <4>1, <4>2 DEF malloc_unlocked, slab_alloc
    <3> QED BY <3>1, <3>2
  <2> QED BY <1>3, <2>2, <2>3, <2>4, <2>5
<1> QED BY <1>2, <1>3

-----------------------------------------------------------------------------
(***************************************************************************)
(* Stacks and devices.                                                     *)
(***************************************************************************)

(* A fresh run becomes a stack: its first page will be the guard.          *)
LEMMA AddStackOK ==
    ASSUME NEW m, NEW H, NEW T, NEW L, Owned(m, H, T, L), NEW p,
           NobodysRun(m, H, T, SlabsOf(H), p, StackPages),
           Run(p, StackPages) \subseteq m.virt
    PROVE  Owned(m, H, T \cup {p}, L) /\ p \notin T
<1> DEFINE Q == SlabsOf(H)
           U == T \cup {p}
<1>1. m \in Memories /\ FramesOK(m, T, L) /\ ObjectsOK(m, H, T, Q)
    BY DEF Owned
<1>2. /\ StackRun(p) \subseteq m.virt /\ StackRun(p) \cap Q = {}
      /\ \A a \in LargeOnes(H) : StackRun(p) \cap LargeRun(m, a) = {}
      /\ \A s \in T : StackRun(s) \cap StackRun(p) = {}
    BY DEF NobodysRun, StackRun
<1> HIDE DEF Q
<1>3. p \in StackRun(p) /\ p \in PageSet
    BY MemoryAssumption DEF NobodysRun, StackRun, Run, PageSet
<1>4. p \notin T
    BY <1>1, <1>2, <1>3, GuardsInUse
<1>5. FramesOK(m, U, L)
    BY <1>1, <1>2, <1>3 DEF FramesOK
<1>6. ApartOK(m, H, U, Q)
  <2>1. ApartOK(m, H, T, Q)
    BY <1>1 DEF ObjectsOK
  <2>2. \A s, t \in U : s # t => StackRun(s) \cap StackRun(t) = {}
    BY <1>2, <2>1 DEF ApartOK
  <2> QED BY <1>2, <2>1, <2>2 DEF ApartOK
<1>7. ObjectsOK(m, H, U, Q)
    BY <1>1, <1>6 DEF ObjectsOK
<1> QED BY <1>1, <1>4, <1>5, <1>7 DEF Owned, Q

(* A stack's whole run is given back, its guard page included.             *)
LEMMA FreeStackOK ==
    ASSUME NEW m, NEW H, NEW T, NEW L, Owned(m, H, T, L), NEW p \in T
    PROVE  /\ Owned(vmm_free_pages(m, p, StackPages), H, T \ {p}, L)
           /\ SameGuards(m, vmm_free_pages(m, p, StackPages), T \ {p})
<1> DEFINE Q == SlabsOf(H)
           U == T \ {p}
           R == Run(p, StackPages)
           f == vmm_free_pages(m, p, StackPages)
<1>1. m \in Memories /\ FramesOK(m, T, L) /\ ObjectsOK(m, H, T, Q)
    BY DEF Owned
<1>2. \A s \in T : s \in m.virt /\ s \in PageSet /\ s \in StackRun(s)
    BY <1>1, GuardsInUse
<1> HIDE DEF Q
<1>3. /\ R = StackRun(p) /\ R \subseteq m.virt /\ R \cap Q = {} /\ m.virt \subseteq PageSet
      /\ \A a \in LargeOnes(H) : R \cap LargeRun(m, a) = {}
      /\ \A s \in U : StackRun(s) \subseteq m.virt /\ StackRun(s) \cap R = {}
    BY <1>1 DEF ObjectsOK, ApartOK, StackRun, Memories
<1> HIDE DEF R, f
<1>4. T \ R = U
  <2>1. p \in R
    BY <1>2, <1>3
  <2>2. ASSUME NEW s \in U PROVE s \notin R
    <3>1. s \in StackRun(s) /\ StackRun(s) \cap R = {}
      BY <1>2, <1>3
    <3> QED BY <3>1
  <2> QED BY <2>1, <2>2
<1>5. /\ f \in Memories /\ FramesOK(f, U, L) /\ f.list = m.list
      /\ f.virt = m.virt \ R
      /\ \A x \in PageSet \ R : f.pte[x] = m.pte[x] /\ f.head[x] = m.head[x]
  <2>1. p \in Int /\ StackPages \in Int /\ Run(p, StackPages) \subseteq PageSet
    <3>1. R \subseteq PageSet
      BY <1>3
    <3>2. p \in PageSet
      BY <1>2
    <3> QED BY <3>1, <3>2, MemoryAssumption DEF PageSet, R
  <2>2. FreedPages(m, vmm_free_pages(m, p, StackPages), p, StackPages, T, L)
    BY <1>1, <2>1, FreePagesOK
  <2>3. FreedPages(m, f, p, StackPages, T, L)
    BY <2>2 DEF f
  <2> HIDE DEF U
  <2> QED BY <1>4, <2>3 DEF FreedPages, R
<1> HIDE DEF U
<1>6. ObjectsOK(m, H, U, Q)
    BY <1>1 DEF ObjectsOK, ApartOK, U
<1>7. ObjectsOK(f, H, U, Q)
  <2> DEFINE Z == PageSet \ R
  <2>1. Q \subseteq Z /\ \A a \in LargeOnes(H) : LargeRun(m, a) \subseteq Z
    BY <1>3, <1>6 DEF ObjectsOK, SlabOK, LargeOK
  <2>2. \A x \in Z : f.pte[x] = m.pte[x] /\ f.head[x] = m.head[x]
    BY <1>5
  <2>3. ASSUME NEW s \in U PROVE StackRun(s) \subseteq f.virt
    <3>1. StackRun(s) \subseteq m.virt /\ StackRun(s) \cap R = {}
      BY <1>3
    <3> QED BY <1>5, <3>1
  <2> HIDE DEF Z
  <2> QED BY <1>5, <1>6, <2>1, <2>2, <2>3, SamePagesOK
<1>8. SameGuards(m, f, U)
  <2>1. \A s \in U : s \in PageSet /\ s \notin R
    BY <1>2, <1>4
  <2> QED BY <1>5, <2>1 DEF SameGuards
<1> QED BY <1>5, <1>7, <1>8 DEF Owned, f, Q, U

(* A guard page is unmapped: its frame belongs to no page any more.        *)
LEMMA UnmapGuardOK ==
    ASSUME NEW m, NEW H, NEW T, Owned(m, H, T, {}), NEW p \in T, m.pte[p] \in FrameSet
    PROVE  /\ Owned([m EXCEPT !.pte[p] = Unmapped], H, T, {m.pte[p]})
           /\ [m EXCEPT !.pte[p] = Unmapped].pte[p] = Unmapped
<1> DEFINE Q == SlabsOf(H)
           f == [m EXCEPT !.pte[p] = Unmapped]
           L == {m.pte[p]}
<1>1. m \in Memories /\ FramesOK(m, T, {}) /\ ObjectsOK(m, H, T, Q)
    BY DEF Owned
<1> HIDE DEF Q
<1>2. p \in PageSet /\ p \in StackRun(p)
    BY <1>1, GuardsInUse
<1>3. Unmapped \in -1..Frames /\ Unmapped \notin FrameSet /\ Device \notin FrameSet
    BY MemoryAssumption DEF FrameSet, Unmapped, Device
<1>4. /\ f.pmm = m.pmm /\ f.virt = m.virt /\ f.head = m.head /\ f.list = m.list
      /\ f.pte = [m.pte EXCEPT ![p] = Unmapped] /\ f \in Memories
    BY <1>1, <1>3 DEF Memories
<1>5. f.pte[p] = Unmapped /\ \A x \in PageSet \ {p} : f.pte[x] = m.pte[x]
    BY <1>1, <1>2, <1>4 DEF Memories
<1> HIDE DEF f
<1>6. Mapped(f) = Mapped(m) \ {p} /\ p \in Mapped(m)
    BY <1>2, <1>3, <1>5 DEF Mapped
<1>7. \A x \in Mapped(f) : x \in PageSet /\ x \in Mapped(m) /\ x # p /\ f.pte[x] = m.pte[x]
    BY <1>5, <1>6 DEF Mapped
<1>8. FramesOK(f, T, L)
  <2>1. f.pmm = {f.pte[x] : x \in Mapped(f)} \cup L
    BY <1>1, <1>4, <1>6, <1>7 DEF FramesOK
  <2>2. \A x, y \in Mapped(f) : f.pte[x] = f.pte[y] => x = y
    BY <1>1, <1>7 DEF FramesOK
  <2>3. \A x \in Mapped(f) : f.pte[x] \notin L
    BY <1>1, <1>6, <1>7 DEF FramesOK
  <2>4. f.virt = {x \in PageSet : f.pte[x] # Unmapped} \cup T
    BY <1>1, <1>4, <1>5 DEF FramesOK
  <2> QED BY <2>1, <2>2, <2>3, <2>4 DEF FramesOK
<1>9. ObjectsOK(f, H, T, Q)
  <2> DEFINE Z == PageSet \ {p}
  <2>1. Q \subseteq Z /\ \A a \in LargeOnes(H) : LargeRun(m, a) \subseteq Z
    BY <1>1, <1>2 DEF ObjectsOK, ApartOK, SlabOK, LargeOK
  <2>2. \A x \in Z : f.pte[x] = m.pte[x] /\ f.head[x] = m.head[x]
    BY <1>4, <1>5
  <2>3. \A s \in T : StackRun(s) \subseteq f.virt
    BY <1>1, <1>4 DEF ObjectsOK, ApartOK
  <2> HIDE DEF Z
  <2> QED BY <1>1, <1>4, <2>1, <2>2, <2>3, SamePagesOK
<1> QED BY <1>4, <1>5, <1>8, <1>9 DEF Owned, f, Q

(* A frame of no page is given back.                                       *)
LEMMA FreeFrameOK ==
    ASSUME NEW m, NEW H, NEW T, NEW x \in FrameSet, Owned(m, H, T, {x})
    PROVE  Owned(pmm_free_frame(m, x), H, T, {}) /\ pmm_free_frame(m, x).pte = m.pte
<1> DEFINE Q == SlabsOf(H)
           f == [m EXCEPT !.pmm = @ \ {x}]
<1>1. m \in Memories /\ FramesOK(m, T, {x}) /\ ObjectsOK(m, H, T, Q)
    BY DEF Owned
<1> HIDE DEF Q
<1>2. pmm_free_frame(m, x) = f
    BY MemoryAssumption DEF pmm_free_frame, FrameSet
<1>3. /\ f.pmm = m.pmm \ {x} /\ f.virt = m.virt /\ f.head = m.head /\ f.list = m.list
      /\ f.pte = m.pte /\ f \in Memories
    BY <1>1 DEF Memories
<1> HIDE DEF f
<1>4. FramesOK(f, T, {})
    BY <1>1, <1>3 DEF FramesOK, Mapped
<1>5. ObjectsOK(f, H, T, Q)
  <2>1. Q \subseteq PageSet /\ \A a \in LargeOnes(H) : LargeRun(m, a) \subseteq PageSet
    BY <1>1 DEF ObjectsOK, SlabOK, LargeOK
  <2>2. \A s \in T : StackRun(s) \subseteq f.virt
    BY <1>1, <1>3 DEF ObjectsOK, ApartOK
  <2> QED BY <1>1, <1>3, <2>1, <2>2, SamePagesOK
<1> QED BY <1>2, <1>3, <1>4, <1>5 DEF Owned, Q

(* A device's region takes a free page and no frame.                       *)
LEMMA MapDeviceOK ==
    ASSUME NEW m, NEW H, NEW T, NEW L, Owned(m, H, T, L), NEW p \in PageSet \ m.virt
    PROVE  LET f == [m EXCEPT !.virt = @ \cup {p}, !.pte = vmm_map_page(@, p, Device)]
           IN  Owned(f, H, T, L) /\ SameGuards(m, f, T)
<1> DEFINE Q == SlabsOf(H)
           f == [m EXCEPT !.virt = @ \cup {p}, !.pte = vmm_map_page(@, p, Device)]
<1>1. m \in Memories /\ FramesOK(m, T, L) /\ ObjectsOK(m, H, T, Q)
    BY DEF Owned
<1> HIDE DEF Q
<1>2. Device \in -1..Frames /\ Device # Unmapped
    BY MemoryAssumption DEF Unmapped, Device
<1>3. /\ f.pmm = m.pmm /\ f.virt = m.virt \cup {p} /\ f.head = m.head /\ f.list = m.list
      /\ f.pte = [m.pte EXCEPT ![p] = Device] /\ f \in Memories
    BY <1>1, <1>2 DEF Memories, vmm_map_page
<1>4. f.pte[p] = Device /\ \A x \in PageSet \ {p} : f.pte[x] = m.pte[x]
    BY <1>1, <1>3 DEF Memories
<1> HIDE DEF f
<1>5. m.pte[p] = Unmapped
    BY <1>1 DEF FramesOK
<1>6. /\ Mapped(f) = Mapped(m)
      /\ \A x \in Mapped(m) : f.pte[x] = m.pte[x]
    BY <1>4, <1>5 DEF Mapped
<1>7. FramesOK(f, T, L)
  <2>1. f.virt = {x \in PageSet : f.pte[x] # Unmapped} \cup T
    BY <1>1, <1>2, <1>3, <1>4 DEF FramesOK
  <2> QED BY <1>1, <1>3, <1>6, <2>1 DEF FramesOK
<1>8. m.virt \subseteq PageSet
    BY <1>1 DEF Memories
<1>9. Grown(m, f)
    BY <1>3, <1>4, <1>8 DEF Grown
<1>10. ObjectsOK(f, H, T, Q)
    BY <1>1, <1>3, <1>9, GrownOK
<1>11. SameGuards(m, f, T)
    BY <1>1, <1>9, GuardsInUse DEF SameGuards, Grown
<1> QED BY <1>3, <1>7, <1>10, <1>11 DEF Owned, f, Q

-----------------------------------------------------------------------------
(***************************************************************************)
(* The inductive invariant.                                                *)
(***************************************************************************)
Guards(st, g) == st \cup (IF g # NULL THEN {g[1]} ELSE {})
Limbo(m, g) == IF g # NULL /\ m.pte[g[1]] = Unmapped THEN {g[2]} ELSE {}

(* The stack being set up: its first page still has its frame, or has lost *)
(* it and the frame is known.                                              *)
GuardOK(m, st, g) ==
    g # NULL => /\ g[1] \notin st /\ g[2] \in FrameSet
                /\ m.pte[g[1]] \in {Unmapped, g[2]}

MemInv ==
    /\ Owned(mem, held_ptrs, Guards(stacks, guard), Limbo(mem, guard))
    /\ GuardOK(mem, stacks, guard)

(* The kernel starts with nothing given out.                               *)
LEMMA MemInitOK == MemInit => MemInv
<1> SUFFICES ASSUME MemInit PROVE MemInv
    OBVIOUS
<1>1. /\ mem.pmm = {} /\ mem.virt = {} /\ mem.pte = [p \in PageSet |-> Unmapped]
      /\ mem.head = [p \in PageSet |-> NoHeader]
      /\ mem.list = [c \in Caches |-> <<>>] /\ held_ptrs = {} /\ stacks = {} /\ guard = NULL
    BY DEF MemInit
<1>2. mem \in Memories
  <2>1. Unmapped \in -1..Frames
    BY MemoryAssumption DEF Unmapped
  <2>2. <<>> \in Seq(PageSet)
    OBVIOUS
  <2> QED BY <2>1, <2>2 DEF MemInit, Memories
<1>3. Guards(stacks, guard) = {} /\ Limbo(mem, guard) = {} /\ GuardOK(mem, stacks, guard)
    BY <1>1 DEF Guards, Limbo, GuardOK
<1>4. FramesOK(mem, {}, {})
    BY <1>1 DEF FramesOK, Mapped
<1>5. SlabsOf(held_ptrs) = {} /\ LargeOnes(held_ptrs) = {} /\ IsFiniteSet(held_ptrs)
    BY <1>1, FS_EmptySet DEF SlabsOf, LargeOnes
<1>6. \A c \in Caches : ListOK(mem, {}, c)
  <2>1. ASSUME NEW c \in Caches PROVE ListOK(mem, {}, c)
    <3>1. mem.list[c] = <<>> /\ 1..Len(<<>>) = {}
      BY <1>1
    <3> QED BY <3>1 DEF ListOK
  <2> QED BY <2>1
<1>7. ObjectsOK(mem, held_ptrs, {}, SlabsOf(held_ptrs))
    BY <1>1, <1>5, <1>6 DEF ObjectsOK, ApartOK
<1> QED BY <1>2, <1>3, <1>4, <1>7 DEF MemInv, Owned

(* What is left of the guards' facts by a call that keeps their pages.     *)
LEMMA KeepsGuards ==
    ASSUME NEW m, NEW f, NEW st, NEW g, GuardOK(m, st, g),
           SameGuards(m, f, Guards(st, g))
    PROVE  Limbo(f, g) = Limbo(m, g) /\ GuardOK(f, st, g)
<1>1. g # NULL => f.pte[g[1]] = m.pte[g[1]]
    BY DEF SameGuards, Guards
<1> QED BY <1>1 DEF Limbo, GuardOK

(* malloc.                                                                 *)
LEMMA MallocStep == ASSUME MemInv, NEW s \in Sizes, malloc(s) PROVE MemInv'
<1> DEFINE T == Guards(stacks, guard)
           L == Limbo(mem, guard)
           a == malloc_unlocked(mem, s)
<1>1. mem' = a.m /\ held_ptrs' = held_ptrs \cup ({a.ptr} \ {NULL})
      /\ stacks' = stacks /\ guard' = guard
    BY DEF malloc
<1>2. Owned(mem, held_ptrs, T, L) /\ GuardOK(mem, stacks, guard)
    BY DEF MemInv
<1>3. s \in Nat \ {0}
    BY MemoryAssumption
<1> HIDE DEF T, L
<1>4. Allocated(mem, held_ptrs, T, L, a)
    BY <1>2, <1>3, MallocOK
<1> HIDE DEF a
<1>5. Owned(mem', held_ptrs', T, L) /\ SameGuards(mem, mem', T)
  <2>1. CASE a.ptr = NULL
    <3>1. held_ptrs' = held_ptrs
      BY <1>1, <2>1
    <3>2. Owned(a.m, held_ptrs, T, L)
      BY <1>4, <2>1 DEF Allocated
    <3> QED BY <1>1, <1>4, <3>1, <3>2 DEF Allocated
  <2>2. CASE a.ptr # NULL
    <3>1. held_ptrs' = held_ptrs \cup {a.ptr}
      BY <1>1, <2>2
    <3>2. Owned(a.m, held_ptrs \cup {a.ptr}, T, L)
      BY <1>4, <2>2 DEF Allocated
    <3> QED BY <1>1, <1>4, <3>1, <3>2 DEF Allocated
  <2> QED BY <2>1, <2>2
<1>6. Limbo(mem', guard) = L /\ GuardOK(mem', stacks, guard)
    BY <1>2, <1>5, KeepsGuards DEF T, L
<1>7. Guards(stacks', guard') = T /\ Limbo(mem', guard') = L /\ GuardOK(mem', stacks', guard')
    BY <1>1, <1>6 DEF T
<1> QED BY <1>5, <1>7 DEF MemInv

(* free.                                                                   *)
LEMMA FreeStep == ASSUME MemInv, NEW ptr \in held_ptrs, free(ptr) PROVE MemInv'
<1> DEFINE T == Guards(stacks, guard)
           L == Limbo(mem, guard)
<1>1. mem' = free_unlocked(mem, ptr) /\ held_ptrs' = held_ptrs \ {ptr}
      /\ stacks' = stacks /\ guard' = guard
    BY DEF free
<1>2. Owned(mem, held_ptrs, T, L) /\ GuardOK(mem, stacks, guard)
    BY DEF MemInv
<1> HIDE DEF T, L
<1>3. Owned(mem', held_ptrs', T, L) /\ SameGuards(mem, mem', T)
    BY <1>1, <1>2, FreeOK
<1>4. Limbo(mem', guard) = L /\ GuardOK(mem', stacks, guard)
    BY <1>2, <1>3, KeepsGuards DEF T, L
<1>5. Guards(stacks', guard') = T /\ Limbo(mem', guard') = L /\ GuardOK(mem', stacks', guard')
    BY <1>1, <1>4 DEF T
<1> QED BY <1>3, <1>5 DEF MemInv

(* realloc.                                                                *)
LEMMA ReallocStep ==
    ASSUME MemInv, NEW ptr \in held_ptrs, NEW s \in Sizes, realloc(ptr, s)
    PROVE  MemInv'
<1> DEFINE T == Guards(stacks, guard)
           L == Limbo(mem, guard)
           a == realloc_unlocked(mem, ptr, s)
           G == IF a.ptr = NULL THEN held_ptrs ELSE (held_ptrs \ {ptr}) \cup {a.ptr}
<1>1. mem' = a.m /\ held_ptrs' = G /\ stacks' = stacks /\ guard' = guard
    BY DEF realloc
<1>2. Owned(mem, held_ptrs, T, L) /\ GuardOK(mem, stacks, guard)
    BY DEF MemInv
<1>3. s \in Nat \ {0}
    BY MemoryAssumption
<1> HIDE DEF T, L
<1>4. Owned(a.m, G, T, L) /\ SameGuards(mem, a.m, T)
  <2>1. CASE StaysInPlace(mem, ptr, s)
    <3>1. a = [m |-> mem, ptr |-> ptr]
      BY <2>1 DEF realloc_unlocked
    <3>2. a.m = mem /\ a.ptr = ptr
      BY <3>1
    <3> HIDE DEF a
    <3>3. G = held_ptrs
      BY <3>2
    <3> HIDE DEF G
    <3> QED BY <1>2, <3>2, <3>3 DEF SameGuards
  <2>2. CASE ~StaysInPlace(mem, ptr, s)
    <3>1. PICK b : b = malloc_unlocked(mem, s)
      OBVIOUS
    <3>2. a = Relocated(b, ptr)
      BY <2>2, <3>1 DEF realloc_unlocked
    <3> HIDE DEF a
    <3>3. SameGuards(mem, a.m, T) /\ Owned(a.m, G, T, L)
      BY <1>2, <1>3, <3>1, <3>2, RelocatedOK
    <3> QED BY <3>3
  <2> QED BY <2>1, <2>2
<1> HIDE DEF a, G
<1>5. Limbo(mem', guard) = L /\ GuardOK(mem', stacks, guard)
    BY <1>1, <1>2, <1>4, KeepsGuards DEF T, L
<1>6. Guards(stacks', guard') = T /\ Limbo(mem', guard') = L /\ GuardOK(mem', stacks', guard')
    BY <1>1, <1>5 DEF T
<1> QED BY <1>1, <1>4, <1>6 DEF MemInv

(* thread_setup_stack maps a stack.                                        *)
LEMMA AllocStackStep == ASSUME MemInv, AllocStack PROVE MemInv'
<1> DEFINE T == Guards(stacks, guard)
           L == Limbo(mem, guard)
           Q == SlabsOf(held_ptrs)
           a == vmm_alloc_pages(mem, StackPages)
           p == a.page
<1>1. /\ mem' = a.m /\ held_ptrs' = held_ptrs /\ stacks' = stacks /\ guard = NULL
      /\ guard' = IF a.page = -1 THEN NULL ELSE <<a.page, a.m.pte[a.page]>>
    BY DEF AllocStack
<1>2. Owned(mem, held_ptrs, T, L)
    BY DEF MemInv
<1>3. T = stacks /\ L = {}
    BY <1>1 DEF Guards, Limbo
<1> HIDE DEF T, L
<1>4. mem \in Memories /\ FramesOK(mem, T, L) /\ ObjectsOK(mem, held_ptrs, T, Q)
    BY <1>2 DEF Owned
<1>5. /\ a.m \in Memories /\ FramesOK(a.m, T, L) /\ Grown(mem, a.m)
      /\ \/ a.page = -1
         \/ /\ a.page \in PageSet /\ Run(a.page, StackPages) \subseteq PageSet
            /\ Run(a.page, StackPages) \cap mem.virt = {}
            /\ Run(a.page, StackPages) \subseteq a.m.virt
            /\ \A x \in Run(a.page, StackPages) : a.m.pte[x] \in FrameSet
    BY <1>4, AllocPagesOK, MemoryAssumption
<1> HIDE DEF a, Q
<1>6. /\ ObjectsOK(a.m, held_ptrs, T, Q) /\ Q \subseteq mem.virt
      /\ \A b \in LargeOnes(held_ptrs) :
            LargeRun(mem, b) \subseteq mem.virt /\ LargeRun(a.m, b) = LargeRun(mem, b)
    BY <1>4, <1>5, GrownOK
<1>7. Owned(a.m, held_ptrs, T, L)
    BY <1>5, <1>6 DEF Owned, Q
<1>8. CASE a.page = -1
  <2>1. guard' = NULL
    BY <1>1, <1>8
  <2>2. Guards(stacks', guard') = T /\ Limbo(mem', guard') = L /\ GuardOK(mem', stacks', guard')
    BY <1>1, <1>3, <2>1 DEF Guards, Limbo, GuardOK
  <2> QED BY <1>1, <1>7, <2>2 DEF MemInv
<1>9. CASE a.page # -1
  <2>1. /\ p \in PageSet /\ Run(p, StackPages) \subseteq PageSet
        /\ Run(p, StackPages) \cap mem.virt = {} /\ Run(p, StackPages) \subseteq a.m.virt
        /\ \A x \in Run(p, StackPages) : a.m.pte[x] \in FrameSet
    BY <1>5, <1>9
  <2>2. guard' = <<p, a.m.pte[p]>>
    BY <1>1, <1>9
  <2> HIDE DEF p
  <2>3. StackPages \in Nat /\ StackPages >= 2 /\ p \in Run(p, StackPages) /\ p # -1
    BY <2>1, MemoryAssumption DEF PageSet, Run
  <2>4. NobodysRun(a.m, held_ptrs, T, Q, p, StackPages)
    <3>1. \A s \in T : Run(p, StackPages) \cap StackRun(s) = {}
      BY <1>4, <2>1 DEF ObjectsOK, ApartOK
    <3> QED BY <1>6, <2>1, <2>3, <3>1 DEF NobodysRun
  <2>5. Owned(a.m, held_ptrs, T \cup {p}, L) /\ p \notin T
    BY <1>7, <2>1, <2>4, AddStackOK DEF Q
  <2>6. /\ guard' # NULL /\ guard'[1] = p /\ guard'[2] = a.m.pte[p]
        /\ a.m.pte[p] \in FrameSet /\ a.m.pte[p] # Unmapped
    BY <2>1, <2>2, <2>3, MemoryAssumption DEF NULL, FrameSet, Unmapped
  <2>7. Guards(stacks', guard') = T \cup {p}
    BY <1>1, <1>3, <2>6 DEF Guards
  <2>8. Limbo(mem', guard') = L
    BY <1>1, <1>3, <2>6 DEF Limbo
  <2>9. GuardOK(mem', stacks', guard')
    BY <1>1, <1>3, <2>5, <2>6 DEF GuardOK
  <2> QED BY <1>1, <2>5, <2>7, <2>8, <2>9 DEF MemInv
<1> QED BY <1>8, <1>9

(* thread_setup_stack unmaps the guard page.                               *)
LEMMA UnmapStep == ASSUME MemInv, vmm_unmap_page PROVE MemInv'
<1> DEFINE T == Guards(stacks, guard)
           p == guard[1]
           f == [mem EXCEPT !.pte[p] = Unmapped]
<1>1. /\ guard # NULL /\ mem.pte[p] # Unmapped /\ mem' = f
      /\ held_ptrs' = held_ptrs /\ stacks' = stacks /\ guard' = guard
    BY DEF vmm_unmap_page
<1>2. Limbo(mem, guard) = {}
    BY <1>1 DEF Limbo
<1>3. Owned(mem, held_ptrs, T, {})
    BY <1>2 DEF MemInv
<1>4. p \notin stacks /\ guard[2] \in FrameSet /\ mem.pte[p] = guard[2] /\ p \in T
    BY <1>1 DEF MemInv, GuardOK, Guards
<1> HIDE DEF T
<1>5. Owned(f, held_ptrs, T, {mem.pte[p]}) /\ f.pte[p] = Unmapped
    BY <1>3, <1>4, UnmapGuardOK
<1> HIDE DEF f
<1>6. Limbo(mem', guard') = {mem.pte[p]} /\ GuardOK(mem', stacks', guard')
    BY <1>1, <1>4, <1>5 DEF Limbo, GuardOK
<1>7. Guards(stacks', guard') = T
    BY <1>1 DEF T
<1> QED BY <1>1, <1>5, <1>6, <1>7 DEF MemInv

(* thread_setup_stack gives the guard page's frame back.                   *)
LEMMA FreeGuardStep == ASSUME MemInv, FreeGuardFrame PROVE MemInv'
<1> DEFINE T == Guards(stacks, guard)
           f == pmm_free_frame(mem, guard[2])
<1>1. /\ guard # NULL /\ mem.pte[guard[1]] = Unmapped /\ mem' = f
      /\ held_ptrs' = held_ptrs /\ stacks' = stacks \cup {guard[1]} /\ guard' = NULL
    BY DEF FreeGuardFrame
<1>2. Limbo(mem, guard) = {guard[2]} /\ guard[2] \in FrameSet
    BY <1>1 DEF Limbo, MemInv, GuardOK
<1>3. Owned(mem, held_ptrs, T, {guard[2]})
    BY <1>2 DEF MemInv
<1>4. T = stacks \cup {guard[1]}
    BY <1>1 DEF Guards
<1> HIDE DEF T
<1>5. Owned(f, held_ptrs, T, {})
    BY <1>2, <1>3, FreeFrameOK
<1>6. Guards(stacks', guard') = T /\ Limbo(mem', guard') = {} /\ GuardOK(mem', stacks', guard')
    BY <1>1, <1>4 DEF Guards, Limbo, GuardOK
<1> QED BY <1>1, <1>5, <1>6 DEF MemInv

(* reap_threads gives a stack back.                                        *)
LEMMA FreeStackStep == ASSUME MemInv, NEW p \in stacks, FreeStack(p) PROVE MemInv'
<1> DEFINE T == Guards(stacks, guard)
           L == Limbo(mem, guard)
           f == vmm_free_pages(mem, p, StackPages)
<1>1. /\ mem' = f /\ held_ptrs' = held_ptrs /\ stacks' = stacks \ {p} /\ guard' = guard
    BY DEF FreeStack
<1>2. Owned(mem, held_ptrs, T, L) /\ GuardOK(mem, stacks, guard) /\ p \in T
    BY DEF MemInv, Guards
<1>3. Guards(stacks', guard') = T \ {p} /\ GuardOK(mem, stacks', guard)
    BY <1>1, <1>2 DEF Guards, GuardOK
<1> HIDE DEF T, L
<1>4. Owned(f, held_ptrs, T \ {p}, L) /\ SameGuards(mem, f, T \ {p})
    BY <1>2, FreeStackOK
<1> HIDE DEF f
<1>5. Limbo(f, guard) = L /\ GuardOK(f, stacks', guard)
    BY <1>1, <1>3, <1>4, KeepsGuards DEF L
<1> QED BY <1>1, <1>3, <1>4, <1>5 DEF MemInv

(* vmm_map_mmio_region.                                                    *)
LEMMA MapDeviceStep == ASSUME MemInv, vmm_map_mmio_region PROVE MemInv'
<1> DEFINE T == Guards(stacks, guard)
           L == Limbo(mem, guard)
           p == find_contiguous_bits(mem.virt, 1)
           f == [mem EXCEPT !.virt = @ \cup {p}, !.pte = vmm_map_page(@, p, Device)]
<1>1. /\ mem' = f /\ held_ptrs' = held_ptrs /\ stacks' = stacks /\ guard' = guard /\ p # -1
    BY DEF vmm_map_mmio_region
<1>2. Owned(mem, held_ptrs, T, L) /\ GuardOK(mem, stacks, guard)
    BY DEF MemInv
<1>3. p \in PageSet \ mem.virt
  <2> DEFINE fits == {s \in PageSet : s + 1 <= Pages /\ (s..(s + 1 - 1)) \cap mem.virt = {}}
  <2>1. fits \in SUBSET Nat
    BY DEF PageSet
  <2>2. fits # {} /\ p = Min(fits)
    BY <1>1 DEF find_contiguous_bits
  <2>3. p \in fits
    <3> HIDE DEF fits, p
    <3> QED BY <2>1, <2>2, MinExists
  <2> HIDE DEF p
  <2>4. p \in PageSet /\ p \in Nat /\ (p..(p + 1 - 1)) \cap mem.virt = {}
    BY <2>1, <2>3
  <2>5. p \in p..(p + 1 - 1)
    BY <2>4
  <2> QED BY <2>4, <2>5
<1> HIDE DEF T, L, p
<1>4. Owned(f, held_ptrs, T, L) /\ SameGuards(mem, f, T)
    BY <1>2, <1>3, MapDeviceOK
<1> HIDE DEF f
<1>5. Limbo(f, guard) = L /\ GuardOK(f, stacks, guard)
    BY <1>2, <1>4, KeepsGuards DEF T, L
<1> QED BY <1>1, <1>4, <1>5 DEF MemInv, T

(* Every step keeps the invariant.                                         *)
LEMMA MemStep == MemInv /\ [MemNext]_memVars => MemInv'
<1>1. ASSUME MemInv, MemNext PROVE MemInv'
  <2>1. CASE \E s \in Sizes : malloc(s)
    BY <1>1, <2>1, MallocStep
  <2>2. CASE \E ptr \in held_ptrs : free(ptr) \/ \E s \in Sizes : realloc(ptr, s)
    BY <1>1, <2>2, FreeStep, ReallocStep
  <2>3. CASE AllocStack
    BY <1>1, <2>3, AllocStackStep
  <2>4. CASE vmm_unmap_page
    BY <1>1, <2>4, UnmapStep
  <2>5. CASE FreeGuardFrame
    BY <1>1, <2>5, FreeGuardStep
  <2>6. CASE \E p \in stacks : FreeStack(p)
    BY <1>1, <2>6, FreeStackStep
  <2>7. CASE vmm_map_mmio_region
    BY <1>1, <2>7, MapDeviceStep
  <2> QED BY <1>1, <2>1, <2>2, <2>3, <2>4, <2>5, <2>6, <2>7 DEF MemNext
<1>2. ASSUME MemInv, UNCHANGED memVars PROVE MemInv'
  <2>1. mem' = mem /\ held_ptrs' = held_ptrs /\ stacks' = stacks /\ guard' = guard
    BY <1>2 DEF memVars
  <2> QED BY <1>2, <2>1 DEF MemInv
<1> QED BY <1>1, <1>2

-----------------------------------------------------------------------------
(* What the invariant says of frames.                                      *)
LEMMA FramesAreOwned == MemInv => FramesOwned
<1> SUFFICES ASSUME MemInv PROVE FramesOwned
    OBVIOUS
<1>1. FramesOK(mem, Guards(stacks, guard), Limbo(mem, guard))
    BY DEF MemInv, Owned
<1> QED BY <1>1 DEF FramesOwned, FramesOK, Mapped, Guards, Limbo

(* What the invariant says of objects.                                     *)
LEMMA ObjectsAreApart == MemInv => ObjectsApart
<1> SUFFICES ASSUME MemInv PROVE ObjectsApart
    OBVIOUS
<1> DEFINE H == held_ptrs
           T == Guards(stacks, guard)
           Q == SlabsOf(H)
<1>1. mem \in Memories /\ ObjectsOK(mem, H, T, Q)
    BY DEF MemInv, Owned
<1> HIDE DEF T, Q
<1>2. ASSUME NEW a \in LargeOnes(H)
      PROVE  /\ a \in H /\ IsLarge(a) /\ PagesOf(a) = LargeRun(mem, a) /\ LargeOK(mem, a)
             /\ LargeRun(mem, a) \cap Q = {}
  <2>1. LargeOK(mem, a) /\ LargeRun(mem, a) \cap Q = {} /\ a \in H /\ IsLarge(a)
    BY <1>1 DEF ObjectsOK, ApartOK, LargeOnes
  <2>2. PICK x \in Int, n \in Nat : x = a[1] /\ n = mem.head[a[1] - 1].num_pages
    BY <1>1, LargeFacts
  <2>3. (x - 1)..(x - 2 + n) = Run(x - 1, n)
    BY DEF Run
  <2>4. PagesOf(a) = (x - 1)..(x - 2 + n)
    BY <2>1, <2>2 DEF PagesOf
  <2>5. LargeRun(mem, a) = Run(x - 1, n)
    BY <2>2 DEF LargeRun
  <2> QED BY <2>1, <2>3, <2>4, <2>5
<1>3. ASSUME NEW a \in H, ~IsLarge(a)
      PROVE  PagesOf(a) = {a[1]} /\ a[1] \in Q /\ SlabOK(mem, H, a[1]) /\ a \in OnPage(H, a[1])
    BY <1>1, <1>3 DEF PagesOf, ObjectsOK, LargeOnes, OnPage
<1>4. ASSUME NEW a \in H, NEW b \in H, a # b, IsLarge(a) PROVE PagesOf(a) \cap PagesOf(b) = {}
  <2>1. a \in LargeOnes(H)
    BY <1>4 DEF LargeOnes
  <2>2. CASE IsLarge(b)
    <3>1. b \in LargeOnes(H)
      BY <2>2 DEF LargeOnes
    <3>2. LargeRun(mem, a) \cap LargeRun(mem, b) = {}
      BY <1>1, <1>4, <2>1, <3>1 DEF ObjectsOK, ApartOK
    <3> QED BY <1>2, <2>1, <3>1, <3>2
  <2>3. CASE ~IsLarge(b)
    BY <1>2, <1>3, <2>1, <2>3
  <2> QED BY <2>2, <2>3
<1>5. \A a, b \in H : a # b /\ (IsLarge(a) \/ IsLarge(b)) => PagesOf(a) \cap PagesOf(b) = {}
  <2>1. SUFFICES ASSUME NEW a \in H, NEW b \in H, a # b, IsLarge(a) \/ IsLarge(b)
                 PROVE  PagesOf(a) \cap PagesOf(b) = {}
    OBVIOUS
  <2>2. CASE IsLarge(a)
    BY <1>4, <2>1, <2>2
  <2>3. CASE IsLarge(b)
    <3>1. PagesOf(b) \cap PagesOf(a) = {}
      BY <1>4, <2>1, <2>3
    <3> QED BY <3>1
  <2> QED BY <2>1, <2>2, <2>3
<1>6. ASSUME NEW a \in H PROVE \A p \in PagesOf(a) : mem.pte[p] \in 0..(Frames - 1)
  <2>1. CASE IsLarge(a)
    <3>1. a \in LargeOnes(H)
      BY <2>1 DEF LargeOnes
    <3> QED BY <1>2, <3>1 DEF LargeOK, FrameSet
  <2>2. CASE ~IsLarge(a)
    BY <1>3, <2>2 DEF SlabOK, FrameSet
  <2> QED BY <2>1, <2>2
<1>7. ASSUME NEW q \in Q
      PROVE  \E c \in Caches : /\ mem.head[q].cache = c /\ mem.list[c] \in Seq(PageSet)
                               /\ \E i \in 1..Len(mem.list[c]) : mem.list[c][i] = q
  <2>1. SlabOK(mem, H, q)
    BY <1>1 DEF ObjectsOK
  <2>2. PICK c \in Caches : mem.head[q].cache = c
    BY <2>1 DEF SlabOK, SlotsOK, SlabHeader
  <2>3. ListOK(mem, Q, c)
    BY <1>1 DEF ObjectsOK
  <2>4. q \in {mem.list[c][i] : i \in 1..Len(mem.list[c])}
    BY <2>2, <2>3 DEF ListOK
  <2>5. mem.list[c] \in Seq(PageSet)
    BY <1>1 DEF Memories
  <2> QED BY <2>2, <2>4, <2>5
<1>8. ASSUME NEW a \in H, ~IsLarge(a)
      PROVE  LET h == mem.head[a[1]]
             IN  /\ h.kind = "slab" /\ ~Contains(h.free_list, a[2])
                 /\ Contains(mem.list[h.cache], a[1])
                 /\ h.num_allocated = Cardinality({b \in H : b[1] = a[1]})
                 /\ h.num_allocated + Len(h.free_list) = Slots(h.cache)
  <2>1. SlotsOK(mem.head[a[1]], H, a[1]) /\ a \in OnPage(H, a[1])
    BY <1>3, <1>8 DEF SlabOK
  <2>2. Contains(mem.list[mem.head[a[1]].cache], a[1])
    BY <1>3, <1>7, <1>8 DEF Contains
  <2>3. mem.head[a[1]].kind = "slab"
    BY <2>1 DEF SlotsOK, SlabHeader
  <2> QED BY <2>1, <2>2, <2>3 DEF SlotsOK, OnPage
<1>9. SlabPages = Q
  <2>1. ASSUME NEW c \in Caches PROVE Range(mem.list[c]) \subseteq Q
    <3>1. ListOK(mem, Q, c) /\ mem.list[c] \in Seq(PageSet)
      BY <1>1 DEF ObjectsOK, Memories
    <3>2. Range(mem.list[c]) = {mem.list[c][i] : i \in 1..Len(mem.list[c])}
      BY <3>1 DEF Range
    <3> QED BY <3>1, <3>2 DEF ListOK
  <2>2. ASSUME NEW q \in Q PROVE \E c \in Caches : q \in Range(mem.list[c])
    BY <1>7 DEF Range
  <2> QED BY <2>1, <2>2 DEF SlabPages
<1>10. Q = {a[1] : a \in {b \in H : ~IsLarge(b)}}
  <2>1. H \ LargeOnes(H) = {b \in H : ~IsLarge(b)}
    BY DEF LargeOnes
  <2> QED BY <2>1 DEF Q, SlabsOf
<1> QED BY <1>5, <1>6, <1>8, <1>9, <1>10 DEF ObjectsApart

(* MemoryIsOwned, for any number of pages and frames: what malloc, the     *)
(* stacks and the devices hold is theirs alone, and nothing is lost, also  *)
(* when memory runs out between two calls of thread_setup_stack.           *)
THEOREM MemoryOwned == MemSpec => []MemoryIsOwned
<1>1. MemInv => MemoryIsOwned
    BY FramesAreOwned, ObjectsAreApart DEF MemoryIsOwned
<1> QED BY <1>1, MemInitOK, MemStep, PTL DEF MemSpec

-----------------------------------------------------------------------------
(***************************************************************************)
(* The kernel heap.                                                        *)
(***************************************************************************)

(* An object has at least one block: it has a header.                      *)
LEMMA BlocksForPositive ==
    ASSUME NEW size \in Nat
    PROVE  BlocksFor(size) \in Nat \ {0}
<1> DEFINE total == size + BlockSize
<1>1. /\ BlockSize \in Nat \ {0} /\ total \in Nat /\ total >= BlockSize
      /\ BlocksFor(size) = total \div BlockSize
    BY KHeapAssumption DEF BlocksFor, kmalloc_blocks_required
<1> HIDE DEF total
<1>2. total \div BlockSize \in Nat \ {0}
    BY <1>1
<1> QED BY <1>1, <1>2

(* The objects held are apart, in the pool behind the bitmap, and each has *)
(* its header.  Nothing is said of what the other blocks read as.          *)
SpanOf(o) == Span(o[1], o[2])

HeapInv ==
    /\ header \in [Blocks -> [magic : BOOLEAN, size : Nat]]
    /\ objects \subseteq Nat \X (Nat \ {0})
    /\ \A o \in objects : /\ o[1] >= Reserved
                          /\ o[1] + BlocksFor(o[2]) <= BlockCount
                          /\ header[o[1]] = HeaderOf(o[2])
    /\ \A o, p \in objects : o # p => SpanOf(o) \cap SpanOf(p) = {}
    /\ bitmap = UNION {SpanOf(o) : o \in objects}

(* The empty pool satisfies the invariant.                                 *)
LEMMA HeapInitInv == KHeapInit => HeapInv
BY DEF KHeapInit, HeapInv, NotAHeader

(* What is said of an object, in terms of the block numbers.               *)
LEMMA ObjectFacts ==
    ASSUME HeapInv, NEW o \in objects
    PROVE  /\ o[1] \in Nat /\ o[2] \in Nat \ {0} /\ o = <<o[1], o[2]>>
           /\ BlocksFor(o[2]) \in Nat \ {0}
           /\ o[1] >= Reserved /\ o[1] + BlocksFor(o[2]) <= BlockCount
           /\ o[1] \in Blocks /\ o[1] \in SpanOf(o)
           /\ \A b : b \in SpanOf(o) <=> b \in Nat /\ o[1] <= b /\ b < o[1] + BlocksFor(o[2])
           /\ \A p \in objects : p[1] \in SpanOf(o) => p = o
<1>1. o[1] \in Nat /\ o[2] \in Nat \ {0} /\ o = <<o[1], o[2]>>
    BY DEF HeapInv
<1>2. BlocksFor(o[2]) \in Nat \ {0}
    BY <1>1, BlocksForPositive
<1>3. o[1] >= Reserved /\ o[1] + BlocksFor(o[2]) <= BlockCount
    BY DEF HeapInv
<1>4. \A b : b \in SpanOf(o) <=> b \in Nat /\ o[1] <= b /\ b < o[1] + BlocksFor(o[2])
    BY <1>1, <1>2 DEF SpanOf, Span
<1>5. o[1] \in Blocks /\ o[1] \in SpanOf(o)
    BY <1>1, <1>2, <1>3, <1>4, KHeapAssumption DEF Blocks
<1>6. ASSUME NEW p \in objects, p[1] \in SpanOf(o) PROVE p = o
  <2>1. p[1] \in Nat /\ p[2] \in Nat
    BY DEF HeapInv
  <2>2. p[1] \in SpanOf(p)
    BY <2>1, BlocksForPositive DEF SpanOf, Span, HeapInv
  <2> QED BY <1>6, <2>2 DEF HeapInv
<1> QED BY <1>1, <1>2, <1>3, <1>4, <1>5, <1>6

(* kmalloc on either port: the first fit overlaps nothing.                 *)
LEMMA TakeStep ==
    ASSUME HeapInv, NEW size \in Nat \ {0}, NEW start \in Fits(BlocksFor(size)), Take(start, size)
    PROVE  HeapInv'
<1> DEFINE n == BlocksFor(size)
           new == <<start, size>>
<1>1. n \in Nat \ {0}
    BY BlocksForPositive
<1>2. /\ start \in Nat /\ start >= Reserved /\ start + n <= BlockCount
      /\ (start..(start + n - 1)) \cap bitmap = {}
    BY <1>1, KHeapAssumption DEF Fits
<1>3. /\ objects' = objects \cup {new}
      /\ bitmap' = bitmap \cup SpanOf(new)
      /\ header' = [header EXCEPT ![start] = HeaderOf(size)]
    BY DEF Take, SpanOf
<1>4. new[1] = start /\ new[2] = size /\ new \in Nat \X (Nat \ {0})
    BY <1>2
<1> HIDE DEF new
<1>5. SpanOf(new) \cap bitmap = {} /\ start \in SpanOf(new)
    BY <1>1, <1>2, <1>4 DEF SpanOf, Span
<1> HIDE DEF n
<1>6. \A o \in objects : SpanOf(o) \cap SpanOf(new) = {} /\ o[1] # start
    BY <1>5, ObjectFacts DEF HeapInv
<1>7. start \in Blocks /\ header' \in [Blocks -> [magic : BOOLEAN, size : Nat]]
    BY <1>1, <1>2, <1>3, KHeapAssumption DEF HeapInv, Blocks, HeaderOf
<1>8. /\ header'[start] = HeaderOf(size)
      /\ \A o \in objects : header'[o[1]] = header[o[1]]
    BY <1>3, <1>6, <1>7, ObjectFacts DEF HeapInv
<1>9. \A o \in objects' : /\ o[1] >= Reserved
                          /\ o[1] + BlocksFor(o[2]) <= BlockCount
                          /\ header'[o[1]] = HeaderOf(o[2])
    BY <1>2, <1>3, <1>4, <1>8 DEF HeapInv, n
<1>10. \A o, p \in objects' : o # p => SpanOf(o) \cap SpanOf(p) = {}
    BY <1>3, <1>6 DEF HeapInv
<1>11. bitmap' = UNION {SpanOf(o) : o \in objects'}
    BY <1>3 DEF HeapInv
<1>12. objects' \subseteq Nat \X (Nat \ {0})
    BY <1>3, <1>4 DEF HeapInv
<1> QED BY <1>7, <1>9, <1>10, <1>11, <1>12 DEF HeapInv

(* kfree on either port: one object goes, with exactly its blocks.         *)
LEMMA KFreeStep ==
    ASSUME HeapInv, NEW o \in objects, Wipe(o[1]), objects' = {p \in objects : p[1] # o[1]}
    PROVE  HeapInv'
<1>1. header[o[1]].size = o[2]
  <2>1. header[o[1]] = HeaderOf(o[2])
    BY DEF HeapInv
  <2> QED BY <2>1 DEF HeaderOf
<1>2. /\ bitmap' = bitmap \ SpanOf(o)
      /\ header' = [header EXCEPT ![o[1]] = NotAHeader]
    BY <1>1 DEF Wipe, SpanOf
<1>3. objects' = objects \ {o}
    BY ObjectFacts
<1>4. /\ header' \in [Blocks -> [magic : BOOLEAN, size : Nat]]
      /\ \A p \in objects' : header'[p[1]] = header[p[1]]
    BY <1>2, ObjectFacts DEF HeapInv, NotAHeader
<1>5. bitmap' = UNION {SpanOf(p) : p \in objects'}
    BY <1>2, <1>3 DEF HeapInv
<1> QED BY <1>3, <1>4, <1>5 DEF HeapInv

(* A write stays inside the object and behind its header, so that no       *)
(* header changes.                                                         *)
LEMMA WriteStep ==
    ASSUME HeapInv, NEW o \in objects, NEW b \in Blocks, kmem_write(o[1], o[2], b)
    PROVE  HeapInv'
<1>1. /\ b \in SpanOf(o) /\ b # o[1]
      /\ UNCHANGED <<bitmap, objects>>
    BY DEF kmem_write, SpanOf
<1>2. PICK s \in ObjectRange : header' \in {[header EXCEPT ![b] = HeaderOf(s)],
                                            [header EXCEPT ![b] = NotAHeader]}
    BY DEF kmem_write
<1>3. \A p \in objects : p[1] # b
    BY <1>1, ObjectFacts
<1>4. PICK h \in [magic : BOOLEAN, size : Nat] : header' = [header EXCEPT ![b] = h]
    BY <1>2, KHeapAssumption DEF HeaderOf, NotAHeader
<1>5. /\ header' \in [Blocks -> [magic : BOOLEAN, size : Nat]]
      /\ \A p \in objects : header'[p[1]] = header[p[1]]
    BY <1>3, <1>4, ObjectFacts DEF HeapInv
<1> QED BY <1>1, <1>5 DEF HeapInv

(* kmalloc and kfree preserve the invariant.                               *)
LEMMA HeapNextInv == HeapInv /\ [KHeapNext]_heapVars => HeapInv'
<1> SUFFICES ASSUME HeapInv, [KHeapNext]_heapVars PROVE HeapInv'
    OBVIOUS
<1>1. ASSUME NEW size \in ObjectRange, kmalloc_unlocked(size) \/ kmalloc(size)
      PROVE  HeapInv'
  <2>1. size \in Nat \ {0} /\ BlocksFor(size) \in Nat \ {0}
    BY <1>1, BlocksForPositive, KHeapAssumption DEF kmalloc_unlocked, kmalloc
  <2>2. CASE Fits(BlocksFor(size)) # {} /\ Take(Min(Fits(BlocksFor(size))), size)
    <3>1. Fits(BlocksFor(size)) \subseteq Nat
      BY KHeapAssumption DEF Fits
    <3>2. Min(Fits(BlocksFor(size))) \in Fits(BlocksFor(size))
      BY <2>2, <3>1, MinExists
    <3> QED BY <2>1, <2>2, <3>2, TakeStep
  <2>3. CASE UNCHANGED <<platform, bitmap, header, objects>>
    BY <2>3 DEF HeapInv
  <2> QED BY <1>1, <2>2, <2>3 DEF kmalloc_unlocked, kmalloc
<1>2. ASSUME NEW o \in objects, kfree_unlocked(o[1]) \/ kfree(o[1])
      PROVE  HeapInv'
    BY <1>2, KFreeStep DEF kfree_unlocked, kfree
<1>3. ASSUME NEW o \in objects, NEW b \in Blocks, kmem_write(o[1], o[2], b)
      PROVE  HeapInv'
    BY <1>3, WriteStep
<1>4. CASE UNCHANGED heapVars
    BY <1>4 DEF heapVars, HeapInv
<1> QED BY <1>1, <1>2, <1>3, <1>4 DEF KHeapNext

-----------------------------------------------------------------------------
(***************************************************************************)
(* The walk.  From a point that cuts no object, the first block in use     *)
(* that reads as a header is the start of an object: whatever the blocks   *)
(* inside an object read as, the start comes before them.                  *)
(***************************************************************************)
First(S) == IF S = {} THEN KMALLOC_NULL ELSE Min(S)

StartsFrom(from) == {s \in {o[1] : o \in objects} : s >= from}

(* A byte that kmalloc_next takes for a header is the start of a block.    *)
LEMMA FoundIsStart ==
    ASSUME HeapInv, NEW from \in Nat,
           \A o \in objects : o[1] >= from \/ o[1] + BlocksFor(o[2]) <= from
    PROVE  (IF Found(from) = {} THEN KMALLOC_NULL ELSE Min(Found(from))) = First(StartsFrom(from))
<1>1. StartsFrom(from) \subseteq Found(from)
  <2>1. SUFFICES ASSUME NEW o \in objects, o[1] >= from PROVE o[1] \in Found(from)
    BY DEF StartsFrom
  <2>2. /\ o[1] \in from..(BlockCount - 1) /\ o[1] \in bitmap
        /\ header[o[1]] = HeaderOf(o[2]) /\ o[2] # 0
    BY <2>1, ObjectFacts, KHeapAssumption DEF HeapInv, Blocks
  <2> QED BY <2>2 DEF Found, HeaderOf
<1>2. \A b \in Found(from) : \E s \in StartsFrom(from) : s <= b
  <2>1. SUFFICES ASSUME NEW b \in Found(from) PROVE \E s \in StartsFrom(from) : s <= b
    OBVIOUS
  <2>2. b \in Nat /\ b >= from /\ b \in bitmap
    BY DEF Found
  <2>3. PICK o \in objects : b \in SpanOf(o)
    BY <2>2 DEF HeapInv
  <2>4. o[1] \in Nat /\ o[1] <= b /\ b < o[1] + BlocksFor(o[2]) /\ BlocksFor(o[2]) \in Nat
    BY <2>3, ObjectFacts
  <2>5. o[1] >= from
    BY <2>2, <2>4
  <2> QED BY <2>4, <2>5 DEF StartsFrom
<1>3. Found(from) \subseteq Nat /\ StartsFrom(from) \subseteq Nat
    BY ObjectFacts DEF Found, StartsFrom
<1>4. CASE StartsFrom(from) = {}
    BY <1>2, <1>4 DEF First
<1>5. CASE StartsFrom(from) # {}
  <2> DEFINE m == Min(StartsFrom(from))
  <2>1. m \in StartsFrom(from) /\ \A s \in StartsFrom(from) : m <= s
    BY <1>3, <1>5, MinExists
  <2> HIDE DEF m
  <2>2. \A b \in Found(from) : m <= b
    <3>1. SUFFICES ASSUME NEW b \in Found(from) PROVE m <= b
      OBVIOUS
    <3>2. PICK s \in StartsFrom(from) : s <= b
      BY <1>2
    <3> QED BY <1>3, <2>1, <3>2
  <2>3. Min(Found(from)) = m
    BY <1>1, <1>3, <2>1, <2>2, MinIs
  <2> QED BY <1>1, <1>5, <2>1, <2>3 DEF First, m
<1> QED BY <1>4, <1>5

(* Under the invariant the walk meets each block once, in order.           *)
LEMMA HeapInvImplies == HeapInv => HeapWalkExact
<1> SUFFICES ASSUME HeapInv PROVE HeapWalkExact
    OBVIOUS
<1> DEFINE starts == {o[1] : o \in objects}
           after(b) == {s \in starts : s > b}
<1>1. \A o, p \in objects : o # p => Span(o[1], o[2]) \cap Span(p[1], p[2]) = {}
    BY DEF HeapInv, SpanOf
<1>2. bitmap = UNION {Span(o[1], o[2]) : o \in objects}
    BY DEF HeapInv, SpanOf
<1>3. bitmap \cap 0..(Reserved - 1) = {}
  <2>1. \A o \in objects : SpanOf(o) \cap 0..(Reserved - 1) = {}
    BY ObjectFacts, KHeapAssumption
  <2> QED BY <2>1 DEF HeapInv
<1>4. kmalloc_next(KMALLOC_NULL) = First(starts)
  <2>1. StartsFrom(Reserved) = starts /\ Reserved \in Nat
    BY ObjectFacts, KHeapAssumption DEF StartsFrom
  <2>2. \A o \in objects : o[1] >= Reserved
    BY ObjectFacts
  <2> QED BY <2>1, <2>2, FoundIsStart DEF kmalloc_next
<1>5. ASSUME NEW o \in objects
      PROVE  /\ kmalloc_is_valid(o[1])
             /\ header[o[1]] = HeaderOf(o[2])
             /\ kmalloc_next(o[1]) = First(after(o[1]))
  <2>1. /\ o[1] \in Nat /\ BlocksFor(o[2]) \in Nat \ {0} /\ o[2] # 0
        /\ o[1] >= Reserved /\ o[1] + BlocksFor(o[2]) <= BlockCount
        /\ header[o[1]] = HeaderOf(o[2])
    BY ObjectFacts DEF HeapInv
  <2>2. header[o[1]].magic /\ header[o[1]].size = o[2]
    BY <2>1 DEF HeaderOf
  <2>3. kmalloc_is_valid(o[1])
    BY <2>1, <2>2, KHeapAssumption DEF kmalloc_is_valid
  <2> DEFINE from == o[1] + BlocksFor(o[2])
  <2>4. from \in Nat /\ Behind(o[1]) = from
    BY <2>1, <2>2 DEF Behind
  <2>5. ASSUME NEW p \in objects
        PROVE  /\ p[1] >= from \/ p[1] + BlocksFor(p[2]) <= from
               /\ p[1] >= from <=> p[1] > o[1]
    <3>1. CASE p = o
      BY <2>1, <3>1
    <3>2. CASE p # o
      <4>1. p[1] \in Nat /\ BlocksFor(p[2]) \in Nat \ {0}
        BY ObjectFacts
      <4>2. ~ (o[1] <= p[1] /\ p[1] < from)
        BY <2>1, <3>2, <4>1, ObjectFacts
      <4>3. ~ (p[1] <= o[1] /\ o[1] < p[1] + BlocksFor(p[2]))
        BY <2>1, <3>2, <4>1, ObjectFacts
      <4> QED BY <2>1, <2>4, <4>1, <4>2, <4>3
    <3> QED BY <3>1, <3>2
  <2>6. StartsFrom(from) = after(o[1])
    BY <2>5 DEF StartsFrom
  <2>7. o[1] # KMALLOC_NULL
    BY <2>1 DEF KMALLOC_NULL
  <2>8. kmalloc_next(o[1]) = IF Found(from) = {} THEN KMALLOC_NULL ELSE Min(Found(from))
    BY <2>4, <2>7 DEF kmalloc_next
  <2>9. \A p \in objects : p[1] >= from \/ p[1] + BlocksFor(p[2]) <= from
    BY <2>5
  <2> HIDE DEF from
  <2>10. kmalloc_next(o[1]) = First(StartsFrom(from))
    BY <2>4, <2>8, <2>9, FoundIsStart
  <2> QED BY <2>1, <2>3, <2>6, <2>10
<1> QED BY <1>1, <1>2, <1>3, <1>4, <1>5 DEF HeapWalkExact, First

(* The invariant of the pool holds throughout.                             *)
LEMMA HeapInvariant == KHeapSpec => []HeapInv
<1> QED BY HeapInitInv, HeapNextInv, PTL DEF KHeapSpec

(* kmalloc, kfree and kmalloc_next: objects never overlap, and the walk    *)
(* meets each of them once and nothing else, whatever callers wrote into   *)
(* their objects.                                                          *)
THEOREM HeapWalkIsExact == KHeapSpec => []HeapWalkExact
<1> QED BY HeapInvariant, HeapInvImplies, PTL

-----------------------------------------------------------------------------
(***************************************************************************)
(* Knode.                                                                  *)
(***************************************************************************)
DirectorySet == [kind : {"directory"}, parent : Nat, next : Nat, prev : Nat, refs : Seq(Nat)]
ExtentSet == [kind : {"extent"}, next : Nat, prev : Nat, refs : Seq(Nat)]

HeapShape(h) ==
    /\ h \in [DOMAIN h -> DirectorySet \cup ExtentSet \cup {Object}]
    /\ DOMAIN h \subseteq Addresses \cup {Root}

(* s are the extents of d, linked both ways.                               *)
IsChain(h, d, s) ==
    /\ s \in Seq(DOMAIN h) /\ \A i \in 1..Len(s) : h[s[i]].kind = "extent"
    /\ \A i, j \in 1..Len(s) : s[i] = s[j] => i = j
    /\ h[d].next = IF Len(s) = 0 THEN 0 ELSE s[1]
    /\ h[d].prev = IF Len(s) = 0 THEN 0 ELSE s[Len(s)]
    /\ \A i \in 1..Len(s) : /\ h[s[i]].next = IF i = Len(s) THEN 0 ELSE s[i + 1]
                            /\ h[s[i]].prev = IF i = 1 THEN 0 ELSE s[i - 1]

(* An address is not 0.                                                    *)
LEMMA AddressFacts ==
    ASSUME NEW h, HeapShape(h)
    PROVE  /\ DOMAIN h \subseteq Nat \ {0} /\ IsFiniteSet(DOMAIN h)
           /\ Cardinality(DOMAIN h) \in Nat
<1>1. DOMAIN h \subseteq Nat \ {0}
    BY KnodeAssumption DEF HeapShape, Root
<1>2. IsFiniteSet(Addresses \cup {Root})
    BY FS_AddElement, KnodeAssumption
<1>3. IsFiniteSet(DOMAIN h)
    BY <1>2, FS_Subset DEF HeapShape
<1> QED BY <1>1, <1>3, FS_CardinalityType

(* The walk along the chain exists, and gives the chain.                   *)
LEMMA ChainIsExtents ==
    ASSUME NEW h, HeapShape(h), NEW d, NEW s, IsChain(h, d, s)
    PROVE  Extents(h, d) = s
<1> DEFINE Step(f, i) == IF i = 0 THEN h[d].next ELSE IF f[i - 1] = 0 THEN 0 ELSE h[f[i - 1]].next
           walk == [i \in Nat |-> IF i < Len(s) THEN s[i + 1] ELSE 0]
           at == CHOOSE f : f = [i \in Nat |-> Step(f, i)]
           steps == Min({i \in 0..Cardinality(DOMAIN h) : at[i] = 0})
<1>1. /\ s \in Seq(DOMAIN h) /\ Len(s) \in Nat
      /\ \A i \in 1..Len(s) : s[i] \in DOMAIN h /\ s[i] # 0
    BY AddressFacts DEF IsChain
<1>2. ASSUME NEW i \in Nat PROVE walk[i] = Step(walk, i)
  <2>1. CASE i = 0
    BY <2>1, <1>1 DEF IsChain
  <2>2. CASE i # 0 /\ i - 1 < Len(s)
    <3>1. i - 1 \in Nat /\ i \in 1..Len(s) /\ walk[i - 1] = s[i] /\ s[i] # 0
      BY <1>1, <2>2
    <3>2. h[s[i]].next = IF i = Len(s) THEN 0 ELSE s[i + 1]
      BY <3>1 DEF IsChain
    <3>3. walk[i] = IF i = Len(s) THEN 0 ELSE s[i + 1]
      BY <1>1, <3>1
    <3> QED BY <2>2, <3>1, <3>2, <3>3
  <2>3. CASE i # 0 /\ ~(i - 1 < Len(s))
    BY <1>1, <2>3
  <2> QED BY <2>1, <2>2, <2>3
<1>3. at = [i \in Nat |-> Step(at, i)]
  <2>1. walk = [i \in Nat |-> Step(walk, i)]
    BY <1>2
  <2> HIDE DEF walk, Step
  <2> QED BY <2>1
<1> HIDE DEF at
<1>4. \A i \in Nat : at[i] = walk[i]
  <2> DEFINE T == {i \in Nat : at[i] # walk[i]}
  <2>1. SUFFICES ASSUME T # {} PROVE FALSE
    BY DEF T
  <2>2. PICK i \in T : \A k \in T : i <= k
    BY <2>1, NatMin
  <2>3. at[i] = Step(at, i) /\ walk[i] = Step(walk, i)
    BY <1>2, <1>3
  <2>4. CASE i = 0
    BY <2>3, <2>4
  <2>5. CASE i # 0
    <3>1. i - 1 \in Nat /\ ~(i <= i - 1)
      BY <2>5
    <3>2. at[i - 1] = walk[i - 1]
      BY <2>2, <3>1
    <3> QED BY <2>3, <2>5, <3>2
  <2> QED BY <2>4, <2>5
<1> HIDE DEF walk
<1>5. Len(s) <= Cardinality(DOMAIN h)
  <2> DEFINE n == Len(s)
             D == DOMAIN h
  <2>1. s \in [1..n -> D] /\ n \in Nat
    BY <1>1
  <2>2. IsFiniteSet(D) /\ Cardinality(D) \in Nat
    BY AddressFacts
  <2>3. \A i, j \in 1..n : i # j => s[i] # s[j]
    BY DEF IsChain
  <2> HIDE DEF n, D
  <2>4. IsFiniteSet(1..n) /\ Cardinality(1..n) = n
    <3>1. 1 \in Int /\ n \in Int
      BY <2>1
    <3> QED BY <2>1, <3>1, FS_Interval
  <2>5. ~(Cardinality(D) < Cardinality(1..n))
    BY <2>1, <2>2, <2>3, <2>4, FS_PigeonHole
  <2>6. n <= Cardinality(D)
    BY <2>1, <2>2, <2>4, <2>5
  <2> QED BY <2>6 DEF n, D
<1>6. \A i \in Nat : at[i] = IF i < Len(s) THEN s[i + 1] ELSE 0
    BY <1>4 DEF walk
<1>7. steps = Len(s)
  <2> DEFINE T == {i \in 0..Cardinality(DOMAIN h) : at[i] = 0}
  <2>1. Cardinality(DOMAIN h) \in Nat
    BY AddressFacts
  <2>2. Len(s) \in T
    BY <1>1, <1>5, <1>6, <2>1
  <2>3. ASSUME NEW i \in T PROVE Len(s) <= i
    <3>1. CASE i < Len(s)
      <4>1. at[i] = s[i + 1] /\ i + 1 \in 1..Len(s)
        BY <1>1, <1>6, <2>1, <3>1
      <4> QED BY <1>1, <4>1
    <3> QED BY <1>1, <2>1, <3>1
  <2>4. T \subseteq Nat
    BY <2>1
  <2> QED BY <2>2, <2>3, <2>4, MinIs
<1>8. Extents(h, d) = [i \in 1..steps |-> at[i - 1]]
    BY DEF Extents, at
<1> HIDE DEF steps
<1>9. \A i \in 1..Len(s) : at[i - 1] = s[i]
    BY <1>1, <1>6
<1>10. s = [i \in 1..Len(s) |-> s[i]]
    BY <1>1
<1> QED BY <1>7, <1>8, <1>9, <1>10

(* The lists at the places P have the members of A, each in one of them    *)
(* and once.                                                               *)
ListsOK(h, P, A) ==
    /\ \A x \in P : /\ h[x].refs \in Seq(Nat) /\ IsInjective(h[x].refs)
                     /\ Range(h[x].refs) \subseteq A
    /\ \A x, y \in P : x # y => Range(h[x].refs) \cap Range(h[y].refs) = {}
    /\ \A r \in A : \E x \in P : r \in Range(h[x].refs)

(* g has the lists of h but for the one at x, which is l.                  *)
ListChanged(h, g, P, x, l) == g[x].refs = l /\ \A y \in P \ {x} : g[y].refs = h[y].refs

(* One more reference in a list, the first in a new one, one taken out,    *)
(* and an empty list left out.                                             *)
LEMMA ListsAppend ==
    ASSUME NEW h, NEW g, NEW P, NEW A, ListsOK(h, P, A), NEW x \in P, NEW r \in Nat \ A,
           ListChanged(h, g, P, x, Append(h[x].refs, r))
    PROVE  ListsOK(g, P, A \cup {r})
<1>1. \A y \in P : h[y].refs \in Seq(Nat) /\ r \notin Range(h[y].refs) /\ IsInjective(h[y].refs)
    BY DEF ListsOK
<1>2. /\ g[x].refs \in Seq(Nat) /\ IsInjective(g[x].refs)
      /\ Range(g[x].refs) = Range(h[x].refs) \cup {r}
    BY <1>1, AppendFacts DEF ListChanged
<1>3. \A y \in P \ {x} : g[y].refs = h[y].refs
    BY DEF ListChanged
<1>10. ASSUME NEW y \in P
      PROVE  /\ g[y].refs \in Seq(Nat) /\ IsInjective(g[y].refs)
             /\ Range(g[y].refs) \subseteq A \cup {r}
    BY <1>1, <1>2, <1>3 DEF ListsOK
<1>11. ASSUME NEW y \in P, NEW z \in P, y # z
      PROVE  Range(g[y].refs) \cap Range(g[z].refs) = {}
  <2>1. ASSUME NEW a \in P \ {x} PROVE Range(g[x].refs) \cap Range(g[a].refs) = {}
    <3>1. Range(h[a].refs) \cap Range(h[x].refs) = {} /\ r \notin Range(h[a].refs)
      BY <1>1 DEF ListsOK
    <3> QED BY <1>2, <1>3, <3>1
  <2>2. CASE y = x \/ z = x
    BY <1>11, <2>1, <2>2
  <2>3. CASE y # x /\ z # x
    <3>1. y \in P /\ z \in P /\ g[y].refs = h[y].refs /\ g[z].refs = h[z].refs
      BY <1>3, <2>3
    <3> QED BY <1>11, <3>1 DEF ListsOK
  <2> QED BY <2>2, <2>3
<1>12. ASSUME NEW t \in A \cup {r} PROVE \E y \in P : t \in Range(g[y].refs)
    BY <1>1, <1>2, <1>3 DEF ListsOK
<1> QED BY <1>10, <1>11, <1>12 DEF ListsOK

LEMMA ListsAdd ==
    ASSUME NEW h, NEW g, NEW P, NEW A, ListsOK(h, P, A), NEW x, x \notin P, NEW r \in Nat \ A,
           ListChanged(h, g, P, x, <<r>>)
    PROVE  ListsOK(g, P \cup {x}, A \cup {r})
<1>1. \A y \in P : r \notin Range(h[y].refs)
    BY DEF ListsOK
<1>2. /\ g[x].refs \in Seq(Nat) /\ IsInjective(g[x].refs) /\ Range(g[x].refs) = {r}
    BY DEF ListChanged, IsInjective, Range
<1>3. \A y \in P : g[y].refs = h[y].refs
    BY DEF ListChanged
<1>10. ASSUME NEW y \in P \cup {x}
      PROVE  /\ g[y].refs \in Seq(Nat) /\ IsInjective(g[y].refs)
             /\ Range(g[y].refs) \subseteq A \cup {r}
    BY <1>1, <1>2, <1>3 DEF ListsOK
<1>11. ASSUME NEW y \in P \cup {x}, NEW z \in P \cup {x}, y # z
      PROVE  Range(g[y].refs) \cap Range(g[z].refs) = {}
  <2>1. ASSUME NEW a \in P \ {x} PROVE Range(g[x].refs) \cap Range(g[a].refs) = {}
    <3>1. Range(h[a].refs) \cap {r} = {}
      BY <1>1
    <3> QED BY <1>2, <1>3, <3>1
  <2>2. CASE y = x \/ z = x
    BY <1>11, <2>1, <2>2
  <2>3. CASE y # x /\ z # x
    <3>1. y \in P /\ z \in P /\ g[y].refs = h[y].refs /\ g[z].refs = h[z].refs
      BY <1>3, <2>3
    <3> QED BY <1>11, <3>1 DEF ListsOK
  <2> QED BY <2>2, <2>3
<1>12. ASSUME NEW t \in A \cup {r} PROVE \E y \in P \cup {x} : t \in Range(g[y].refs)
    BY <1>1, <1>2, <1>3 DEF ListsOK
<1> QED BY <1>10, <1>11, <1>12 DEF ListsOK

LEMMA ListsRemove ==
    ASSUME NEW h, NEW g, NEW P, NEW A, ListsOK(h, P, A), NEW x \in P, NEW r \in Range(h[x].refs),
           ListChanged(h, g, P, x, RemoveFirst(h[x].refs, r))
    PROVE  ListsOK(g, P, A \ {r})
<1>1. \A y \in P \ {x} : r \notin Range(h[y].refs)
    BY DEF ListsOK
<1>2. h[x].refs \in Seq(Nat) /\ IsInjective(h[x].refs)
    BY DEF ListsOK
<1>3. /\ g[x].refs \in Seq(Nat) /\ IsInjective(g[x].refs)
      /\ Range(g[x].refs) = Range(h[x].refs) \ {r}
    BY <1>2, RemoveFirstFacts DEF ListChanged
<1>4. \A y \in P \ {x} : g[y].refs = h[y].refs
    BY DEF ListChanged
<1>10. ASSUME NEW y \in P
      PROVE  /\ g[y].refs \in Seq(Nat) /\ IsInjective(g[y].refs)
             /\ Range(g[y].refs) \subseteq A \ {r}
    BY <1>1, <1>3, <1>4 DEF ListsOK
<1>11. ASSUME NEW y \in P, NEW z \in P, y # z
      PROVE  Range(g[y].refs) \cap Range(g[z].refs) = {}
    BY <1>1, <1>3, <1>4, <1>11, ZenonT(30) DEF ListsOK
<1>12. ASSUME NEW t \in A \ {r} PROVE \E y \in P : t \in Range(g[y].refs)
    BY <1>1, <1>3, <1>4 DEF ListsOK
<1> QED BY <1>10, <1>11, <1>12 DEF ListsOK

LEMMA ListsDrop ==
    ASSUME NEW h, NEW g, NEW P, NEW A, ListsOK(h, P, A), NEW x \in P, h[x].refs = <<>>,
           \A y \in P \ {x} : g[y].refs = h[y].refs
    PROVE  ListsOK(g, P \ {x}, A)
<1>1. Range(h[x].refs) = {}
    BY DEF Range
<1> QED BY <1>1 DEF ListsOK

(* d has the extents s, none of them empty, and refers to the members of A *)
Places(d, s) == {d} \cup Range(s)

RefersTo(h, d, s, A) ==
    /\ d \in DOMAIN h /\ h[d].kind = "directory"
    /\ IsChain(h, d, s) /\ ListsOK(h, Places(d, s), A)

DirOK(h, d, s, A) ==
    /\ RefersTo(h, d, s, A)
    /\ \A i \in 1..Len(s) : h[s[i]].refs # <<>>

LEMMA PlacesFacts ==
    ASSUME NEW h, NEW d, NEW s, NEW A, RefersTo(h, d, s, A)
    PROVE  /\ Places(d, s) = {d} \cup {s[i] : i \in 1..Len(s)} /\ Places(d, s) \subseteq DOMAIN h
           /\ \A i \in 1..Len(s) : s[i] # d /\ s[i] \in Places(d, s)
           /\ Range(s) = {s[i] : i \in 1..Len(s)}
           /\ h[d].refs \in Seq(Nat) /\ \A i \in 1..Len(s) : h[s[i]].refs \in Seq(Nat)
<1>1. s \in Seq(DOMAIN h) /\ \A i \in 1..Len(s) : s[i] # d
    BY DEF DirOK, RefersTo, IsChain
<1>2. Range(s) = {s[i] : i \in 1..Len(s)}
    BY <1>1 DEF Range
<1>3. Places(d, s) = {d} \cup {s[i] : i \in 1..Len(s)}
    BY <1>2 DEF Places
<1>4. Places(d, s) \subseteq DOMAIN h
    BY <1>1, <1>3 DEF DirOK, RefersTo
<1> QED BY <1>1, <1>2, <1>3, <1>4 DEF DirOK, RefersTo, ListsOK

(* What its reference list is.                                             *)
LEMMA ReferencesFacts ==
    ASSUME NEW h, HeapShape(h), NEW d, NEW s, NEW A, DirOK(h, d, s, A)
    PROVE  /\ Extents(h, d) = s /\ References(h, d) \in Seq(Nat)
           /\ Range(References(h, d)) = A /\ IsInjective(References(h, d))
<1>1. Extents(h, d) = s
    BY ChainIsExtents DEF DirOK, RefersTo
<1> DEFINE q == [i \in 1..Len(s) |-> h[s[i]].refs]
           w == FlattenSeq(q)
           f == h[d].refs
<1>2. s \in Seq(DOMAIN h) /\ Len(s) \in Nat
    BY DEF DirOK, RefersTo, IsChain
<1>3. q \in Seq(Seq(Nat)) /\ Len(q) = Len(s) /\ f \in Seq(Nat)
    BY <1>2, PlacesFacts DEF DirOK
<1>4. \A i \in 1..Len(q) : q[i] = h[s[i]].refs
    BY <1>3
<1>5. References(h, d) = f \o w
    BY <1>1 DEF References
<1> HIDE DEF q, w, f
<1>6. \A i \in 1..Len(q) : IsInjective(q[i])
    BY <1>3, <1>4, PlacesFacts DEF DirOK, RefersTo, ListsOK
<1>7. \A i, j \in 1..Len(q) : i # j => Range(q[i]) \cap Range(q[j]) = {}
  <2> SUFFICES ASSUME NEW i \in 1..Len(q), NEW j \in 1..Len(q), i # j
               PROVE  Range(q[i]) \cap Range(q[j]) = {}
    OBVIOUS
  <2>1. s[i] # s[j] /\ s[i] \in Places(d, s) /\ s[j] \in Places(d, s)
    BY <1>3, PlacesFacts DEF DirOK, RefersTo, IsChain
  <2> QED BY <1>4, <2>1 DEF DirOK, RefersTo, ListsOK
<1>8. w \in Seq(Nat) /\ IsInjective(w) /\ Range(w) = UNION {Range(q[i]) : i \in 1..Len(q)}
    BY <1>3, <1>6, <1>7, FlattenFacts DEF w
<1>9. IsInjective(f) /\ Range(f) \cap Range(w) = {}
  <2>1. IsInjective(f)
    BY DEF f, DirOK, RefersTo, ListsOK, Places
  <2>2. ASSUME NEW i \in 1..Len(q) PROVE Range(f) \cap Range(q[i]) = {}
    <3>1. s[i] # d /\ s[i] \in Places(d, s) /\ d \in Places(d, s)
      BY <1>3, PlacesFacts DEF DirOK, Places
    <3> QED BY <1>4, <3>1 DEF f, DirOK, RefersTo, ListsOK
  <2> QED BY <1>8, <2>1, <2>2
<1>10. Range(f) \cup Range(w) = A
  <2>1. ASSUME NEW i \in 1..Len(q) PROVE Range(q[i]) \subseteq A
    BY <1>3, <1>4, PlacesFacts DEF DirOK, RefersTo, ListsOK
  <2>2. Range(f) \subseteq A
    BY DEF f, DirOK, RefersTo, ListsOK, Places
  <2>3. ASSUME NEW r \in A PROVE r \in Range(f) \/ \E i \in 1..Len(q) : r \in Range(q[i])
    <3>1. PICK x \in Places(d, s) : r \in Range(h[x].refs)
      BY DEF DirOK, RefersTo, ListsOK
    <3>2. x = d \/ \E i \in 1..Len(q) : x = s[i]
      BY <1>3, PlacesFacts DEF DirOK
    <3> QED BY <1>4, <3>1, <3>2 DEF f
  <2> QED BY <1>8, <2>1, <2>2, <2>3
<1>11. f \in Seq(Nat) /\ w \in Seq(Nat)
    BY <1>3, <1>8
<1>12. f \o w \in Seq(Nat) /\ Range(f \o w) = A /\ IsInjective(f \o w)
    BY <1>8, <1>9, <1>10, <1>11, ConcatFacts
<1> QED BY <1>1, <1>5, <1>12

(* g is h with the extents of d changed from s to t, and no other node.    *)
Rearranged(h, g, d, s, t, B) ==
    /\ HeapShape(g) /\ DirOK(g, d, t, B)
    /\ \A x \in DOMAIN h \ Places(d, s) : x \in DOMAIN g /\ g[x] = h[x]
    /\ DOMAIN g \subseteq (DOMAIN h \ Range(s)) \cup Range(t)
    /\ Range(t) \cap DOMAIN h \subseteq Range(s)

(* One list is changed where it is; none became empty.                     *)
LEMMA CutOK ==
    ASSUME NEW h, HeapShape(h), NEW d, NEW s, NEW A, NEW B, DirOK(h, d, s, A),
           NEW x \in Places(d, s), NEW l \in Seq(Nat),
           NEW g, g = [h EXCEPT ![x].refs = l],
           ListChanged(h, g, Places(d, s), x, l) => ListsOK(g, Places(d, s), B)
    PROVE  HeapShape(g) /\ RefersTo(g, d, s, B) /\ g[x].refs = l
<1>1. /\ x \in DOMAIN h /\ DOMAIN g = DOMAIN h
      /\ \A y \in DOMAIN h \ {x} : g[y] = h[y]
      /\ g[x] = [h[x] EXCEPT !.refs = l]
    BY PlacesFacts DEF DirOK
<1>2. h[x] \in DirectorySet \cup ExtentSet
  <2>1. h[x].kind = "directory" \/ h[x].kind = "extent"
    <3>1. x = d \/ \E i \in 1..Len(s) : x = s[i]
      BY PlacesFacts DEF DirOK
    <3> QED BY <3>1 DEF DirOK, RefersTo, IsChain
  <2>2. h[x] # Object
    BY <2>1 DEF Object
  <2> QED BY <1>1, <2>2 DEF HeapShape
<1>3. /\ g[x].kind = h[x].kind /\ g[x].next = h[x].next /\ g[x].prev = h[x].prev /\ g[x].refs = l
      /\ g[x] \in DirectorySet \cup ExtentSet
    BY <1>1, <1>2 DEF DirectorySet, ExtentSet
<1>4. g = [y \in DOMAIN g |-> g[y]]
    OBVIOUS
<1>5. HeapShape(g)
  <2>1. \A y \in DOMAIN g : g[y] \in DirectorySet \cup ExtentSet \cup {Object}
    BY <1>1, <1>3 DEF HeapShape
  <2> QED BY <1>1, <1>4, <2>1 DEF HeapShape
<1>6. ListsOK(g, Places(d, s), B)
  <2>1. ListChanged(h, g, Places(d, s), x, l)
    BY <1>1, <1>3, PlacesFacts DEF DirOK, ListChanged
  <2> QED BY <2>1
<1>7. \A y \in DOMAIN h : g[y].kind = h[y].kind /\ g[y].next = h[y].next /\ g[y].prev = h[y].prev
    BY <1>1, <1>3
<1>8. IsChain(g, d, s)
  <2>1. s \in Seq(DOMAIN h) /\ d \in DOMAIN h /\ IsChain(h, d, s)
    BY DEF DirOK, RefersTo, IsChain
  <2>2. \A i \in 1..Len(s) : s[i] \in DOMAIN h
    BY <2>1
  <2> QED BY <1>1, <1>7, <2>1, <2>2 DEF IsChain
<1> QED BY <1>1, <1>3, <1>5, <1>6, <1>7, <1>8 DEF DirOK, RefersTo

LEMMA InPlaceOK ==
    ASSUME NEW h, HeapShape(h), NEW d, NEW s, NEW A, NEW B, DirOK(h, d, s, A),
           NEW x \in Places(d, s), NEW l \in Seq(Nat), x # d => l # <<>>,
           NEW g, g = [h EXCEPT ![x].refs = l],
           ListChanged(h, g, Places(d, s), x, l) => ListsOK(g, Places(d, s), B)
    PROVE  Rearranged(h, g, d, s, s, B)
<1>1. /\ x \in DOMAIN h /\ DOMAIN g = DOMAIN h
      /\ \A y \in DOMAIN h \ {x} : g[y] = h[y]
      /\ g[x].refs = l
  <2>1. x \in DOMAIN h
    BY PlacesFacts DEF DirOK
  <2>2. h[x] \in DirectorySet \cup ExtentSet
    <3>1. x = d \/ \E i \in 1..Len(s) : x = s[i]
      BY PlacesFacts DEF DirOK
    <3>2. h[x].kind # "object"
      BY <3>1 DEF DirOK, RefersTo, IsChain
    <3> QED BY <2>1, <3>2 DEF HeapShape, Object
  <2> QED BY <2>1, <2>2 DEF DirectorySet, ExtentSet
<1>2. HeapShape(g) /\ RefersTo(g, d, s, B)
    BY CutOK
<1>3. \A i \in 1..Len(s) : g[s[i]].refs # <<>>
  <2>1. \A i \in 1..Len(s) : s[i] \in DOMAIN h /\ h[s[i]].refs # <<>> /\ s[i] # d
    BY PlacesFacts DEF DirOK, RefersTo
  <2> QED BY <1>1, <2>1
<1>4. DirOK(g, d, s, B)
    BY <1>2, <1>3 DEF DirOK
<1>5. Range(s) \subseteq DOMAIN h
    BY PlacesFacts DEF DirOK
<1> QED BY <1>1, <1>2, <1>4, <1>5 DEF Rearranged

(* A new extent goes behind the last one.                                  *)
LEMMA NewExtentOK ==
    ASSUME NEW h, HeapShape(h), NEW d, NEW s, NEW A, DirOK(h, d, s, A),
           NEW e \in Addresses \ DOMAIN h, NEW r \in Nat \ A
    PROVE  LET last == IF Len(s) = 0 THEN 0 ELSE s[Len(s)]
           IN  Rearranged(h, LinkExtent(Put(h, e, Extent(last, <<r>>)), d, last, e), d, s,
                          Append(s, e), A \cup {r})
<1> DEFINE last == IF Len(s) = 0 THEN 0 ELSE s[Len(s)]
           n == Len(s)
           t == Append(s, e)
           f == Put(h, e, Extent(last, <<r>>))
           g == LinkExtent(f, d, last, e)
<1>1. /\ s \in Seq(DOMAIN h) /\ n \in Nat /\ d \in DOMAIN h /\ h[d].kind = "directory"
      /\ \A i \in 1..n : s[i] \in DOMAIN h /\ s[i] # 0 /\ s[i] # d
    BY PlacesFacts, AddressFacts DEF DirOK, RefersTo, IsChain
<1>2. e \notin DOMAIN h /\ e \in Nat \ {0} /\ d # e /\ \A i \in 1..n : s[i] # e
    BY <1>1, KnodeAssumption
<1>3. /\ n = 0 => last = 0
      /\ n # 0 => last = s[n] /\ last # 0 /\ last \in DOMAIN h /\ last # d /\ last # e /\ n \in 1..n
    BY <1>1, <1>2
<1>4. /\ DOMAIN f = DOMAIN h \cup {e} /\ f[e] = Extent(last, <<r>>)
      /\ \A x \in DOMAIN h : f[x] = h[x]
    BY <1>2 DEF Put
<1> HIDE DEF f
<1>5. /\ n = 0 => g = [f EXCEPT ![d] = [[@ EXCEPT !.next = e] EXCEPT !.prev = e]]
      /\ n # 0 => g = [[f EXCEPT ![last] = [@ EXCEPT !.next = e]] EXCEPT ![d] = [@ EXCEPT !.prev = e]]
    BY <1>1, <1>3, <1>4 DEF LinkExtent
<1>6. /\ DOMAIN g = DOMAIN h \cup {e} /\ g[e] = Extent(last, <<r>>)
      /\ g[d] = IF n = 0 THEN [[h[d] EXCEPT !.next = e] EXCEPT !.prev = e] ELSE [h[d] EXCEPT !.prev = e]
      /\ n # 0 => g[last] = [h[last] EXCEPT !.next = e]
      /\ \A x \in DOMAIN h : x # d /\ (n # 0 => x # last) => g[x] = h[x]
      /\ g = [x \in DOMAIN g |-> g[x]]
  <2>1. CASE n = 0
    <3> DEFINE k == [[f[d] EXCEPT !.next = e] EXCEPT !.prev = e]
    <3>1. g = [f EXCEPT ![d] = k]
      BY <1>5, <2>1
    <3>2. k = [[h[d] EXCEPT !.next = e] EXCEPT !.prev = e]
      BY <1>1, <1>4
    <3> HIDE DEF k, g
    <3>3. DOMAIN g = DOMAIN f /\ d \in DOMAIN f /\ g[d] = k /\ \A x \in DOMAIN f \ {d} : g[x] = f[x]
      BY <1>1, <1>4, <3>1
    <3>4. g = [x \in DOMAIN g |-> g[x]]
      BY <3>1
    <3> QED BY <1>1, <1>2, <1>4, <2>1, <3>2, <3>3, <3>4
  <2>2. CASE n # 0
    <3> DEFINE l == [f[last] EXCEPT !.next = e]
               p == [f EXCEPT ![last] = l]
               k == [p[d] EXCEPT !.prev = e]
    <3>1. g = [p EXCEPT ![d] = k]
      BY <1>5, <2>2
    <3>2. l = [h[last] EXCEPT !.next = e]
      BY <1>3, <1>4, <2>2
    <3> HIDE DEF l, g
    <3>3. DOMAIN p = DOMAIN f /\ last \in DOMAIN f /\ p[last] = l /\ \A x \in DOMAIN f \ {last} : p[x] = f[x]
      BY <1>3, <1>4, <2>2
    <3>4. k = [h[d] EXCEPT !.prev = e]
      BY <1>1, <1>3, <1>4, <2>2, <3>3
    <3> HIDE DEF k, p
    <3>5. DOMAIN g = DOMAIN p /\ d \in DOMAIN p /\ g[d] = k /\ \A x \in DOMAIN p \ {d} : g[x] = p[x]
      BY <1>1, <1>4, <3>1, <3>3
    <3>6. g = [x \in DOMAIN g |-> g[x]]
      BY <3>1
    <3>7. last # d /\ last # e
      BY <1>3, <2>2
    <3>8. g[last] = l /\ g[e] = f[e]
      BY <1>2, <1>4, <3>3, <3>5, <3>7
    <3>9. \A x \in DOMAIN h : x # d /\ x # last => g[x] = h[x]
      BY <1>4, <3>3, <3>5
    <3> QED BY <1>4, <2>2, <3>2, <3>3, <3>4, <3>5, <3>6, <3>8, <3>9
  <2> QED BY <2>1, <2>2
<1> HIDE DEF g
<1>7. h[d] \in DirectorySet /\ \A i \in 1..n : h[s[i]] \in ExtentSet
  <2>1. \A i \in 1..n : h[s[i]].kind = "extent"
    BY DEF DirOK, RefersTo, IsChain
  <2>2. \A x \in DOMAIN h : h[x] \in DirectorySet \cup ExtentSet \cup {Object}
    BY DEF HeapShape
  <2> QED BY <1>1, <2>1, <2>2 DEF Object, DirectorySet, ExtentSet
<1>8. /\ g[d] \in DirectorySet /\ g[d].kind = "directory" /\ g[d].prev = e /\ g[d].refs = h[d].refs
      /\ g[d].next = IF n = 0 THEN e ELSE h[d].next
    BY <1>2, <1>6, <1>7 DEF DirectorySet
<1>9. n # 0 => /\ g[last] \in ExtentSet /\ g[last].kind = "extent" /\ g[last].next = e
               /\ g[last].prev = h[last].prev /\ g[last].refs = h[last].refs
    BY <1>2, <1>3, <1>6, <1>7 DEF ExtentSet
<1>10. /\ g[e] \in ExtentSet /\ g[e].kind = "extent" /\ g[e].next = 0
       /\ g[e].prev = last /\ g[e].refs = <<r>>
  <2>1. last \in Nat
    BY <1>3, AddressFacts
  <2> QED BY <1>6, <2>1 DEF Extent, ExtentSet
<1>11. HeapShape(g)
  <2>1. \A x \in DOMAIN h : h[x] \in DirectorySet \cup ExtentSet \cup {Object}
    BY DEF HeapShape
  <2>2. \A x \in DOMAIN g : g[x] \in DirectorySet \cup ExtentSet \cup {Object}
    BY <1>6, <1>8, <1>9, <1>10, <2>1
  <2>3. DOMAIN g \subseteq Addresses \cup {Root}
    BY <1>6 DEF HeapShape
  <2> QED BY <1>6, <2>2, <2>3 DEF HeapShape
<1>12. /\ Len(t) = n + 1 /\ t \in Seq(DOMAIN g) /\ t[n + 1] = e
       /\ \A i \in 1..n : t[i] = s[i]
    BY <1>1, <1>6
<1>13. \A i \in 1..(n + 1) : i = n + 1 \/ (i \in 1..n /\ i # n + 1)
    BY <1>1
<1> HIDE DEF t
<1>14. \A i \in 1..n : /\ g[s[i]].kind = "extent" /\ g[s[i]].prev = h[s[i]].prev
                       /\ g[s[i]].refs = h[s[i]].refs
                       /\ g[s[i]].next = IF i = n THEN e ELSE h[s[i]].next
  <2> SUFFICES ASSUME NEW i \in 1..n
               PROVE  /\ g[s[i]].kind = "extent" /\ g[s[i]].prev = h[s[i]].prev
                      /\ g[s[i]].refs = h[s[i]].refs
                      /\ g[s[i]].next = IF i = n THEN e ELSE h[s[i]].next
    OBVIOUS
  <2>1. CASE i = n
    BY <1>3, <1>9, <2>1
  <2>2. CASE i # n
    <3>1. s[i] # last /\ s[i] # d /\ h[s[i]].kind = "extent"
      BY <1>1, <1>3, <2>2 DEF DirOK, RefersTo, IsChain
    <3> QED BY <1>1, <1>6, <2>2, <3>1
  <2> QED BY <2>1, <2>2
<1>15. IsChain(g, d, t)
  <2>1. \A i \in 1..(n + 1) : g[t[i]].kind = "extent"
    BY <1>10, <1>12, <1>13, <1>14
  <2>2. ASSUME NEW i \in 1..(n + 1), NEW j \in 1..(n + 1), t[i] = t[j] PROVE i = j
    <3>1. \A a, b \in 1..n : s[a] = s[b] => a = b
      BY DEF DirOK, RefersTo, IsChain
    <3>2. \A a \in 1..n : t[a] = s[a] /\ s[a] # e
      BY <1>2, <1>12
    <3> QED BY <1>12, <1>13, <2>2, <3>1, <3>2
  <2>3. g[d].next = t[1] /\ g[d].prev = t[n + 1]
    <3>1. CASE n = 0
      BY <1>8, <1>12, <3>1
    <3>2. CASE n # 0
      <4>1. h[d].next = s[1] /\ 1 \in 1..n
        BY <1>1, <3>2 DEF DirOK, RefersTo, IsChain
      <4> QED BY <1>8, <1>12, <3>2, <4>1
    <3> QED BY <3>1, <3>2
  <2>4. ASSUME NEW i \in 1..(n + 1)
        PROVE  /\ g[t[i]].next = IF i = n + 1 THEN 0 ELSE t[i + 1]
               /\ g[t[i]].prev = IF i = 1 THEN 0 ELSE t[i - 1]
    <3>1. CASE i = n + 1
      <4>1. n # 0 => n \in 1..n /\ i - 1 = n /\ t[n] = s[n]
        BY <1>1, <1>12, <3>1
      <4> QED BY <1>1, <1>3, <1>10, <1>12, <3>1, <4>1
    <3>2. CASE i \in 1..n /\ i # n + 1
      <4>1. /\ h[s[i]].next = IF i = n THEN 0 ELSE s[i + 1]
            /\ h[s[i]].prev = IF i = 1 THEN 0 ELSE s[i - 1]
        BY <3>2 DEF DirOK, RefersTo, IsChain
      <4>2. t[i] = s[i] /\ (i # n => i + 1 \in 1..n /\ t[i + 1] = s[i + 1])
                        /\ (i # 1 => i - 1 \in 1..n /\ t[i - 1] = s[i - 1])
        BY <1>1, <1>12, <3>2
      <4> QED BY <1>12, <1>14, <3>2, <4>1, <4>2
    <3> QED BY <1>13, <3>1, <3>2
  <2>5. Len(t) = n + 1 /\ n + 1 # 0
    BY <1>1, <1>12
  <2>6. t \in Seq(DOMAIN g)
    BY <1>12
  <2> HIDE DEF g, t, f
  <2> QED BY <2>1, <2>2, <2>3, <2>4, <2>5, <2>6 DEF IsChain
<1>16. Range(t) = Range(s) \cup {e} /\ Range(s) \subseteq DOMAIN h
  <2>1. s \in Seq(Addresses \cup DOMAIN h) /\ e \in Addresses \cup DOMAIN h
    BY <1>1
  <2>2. Range(t) = Range(s) \cup {e}
    BY <2>1, AppendFacts DEF t
  <2> QED BY <2>2, PlacesFacts DEF DirOK
<1>17. ListsOK(g, Places(d, t), A \cup {r})
  <2>1. Places(d, t) = Places(d, s) \cup {e} /\ e \notin Places(d, s)
    BY <1>2, <1>16 DEF Places
  <2>2. ListChanged(h, g, Places(d, s), e, <<r>>)
    <3>1. ASSUME NEW y \in Places(d, s) PROVE g[y].refs = h[y].refs
      <4>1. y = d \/ \E i \in 1..n : y = s[i]
        BY PlacesFacts DEF DirOK
      <4> QED BY <1>8, <1>14, <4>1
    <3> QED BY <1>10, <3>1 DEF ListChanged
  <2> QED BY <2>1, <2>2, ListsAdd DEF DirOK, RefersTo
<1>18. ASSUME NEW i \in 1..Len(t) PROVE g[t[i]].refs # <<>>
  <2>1. CASE i = n + 1
    <3>1. g[t[i]].refs = <<r>>
      BY <1>10, <1>12, <2>1
    <3>2. <<r>> # <<>>
      OBVIOUS
    <3> QED BY <3>1, <3>2, Zenon
  <2>2. CASE i \in 1..n
    <3>1. h[s[i]].refs # <<>>
      BY <2>2 DEF DirOK, RefersTo
    <3> QED BY <1>12, <1>14, <2>2, <3>1
  <2> QED BY <1>12, <1>13, <2>1, <2>2
<1>19. DirOK(g, d, t, A \cup {r})
    BY <1>1, <1>6, <1>8, <1>15, <1>17, <1>18 DEF DirOK, RefersTo
<1>20. \A x \in DOMAIN h \ Places(d, s) : x \in DOMAIN g /\ g[x] = h[x]
    BY <1>1, <1>3, <1>6, PlacesFacts DEF DirOK, Places
<1>21. Rearranged(h, g, d, s, t, A \cup {r})
    BY <1>2, <1>6, <1>11, <1>16, <1>19, <1>20 DEF Rearranged
<1> QED BY <1>21 DEF g, t, f

(* o with the links nx and pv is q.                                        *)
Relinked(o, q, nx, pv) ==
    /\ q.kind = o.kind /\ q.refs = o.refs /\ q.next = nx /\ q.prev = pv
    /\ q \in DirectorySet \cup ExtentSet

LEMMA SetNext ==
    ASSUME NEW h, NEW x \in DOMAIN h, NEW v \in Nat, NEW g, g = [h EXCEPT ![x].next = v],
           h[x] \in DirectorySet \cup ExtentSet
    PROVE  /\ DOMAIN g = DOMAIN h /\ \A y \in DOMAIN h \ {x} : g[y] = h[y]
           /\ Relinked(h[x], g[x], v, h[x].prev)
<1>1. g[x] = [h[x] EXCEPT !.next = v] /\ DOMAIN g = DOMAIN h /\ \A y \in DOMAIN h \ {x} : g[y] = h[y]
    OBVIOUS
<1>2. CASE h[x] \in DirectorySet
    BY <1>1, <1>2 DEF Relinked, DirectorySet
<1>3. CASE h[x] \in ExtentSet
    BY <1>1, <1>3 DEF Relinked, ExtentSet
<1> QED BY <1>1, <1>2, <1>3

LEMMA SetPrev ==
    ASSUME NEW h, NEW x \in DOMAIN h, NEW v \in Nat, NEW g, g = [h EXCEPT ![x].prev = v],
           h[x] \in DirectorySet \cup ExtentSet
    PROVE  /\ DOMAIN g = DOMAIN h /\ \A y \in DOMAIN h \ {x} : g[y] = h[y]
           /\ Relinked(h[x], g[x], h[x].next, v)
<1>1. g[x] = [h[x] EXCEPT !.prev = v] /\ DOMAIN g = DOMAIN h /\ \A y \in DOMAIN h \ {x} : g[y] = h[y]
    OBVIOUS
<1>2. CASE h[x] \in DirectorySet
    BY <1>1, <1>2 DEF Relinked, DirectorySet
<1>3. CASE h[x] \in ExtentSet
    BY <1>1, <1>3 DEF Relinked, ExtentSet
<1> QED BY <1>1, <1>2, <1>3

(* What Unlink does to each node.                                          *)
LEMMA UnlinkFacts ==
    ASSUME NEW h, HeapShape(h), NEW d, NEW s, NEW A, RefersTo(h, d, s, A), NEW p \in 1..Len(s)
    PROVE  LET u == Unlink(h, d, s[p])
               front == IF p = 1 THEN d ELSE s[p - 1]
               back == IF p = Len(s) THEN d ELSE s[p + 1]
               prev == IF p = 1 THEN 0 ELSE s[p - 1]
               next == IF p = Len(s) THEN 0 ELSE s[p + 1]
           IN  /\ DOMAIN u = DOMAIN h
               /\ \A x \in DOMAIN h \ {front, back} : u[x] = h[x]
               /\ \A x \in {front, back} :
                     Relinked(h[x], u[x], IF x = front THEN next ELSE h[x].next,
                                          IF x = back THEN prev ELSE h[x].prev)
               /\ {front, back} \subseteq Places(d, s) \ {s[p]}
<1> DEFINE e == s[p]
           n == Len(s)
           prev == IF p = 1 THEN 0 ELSE s[p - 1]
           next == IF p = n THEN 0 ELSE s[p + 1]
           x1 == IF p = 1 THEN d ELSE s[p - 1]
           x2 == IF p = n THEN d ELSE s[p + 1]
           f == [h EXCEPT ![x1].next = next]
           b == [f EXCEPT ![x2].prev = prev]
           u == IF b[d].next = 0 THEN [b EXCEPT ![d].prev = 0] ELSE b
<1>1. /\ s \in Seq(DOMAIN h) /\ n \in Nat /\ p \in Nat /\ p >= 1 /\ p <= n
      /\ d \in DOMAIN h /\ h[d].kind = "directory"
      /\ \A i \in 1..n : /\ s[i] \in DOMAIN h /\ s[i] # 0 /\ s[i] # d /\ s[i] \in Nat
                         /\ s[i] \in Places(d, s)
      /\ h[e].prev = prev /\ h[e].next = next
  <2>1. h[e].prev = prev /\ h[e].next = next
    BY DEF RefersTo, IsChain
  <2>2. s \in Seq(DOMAIN h) /\ d \in DOMAIN h /\ h[d].kind = "directory"
    BY DEF RefersTo, IsChain
  <2>3. DOMAIN h \subseteq Nat \ {0}
    BY AddressFacts
  <2>4. \A i \in 1..n : s[i] # d /\ s[i] \in Places(d, s)
    BY PlacesFacts
  <2>5. n \in Nat /\ \A i \in 1..n : s[i] \in DOMAIN h
    BY <2>2
  <2> QED BY <2>1, <2>2, <2>3, <2>4, <2>5
<1>2. p # 1 => p - 1 \in 1..n /\ p - 1 # p
    BY <1>1
<1>3. p # n => p + 1 \in 1..n /\ p + 1 # p
    BY <1>1
<1>4. /\ prev \in Nat /\ next \in Nat /\ x1 \in DOMAIN h /\ x2 \in DOMAIN h /\ x1 # e /\ x2 # e
      /\ x1 \in Places(d, s) /\ x2 \in Places(d, s)
      /\ (p # 1 => prev # 0 /\ x1 = prev /\ x1 # d) /\ (p = 1 => prev = 0 /\ x1 = d)
      /\ (p # n => next # 0 /\ x2 = next /\ x2 # d) /\ (p = n => next = 0 /\ x2 = d)
  <2>1. p # 1 => s[p - 1] \in DOMAIN h /\ s[p - 1] # e
    BY <1>1, <1>2 DEF RefersTo, IsChain
  <2>2. p # n => s[p + 1] \in DOMAIN h /\ s[p + 1] # e
    BY <1>1, <1>3 DEF RefersTo, IsChain
  <2>3. d # e /\ d \in Places(d, s)
    BY <1>1 DEF Places
  <2>4. p # 1 => s[p - 1] # 0 /\ s[p - 1] # d /\ s[p - 1] \in Nat /\ s[p - 1] \in Places(d, s)
    BY <1>1, <1>2
  <2>5. p # n => s[p + 1] # 0 /\ s[p + 1] # d /\ s[p + 1] \in Nat /\ s[p + 1] \in Places(d, s)
    BY <1>1, <1>3
  <2> QED BY <1>1, <2>1, <2>2, <2>3, <2>4, <2>5
<1>5. Unlink(h, d, e) = u
  <2>1. f = IF prev # 0 THEN [h EXCEPT ![prev].next = next] ELSE [h EXCEPT ![d].next = next]
    BY <1>4
  <2>2. b = IF next # 0 THEN [f EXCEPT ![next].prev = prev] ELSE [f EXCEPT ![d].prev = prev]
    BY <1>4
  <2> HIDE DEF f, b, prev, next
  <2> QED BY <1>1, <2>1, <2>2 DEF Unlink
<1>6. \A x \in Places(d, s) : h[x] \in DirectorySet \cup ExtentSet
  <2>1. \A x \in Places(d, s) : x \in DOMAIN h /\ (x = d \/ \E i \in 1..n : x = s[i])
    BY PlacesFacts
  <2>2. \A i \in 1..n : h[s[i]].kind = "extent"
    BY DEF RefersTo, IsChain
  <2>3. \A x \in Places(d, s) : h[x].kind # "object"
    BY <1>1, <2>1, <2>2
  <2> QED BY <2>1, <2>3 DEF HeapShape, Object
<1> HIDE DEF f, b, u, x1, x2, prev, next
<1>7. /\ DOMAIN f = DOMAIN h /\ \A y \in DOMAIN h \ {x1} : f[y] = h[y]
      /\ Relinked(h[x1], f[x1], next, h[x1].prev)
    BY <1>4, <1>6, SetNext DEF f
<1>8. f[x2] \in DirectorySet \cup ExtentSet
    BY <1>4, <1>6, <1>7 DEF Relinked
<1>9. /\ DOMAIN b = DOMAIN h /\ \A y \in DOMAIN h \ {x2} : b[y] = f[y]
      /\ Relinked(f[x2], b[x2], f[x2].next, prev)
  <2>1. x2 \in DOMAIN f /\ prev \in Nat
    BY <1>4, <1>7
  <2> QED BY <1>7, <1>8, <2>1, SetPrev DEF b
<1>10. \A x \in DOMAIN h \ {x1, x2} : b[x] = h[x]
    BY <1>7, <1>9
<1>11. \A x \in {x1, x2} : Relinked(h[x], b[x], IF x = x1 THEN next ELSE h[x].next,
                                               IF x = x2 THEN prev ELSE h[x].prev)
    BY <1>4, <1>7, <1>9, ZenonT(30) DEF Relinked
<1>12. /\ DOMAIN u = DOMAIN b /\ \A x \in DOMAIN h \ {x1, x2} : u[x] = b[x]
       /\ \A x \in {x1, x2} : Relinked(b[x], u[x], b[x].next, b[x].prev)
  <2>1. CASE b[d].next # 0
    <3>1. u = b
      BY <2>1 DEF u
    <3> QED BY <1>11, <3>1 DEF Relinked
  <2>2. CASE b[d].next = 0
    <3>1. d = x1 /\ d = x2
      <4>1. h[d].next = s[1] /\ h[d].next # 0
        BY <1>1 DEF RefersTo, IsChain
      <4>2. d = x1
        <5>1. d # x1 /\ d # x2 => b[d] = h[d]
          BY <1>1, <1>10
        <5>2. d # x1 /\ d = x2 => b[d].next = h[d].next
          BY <1>11 DEF Relinked
        <5> QED BY <2>2, <4>1, <5>1, <5>2
      <4>3. b[d].next = next
        BY <1>11, <4>2 DEF Relinked
      <4> QED BY <1>4, <2>2, <4>2, <4>3
    <3>2. b[d].prev = 0
      BY <1>4, <1>11, <3>1 DEF Relinked
    <3>3. u = [b EXCEPT ![d].prev = 0] /\ d \in DOMAIN b /\ b[d] \in DirectorySet \cup ExtentSet
      BY <1>1, <1>9, <1>11, <2>2, <3>1 DEF u, Relinked
    <3>4. /\ DOMAIN u = DOMAIN b /\ \A y \in DOMAIN b \ {d} : u[y] = b[y]
          /\ Relinked(b[d], u[d], b[d].next, 0)
      BY <3>3, SetPrev
    <3> QED BY <1>9, <3>1, <3>2, <3>4
  <2> QED BY <2>1, <2>2
<1>13. DOMAIN u = DOMAIN h /\ \A x \in DOMAIN h \ {x1, x2} : u[x] = h[x]
    BY <1>9, <1>10, <1>12
<1>14. \A x \in {x1, x2} : Relinked(h[x], u[x], IF x = x1 THEN next ELSE h[x].next,
                                               IF x = x2 THEN prev ELSE h[x].prev)
    BY <1>11, <1>12 DEF Relinked
<1>15. {x1, x2} \subseteq Places(d, s) \ {e}
    BY <1>4
<1> QED BY <1>5, <1>13, <1>14, <1>15 DEF x1, x2, prev, next

(* An extent that became empty is unlinked and freed.                      *)
LEMMA UnlinkOK ==
    ASSUME NEW h, HeapShape(h), NEW d, NEW s, NEW A, RefersTo(h, d, s, A), NEW p \in 1..Len(s),
           h[s[p]].refs = <<>>, \A i \in 1..Len(s) : i # p => h[s[i]].refs # <<>>
    PROVE  Rearranged(h, kfree_node(Unlink(h, d, s[p]), s[p]), d, s, Skip(s, p), A)
<1> DEFINE e == s[p]
           n == Len(s)
           t == Skip(s, p)
           u == Unlink(h, d, e)
           g == kfree_node(u, e)
           prev == IF p = 1 THEN 0 ELSE s[p - 1]
           next == IF p = n THEN 0 ELSE s[p + 1]
           x1 == IF p = 1 THEN d ELSE s[p - 1]
           x2 == IF p = n THEN d ELSE s[p + 1]
           Nx(x) == IF x = x1 THEN next ELSE h[x].next
           Pv(x) == IF x = x2 THEN prev ELSE h[x].prev
<1>1. /\ s \in Seq(DOMAIN h) /\ n \in Nat /\ p \in Nat /\ p >= 1 /\ p <= n
      /\ d \in DOMAIN h /\ h[d].kind = "directory" /\ d # e
      /\ \A i \in 1..n : s[i] \in DOMAIN h /\ s[i] # d /\ h[s[i]].kind = "extent"
      /\ \A i, j \in 1..n : s[i] = s[j] => i = j
  <2>1. s \in Seq(DOMAIN h) /\ d \in DOMAIN h /\ h[d].kind = "directory"
    BY DEF RefersTo, IsChain
  <2>2. \A i \in 1..n : s[i] # d
    BY PlacesFacts
  <2>3. \A i \in 1..n : h[s[i]].kind = "extent"
    BY DEF RefersTo, IsChain
  <2>4. \A i, j \in 1..n : s[i] = s[j] => i = j
    BY DEF RefersTo, IsChain
  <2> QED BY <2>1, <2>2, <2>3, <2>4
<1>2. /\ DOMAIN u = DOMAIN h /\ \A x \in DOMAIN h \ {x1, x2} : u[x] = h[x]
      /\ \A x \in {x1, x2} : Relinked(h[x], u[x], Nx(x), Pv(x))
      /\ {x1, x2} \subseteq Places(d, s) \ {e}
    BY UnlinkFacts
<1>3. /\ t \in Seq(DOMAIN h \ {e}) /\ Len(t) = n - 1
      /\ \A k \in 1..(n - 1) : t[k] = IF k < p THEN s[k] ELSE s[k + 1]
      /\ \A i, j \in 1..Len(t) : t[i] = t[j] => i = j
      /\ Range(t) = Range(s) \ {e}
  <2> DEFINE D == DOMAIN h
  <2>1. s \in Seq(D) /\ IsInjective(s) /\ p \in 1..Len(s)
    BY <1>1 DEF IsInjective
  <2>0. t = Skip(s, p)
    OBVIOUS
  <2> HIDE DEF D, t
  <2>2. /\ t \in Seq(D \ {s[p]}) /\ Len(t) = Len(s) - 1
        /\ \A k \in 1..(Len(s) - 1) : t[k] = IF k < p THEN s[k] ELSE s[k + 1]
        /\ IsInjective(t) /\ Range(t) = Range(s) \ {s[p]}
    <3>1. t \in Seq(D \ {s[p]}) /\ Len(t) = Len(s) - 1 /\ IsInjective(t)
      BY ONLY <2>0, <2>1, SkipFacts
    <3>2. \A k \in 1..(Len(s) - 1) : t[k] = IF k < p THEN s[k] ELSE s[k + 1]
      BY ONLY <2>0 DEF Skip
    <3>3. Range(t) = Range(s) \ {s[p]}
      BY ONLY <2>0, <2>1, <3>1, SkipFacts
    <3> QED BY <3>1, <3>2, <3>3
  <2>3. \A i, j \in 1..Len(t) : t[i] = t[j] => i = j
    BY <2>2 DEF IsInjective
  <2> QED BY <2>2, <2>3 DEF D
<1>4. /\ g = [x \in DOMAIN h \ {e} |-> u[x]]
      /\ DOMAIN g = DOMAIN h \ {e}
      /\ \A x \in DOMAIN g : g[x] = u[x]
    BY <1>2 DEF kfree_node
<1> HIDE DEF g, u, t
<1>5. \A x \in Places(d, s) \ {e} :
          /\ g[x].kind = h[x].kind /\ g[x].refs = h[x].refs
          /\ g[x].next = Nx(x) /\ g[x].prev = Pv(x)
  <2> SUFFICES ASSUME NEW x \in Places(d, s) \ {e}
               PROVE  /\ g[x].kind = h[x].kind /\ g[x].refs = h[x].refs
                      /\ g[x].next = Nx(x) /\ g[x].prev = Pv(x)
    OBVIOUS
  <2>1. x \in DOMAIN h /\ g[x] = u[x]
    BY <1>4, PlacesFacts
  <2> HIDE DEF x1, x2, next, prev
  <2>2. CASE x \in {x1, x2}
    BY <1>2, <2>1, <2>2 DEF Relinked
  <2>3. CASE x \notin {x1, x2}
    BY <1>2, <2>1, <2>3
  <2> QED BY <2>2, <2>3
<1>6. HeapShape(g)
  <2> HIDE DEF x1, x2, next, prev, Nx, Pv
  <2>1. \A x \in DOMAIN h : h[x] \in DirectorySet \cup ExtentSet \cup {Object}
    BY DEF HeapShape
  <2>2. \A x \in DOMAIN g : g[x] \in DirectorySet \cup ExtentSet \cup {Object}
    BY <1>2, <1>4, <2>1 DEF Relinked
  <2>3. DOMAIN g \subseteq Addresses \cup {Root}
    BY <1>4 DEF HeapShape
  <2> QED BY <1>4, <2>2, <2>3 DEF HeapShape
<1>7. \A i \in 1..n : i # p => s[i] \in Places(d, s) \ {e}
    BY <1>1, PlacesFacts
<1>8. d \in Places(d, s) \ {e}
    BY <1>1 DEF Places
<1>9. \A i \in 1..n : /\ (s[i] = x1) <=> (p # 1 /\ i = p - 1)
                      /\ (s[i] = x2) <=> (p # n /\ i = p + 1)
  <2> SUFFICES ASSUME NEW i \in 1..n
               PROVE  /\ (s[i] = x1) <=> (p # 1 /\ i = p - 1)
                      /\ (s[i] = x2) <=> (p # n /\ i = p + 1)
    OBVIOUS
  <2>1. p # 1 => p - 1 \in 1..n
    BY <1>1
  <2>2. p # n => p + 1 \in 1..n
    BY <1>1
  <2> QED BY <1>1, <2>1, <2>2
<1>10. (d = x1 <=> p = 1) /\ (d = x2 <=> p = n)
  <2>1. p # 1 => p - 1 \in 1..n
    BY <1>1
  <2>2. p # n => p + 1 \in 1..n
    BY <1>1
  <2> QED BY <1>1, <2>1, <2>2
<1>11. \A i \in 1..n : /\ h[s[i]].next = IF i = n THEN 0 ELSE s[i + 1]
                       /\ h[s[i]].prev = IF i = 1 THEN 0 ELSE s[i - 1]
    BY DEF RefersTo, IsChain
<1>12. n # 0 /\ h[d].next = s[1] /\ h[d].prev = s[n]
    BY <1>1 DEF RefersTo, IsChain
<1>13. IsChain(g, d, t)
  <2>1. t \in Seq(DOMAIN g)
    BY <1>3, <1>4
  <2>2. ASSUME NEW k \in 1..(n - 1)
        PROVE  LET i == IF k < p THEN k ELSE k + 1
               IN  /\ i \in 1..n /\ i # p /\ t[k] = s[i]
                   /\ g[s[i]].kind = "extent"
                   /\ g[s[i]].next = IF p # 1 /\ i = p - 1 THEN next ELSE IF i = n THEN 0 ELSE s[i + 1]
                   /\ g[s[i]].prev = IF p # n /\ i = p + 1 THEN prev ELSE IF i = 1 THEN 0 ELSE s[i - 1]
    <3> DEFINE i == IF k < p THEN k ELSE k + 1
    <3>1. i \in 1..n /\ i # p /\ t[k] = s[i]
      BY <1>1, <1>3
    <3> HIDE DEF i, next, prev, x1, x2
    <3>2. s[i] \in Places(d, s) \ {e} /\ h[s[i]].kind = "extent"
      BY <1>1, <1>7, <3>1
    <3>3. g[s[i]].kind = "extent" /\ g[s[i]].next = Nx(s[i]) /\ g[s[i]].prev = Pv(s[i])
      BY <1>5, <3>2
    <3>4. /\ Nx(s[i]) = IF p # 1 /\ i = p - 1 THEN next ELSE h[s[i]].next
          /\ Pv(s[i]) = IF p # n /\ i = p + 1 THEN prev ELSE h[s[i]].prev
      BY <1>9, <3>1
    <3>5. /\ h[s[i]].next = IF i = n THEN 0 ELSE s[i + 1]
          /\ h[s[i]].prev = IF i = 1 THEN 0 ELSE s[i - 1]
      BY <1>11, <3>1
    <3>6. /\ i \in 1..n /\ i # p /\ t[k] = s[i]
          /\ g[s[i]].kind = "extent"
          /\ g[s[i]].next = IF p # 1 /\ i = p - 1 THEN next ELSE IF i = n THEN 0 ELSE s[i + 1]
          /\ g[s[i]].prev = IF p # n /\ i = p + 1 THEN prev ELSE IF i = 1 THEN 0 ELSE s[i - 1]
      BY <3>1, <3>3, <3>4, <3>5
    <3> QED BY <3>6 DEF i
  <2>3. \A k \in 1..(n - 1) : g[t[k]].kind = "extent"
    BY <2>2
  <2>4. ASSUME NEW k \in 1..(n - 1) PROVE g[t[k]].next = IF k = n - 1 THEN 0 ELSE t[k + 1]
    <3> DEFINE i == IF k < p THEN k ELSE k + 1
    <3>1. g[t[k]].next = IF p # 1 /\ i = p - 1 THEN next ELSE IF i = n THEN 0 ELSE s[i + 1]
      BY <2>2
    <3>2. k # n - 1 => k + 1 \in 1..(n - 1) /\ t[k + 1] = IF k + 1 < p THEN s[k + 1] ELSE s[(k + 1) + 1]
      <4>1. k # n - 1 => k + 1 \in 1..(n - 1)
        BY <1>1
      <4> QED BY <1>3, <4>1
    <3>3. CASE k = p - 1
      <4>1. i = p - 1 /\ p # 1 /\ k < p
        BY <1>1, <3>3
      <4>2. k = n - 1 <=> p = n
        BY <1>1, <3>3
      <4>3. k + 1 = p
        BY <1>1, <3>3
      <4> QED BY <1>1, <3>1, <3>2, <4>1, <4>2, <4>3
    <3>4. CASE k < p - 1
      <4>1. i = k /\ i # p - 1 /\ i # n /\ k # n - 1 /\ k + 1 < p
        BY <1>1, <3>4
      <4> QED BY <3>1, <3>2, <4>1
    <3>5. CASE k >= p
      <4>1. i = k + 1 /\ i # p - 1 /\ (i = n <=> k = n - 1) /\ ~(k + 1 < p)
        BY <1>1, <3>5
      <4> QED BY <3>1, <3>2, <4>1
    <3> QED BY <1>1, <3>3, <3>4, <3>5
  <2>5. ASSUME NEW k \in 1..(n - 1) PROVE g[t[k]].prev = IF k = 1 THEN 0 ELSE t[k - 1]
    <3> DEFINE i == IF k < p THEN k ELSE k + 1
    <3>1. g[t[k]].prev = IF p # n /\ i = p + 1 THEN prev ELSE IF i = 1 THEN 0 ELSE s[i - 1]
      BY <2>2
    <3>2. k # 1 => k - 1 \in 1..(n - 1) /\ t[k - 1] = IF k - 1 < p THEN s[k - 1] ELSE s[(k - 1) + 1]
      <4>1. k # 1 => k - 1 \in 1..(n - 1)
        BY <1>1
      <4> QED BY <1>3, <4>1
    <3>3. CASE k = p
      <4>1. i = p + 1 /\ p # n
        BY <1>1, <3>3
      <4>2. k - 1 < p
        BY <1>1, <3>3
      <4> QED BY <1>1, <3>1, <3>2, <3>3, <4>1, <4>2
    <3>4. CASE k < p
      <4>1. i = k /\ i # p + 1 /\ k - 1 < p
        BY <1>1, <3>4
      <4> QED BY <3>1, <3>2, <4>1
    <3>5. CASE k > p
      <4>1. i = k + 1 /\ i # p + 1 /\ i # 1 /\ k # 1 /\ ~(k - 1 < p) /\ (k - 1) + 1 = i - 1
        BY <1>1, <3>5
      <4> QED BY <3>1, <3>2, <4>1
    <3> QED BY <1>1, <3>3, <3>4, <3>5
  <2>6. g[d].next = IF n - 1 = 0 THEN 0 ELSE t[1]
    <3>1. g[d].next = Nx(d)
      BY <1>5, <1>8
    <3>2. n - 1 # 0 => t[1] = IF 1 < p THEN s[1] ELSE s[1 + 1]
      BY <1>1, <1>3
    <3>3. CASE p = 1
      BY <1>1, <1>10, <3>1, <3>2, <3>3
    <3>4. CASE p # 1
      <4>1. Nx(d) = h[d].next
        BY <1>10, <3>4
      <4>2. n - 1 # 0 /\ 1 < p
        BY <1>1, <3>4
      <4> QED BY <1>12, <3>1, <3>2, <4>1, <4>2
    <3> QED BY <3>3, <3>4
  <2>7. g[d].prev = IF n - 1 = 0 THEN 0 ELSE t[n - 1]
    <3>1. g[d].prev = Pv(d)
      BY <1>5, <1>8
    <3>2. n - 1 # 0 => t[n - 1] = IF n - 1 < p THEN s[n - 1] ELSE s[(n - 1) + 1]
      BY <1>1, <1>3
    <3>3. CASE p = n
      BY <1>1, <1>10, <3>1, <3>2, <3>3
    <3>4. CASE p # n
      <4>1. Pv(d) = h[d].prev
        BY <1>10, <3>4
      <4>2. n - 1 # 0 /\ ~(n - 1 < p) /\ (n - 1) + 1 = n
        BY <1>1, <3>4
      <4> QED BY <1>12, <3>1, <3>2, <4>1, <4>2
    <3> QED BY <3>3, <3>4
  <2> QED BY <1>3, <2>1, <2>3, <2>4, <2>5, <2>6, <2>7 DEF IsChain
<1> HIDE DEF x1, x2, next, prev, Nx, Pv
<1>14. ListsOK(g, Places(d, t), A)
  <2>1. Places(d, t) = Places(d, s) \ {e}
    BY <1>1, <1>3 DEF Places
  <2>2. e \in Places(d, s)
    BY PlacesFacts
  <2>3. \A y \in Places(d, s) \ {e} : g[y].refs = h[y].refs
    BY <1>5
  <2>4. ListsOK(h, Places(d, s), A) /\ h[e].refs = <<>>
    BY DEF RefersTo
  <2> HIDE DEF e
  <2> QED BY <2>1, <2>2, <2>3, <2>4, ListsDrop
<1>15. \A k \in 1..Len(t) : g[t[k]].refs # <<>>
  <2> SUFFICES ASSUME NEW k \in 1..(n - 1) PROVE g[t[k]].refs # <<>>
    BY <1>3
  <2> DEFINE i == IF k < p THEN k ELSE k + 1
  <2>1. i \in 1..n /\ i # p /\ t[k] = s[i]
    BY <1>1, <1>3
  <2> HIDE DEF i
  <2> QED BY <1>5, <1>7, <2>1
<1>16. DirOK(g, d, t, A)
    BY <1>1, <1>4, <1>5, <1>8, <1>13, <1>14, <1>15 DEF DirOK, RefersTo
<1>17. \A x \in DOMAIN h \ Places(d, s) : x \in DOMAIN g /\ g[x] = h[x]
  <2>1. e \in Places(d, s)
    BY PlacesFacts
  <2> QED BY <1>2, <1>4, <2>1
<1>18. Range(s) \subseteq DOMAIN h
    BY <1>1, PlacesFacts
<1>19. Rearranged(h, g, d, s, t, A)
  <2>1. DOMAIN g \subseteq (DOMAIN h \ Range(s)) \cup Range(t)
    BY <1>3, <1>4
  <2> QED BY <1>3, <1>6, <1>16, <1>17, <2>1 DEF Rearranged
<1> QED BY <1>19 DEF g, u, t

(* Adding a reference, in whichever place there is room.                   *)
LEMMA AddReferenceOK ==
    ASSUME NEW h, HeapShape(h), NEW d, NEW s, NEW A, DirOK(h, d, s, A), NEW r \in Nat \ A,
           Addresses \ DOMAIN h # {}
    PROVE  \E t : Rearranged(h, knode_add_reference(h, d, r), d, s, t, A \cup {r})
<1> DEFINE g == knode_add_reference(h, d, r)
           room == {i \in 1..Len(s) : Len(h[s[i]].refs) < KDIRECTORYEX_REF_MAX}
           last == IF s = <<>> THEN 0 ELSE Last(s)
           e == Fresh(h)
           B == A \cup {r}
<1>1. /\ Extents(h, d) = s /\ Range(References(h, d)) = A /\ References(h, d) \in Seq(Nat)
    BY ReferencesFacts
<1>2. knode_is_valid_address(h, d) /\ s \in Seq(DOMAIN h) /\ Len(s) \in Nat
    BY DEF knode_is_valid_address, DirOK, RefersTo, IsChain
<1>3. ~knode_contains_reference_address(h, d, r)
    BY <1>1 DEF knode_contains_reference_address, Contains, Range
<1>4. ASSUME NEW x \in Places(d, s), g = [h EXCEPT ![x].refs = Append(@, r)]
      PROVE  Rearranged(h, g, d, s, s, B)
  <2> DEFINE l == Append(h[x].refs, r)
  <2>1. h[x].refs \in Seq(Nat)
    BY DEF DirOK, RefersTo, ListsOK
  <2>2. l \in Seq(Nat) /\ l # <<>>
    BY <2>1
  <2>3. g = [h EXCEPT ![x].refs = l]
    BY <1>4
  <2>4. ListsOK(h, Places(d, s), A)
    BY DEF DirOK, RefersTo
  <2> HIDE DEF g
  <2>5. ListChanged(h, g, Places(d, s), x, l) => ListsOK(g, Places(d, s), B)
    BY <2>4, ListsAppend
  <2> HIDE DEF l, B
  <2> QED BY <2>2, <2>3, <2>5, InPlaceOK
<1>5. CASE Len(h[d].refs) < KDIRECTORY_REF_MAX
  <2>1. g = [h EXCEPT ![d].refs = Append(@, r)]
    BY <1>2, <1>3, <1>5 DEF knode_add_reference
  <2>2. d \in Places(d, s)
    BY DEF Places
  <2> QED BY <1>4, <2>1, <2>2
<1>6. CASE ~(Len(h[d].refs) < KDIRECTORY_REF_MAX) /\ room # {}
  <2>1. g = [h EXCEPT ![s[Min(room)]].refs = Append(@, r)]
    BY <1>1, <1>2, <1>3, <1>6 DEF knode_add_reference
  <2>2. Min(room) \in 1..Len(s)
    <3>1. room \subseteq Nat
      OBVIOUS
    <3> HIDE DEF room
    <3>2. Min(room) \in room
      BY <1>6, <3>1, MinExists
    <3> QED BY <3>2 DEF room
  <2>3. s[Min(room)] \in Places(d, s)
    BY <2>2, PlacesFacts DEF DirOK
  <2> QED BY <1>4, <2>1, <2>3
<1>7. CASE ~(Len(h[d].refs) < KDIRECTORY_REF_MAX) /\ room = {}
  <2>1. g = LinkExtent(Put(h, e, Extent(last, <<r>>)), d, last, e)
    BY <1>1, <1>2, <1>3, <1>7 DEF knode_add_reference
  <2>2. e \in Addresses \ DOMAIN h
    <3>1. Addresses \ DOMAIN h \subseteq Nat
      BY KnodeAssumption
    <3> QED BY <3>1, MinExists DEF Fresh
  <2>3. last = IF Len(s) = 0 THEN 0 ELSE s[Len(s)]
    BY <1>2 DEF Last
  <2> HIDE DEF e, last, g
  <2>4. Rearranged(h, g, d, s, Append(s, e), B)
    BY <2>1, <2>2, <2>3, NewExtentOK
  <2> QED BY <2>4 DEF g, B
<1> QED BY <1>5, <1>6, <1>7

(* Taking one out, wherever it is.                                         *)
LEMMA RemoveReferenceOK ==
    ASSUME NEW h, HeapShape(h), NEW d, NEW s, NEW A, DirOK(h, d, s, A), NEW r \in A
    PROVE  \E t : Rearranged(h, knode_remove_reference(h, d, r), d, s, t, A \ {r})
<1> DEFINE g == knode_remove_reference(h, d, r)
           home == {i \in 1..Len(s) : Contains(h[s[i]].refs, r)}
           B == A \ {r}
<1>1. Extents(h, d) = s
    BY ReferencesFacts
<1>2. knode_is_valid_address(h, d) /\ s \in Seq(DOMAIN h) /\ Len(s) \in Nat
    BY DEF knode_is_valid_address, DirOK, RefersTo, IsChain
<1>3. \A x \in Places(d, s) : h[x].refs \in Seq(Nat)
    BY DEF DirOK, RefersTo, ListsOK
<1>4. \A x \in Places(d, s) : Contains(h[x].refs, r) <=> r \in Range(h[x].refs)
    BY <1>3 DEF Contains, Range
<1>5. ASSUME NEW x \in Places(d, s), Contains(h[x].refs, r), NEW f,
             f = [h EXCEPT ![x].refs = RemoveFirst(@, r)]
      PROVE  LET l == RemoveFirst(h[x].refs, r)
             IN  /\ l \in Seq(Nat) /\ f = [h EXCEPT ![x].refs = l]
                 /\ ListChanged(h, f, Places(d, s), x, l) => ListsOK(f, Places(d, s), B)
  <2> DEFINE l == RemoveFirst(h[x].refs, r)
  <2>1. r \in Range(h[x].refs) /\ h[x].refs \in Seq(Nat) /\ IsInjective(h[x].refs)
    BY <1>4, <1>5 DEF DirOK, RefersTo, ListsOK
  <2>2. l \in Seq(Nat)
    BY <2>1, RemoveFirstFacts
  <2>3. ListsOK(h, Places(d, s), A)
    BY DEF DirOK, RefersTo
  <2>4. ListChanged(h, f, Places(d, s), x, l) => ListsOK(f, Places(d, s), B)
    BY <2>1, <2>3, ListsRemove
  <2> QED BY <1>5, <2>2, <2>4
<1>6. CASE Contains(h[d].refs, r)
  <2> DEFINE l == RemoveFirst(h[d].refs, r)
  <2>1. g = [h EXCEPT ![d].refs = RemoveFirst(@, r)]
    BY <1>2, <1>6 DEF knode_remove_reference
  <2>2. d \in Places(d, s)
    BY DEF Places
  <2> HIDE DEF g, B
  <2>3. /\ l \in Seq(Nat) /\ g = [h EXCEPT ![d].refs = l]
        /\ ListChanged(h, g, Places(d, s), d, l) => ListsOK(g, Places(d, s), B)
    BY <1>5, <1>6, <2>1, <2>2
  <2> HIDE DEF l
  <2>4. Rearranged(h, g, d, s, s, B)
    BY <2>2, <2>3, InPlaceOK
  <2> QED BY <2>4 DEF g, B
<1>7. CASE ~Contains(h[d].refs, r)
  <2> DEFINE p == Min(home)
             e == s[p]
             cut == [h EXCEPT ![e].refs = RemoveFirst(@, r)]
             l == RemoveFirst(h[e].refs, r)
  <2>1. home # {}
    <3>1. PICK x \in Places(d, s) : r \in Range(h[x].refs)
      BY DEF DirOK, RefersTo, ListsOK
    <3>2. PICK i \in 1..Len(s) : x = s[i]
      BY <1>4, <1>7, <3>1, PlacesFacts DEF DirOK
    <3> QED BY <1>4, <3>1, <3>2
  <2>2. p \in 1..Len(s) /\ Contains(h[e].refs, r)
    <3>1. home \subseteq Nat
      OBVIOUS
    <3> HIDE DEF home
    <3>2. p \in home
      BY <2>1, <3>1, MinExists
    <3> QED BY <3>2 DEF home
  <2>3. g = IF cut[e].refs = <<>> THEN kfree_node(Unlink(cut, d, e), e) ELSE cut
    BY <1>1, <1>2, <1>7, <2>1 DEF knode_remove_reference
  <2>4. e \in Places(d, s) /\ e # d /\ e \in DOMAIN h
    BY <2>2, PlacesFacts DEF DirOK
  <2>5. cut = [h EXCEPT ![e].refs = RemoveFirst(@, r)]
    OBVIOUS
  <2> HIDE DEF cut, e, p, home, g, B
  <2>6. /\ l \in Seq(Nat) /\ cut = [h EXCEPT ![e].refs = l]
        /\ ListChanged(h, cut, Places(d, s), e, l) => ListsOK(cut, Places(d, s), B)
    BY <1>5, <2>2, <2>4, <2>5
  <2> HIDE DEF l
  <2>7. HeapShape(cut) /\ RefersTo(cut, d, s, B) /\ cut[e].refs = l
    <3>1. HeapShape(cut) /\ RefersTo(cut, d, s, B)
      BY <2>4, <2>6, CutOK
    <3>2. h[e] \in DirectorySet \cup ExtentSet
      <4>1. h[e].kind = "extent"
        BY <2>2 DEF DirOK, RefersTo, IsChain, e
      <4> QED BY <2>4, <4>1 DEF HeapShape, Object
    <3>3. cut[e].refs = l
      BY <2>4, <2>6, <3>2 DEF DirectorySet, ExtentSet
    <3> QED BY <3>1, <3>3
  <2>8. CASE cut[e].refs # <<>>
    <3>1. g = cut
      BY <2>3, <2>8
    <3>2. l # <<>>
      BY <2>8, <2>7
    <3>3. Rearranged(h, g, d, s, s, B)
      BY <2>4, <2>6, <3>1, <3>2, InPlaceOK
    <3> QED BY <3>3 DEF g, B
  <2>9. CASE cut[e].refs = <<>>
    <3>2. /\ DOMAIN cut = DOMAIN h
          /\ \A x \in DOMAIN h \ {e} : cut[x] = h[x]
      BY <2>6
    <3>3. \A i \in 1..Len(s) : i # p => cut[s[i]].refs # <<>>
      <4>1. \A i \in 1..Len(s) : i # p => s[i] # e
        BY <2>2 DEF DirOK, RefersTo, IsChain, e
      <4>2. \A i \in 1..Len(s) : s[i] \in DOMAIN h /\ h[s[i]].refs # <<>>
        BY <1>2 DEF DirOK
      <4> QED BY <3>2, <4>1, <4>2
    <3>4. Rearranged(cut, g, d, s, Skip(s, p), B)
      <4>1. g = kfree_node(Unlink(cut, d, s[p]), s[p]) /\ cut[s[p]].refs = <<>>
        BY <2>3, <2>9 DEF e
      <4> QED BY <2>2, <2>7, <3>3, <4>1, UnlinkOK
    <3>5. Rearranged(h, g, d, s, Skip(s, p), B)
      BY <2>4, <3>2, <3>4 DEF Rearranged
    <3> QED BY <3>5 DEF g, B
  <2> QED BY <2>8, <2>9
<1> QED BY <1>6, <1>7

-----------------------------------------------------------------------------
(* The heap h, what each directory holds (A), the lost extents (L) and the *)
(* extents of each directory (c).                                          *)
KnodeOK(h, A, L, c) ==
    /\ HeapShape(h)
    /\ A = [d \in DOMAIN A |-> A[d]]
    /\ DOMAIN A = {x \in DOMAIN h : h[x].kind = "directory"}
    /\ \A d \in DOMAIN A : /\ DirOK(h, d, c[d], A[d])
                           /\ A[d] \subseteq {x \in DOMAIN h : h[x].kind # "extent"} \ {d}
    /\ \A d, e \in DOMAIN A : d # e => A[d] \cap A[e] = {} /\ Range(c[d]) \cap Range(c[e]) = {}
    /\ \A d \in DOMAIN A : L \cap Range(c[d]) = {}
    /\ \A x \in DOMAIN h : h[x].kind = "extent" => x \in L \/ \E d \in DOMAIN A : x \in Range(c[d])
    /\ \A x \in L : x \in DOMAIN h /\ h[x].kind = "extent"

KnodeInv == \E c : KnodeOK(heap, added, lost, c)

(* A directory whose places are as they were is as it was.                 *)
LEMMA DirFrame ==
    ASSUME NEW h, NEW g, NEW d, NEW s, NEW A, DirOK(h, d, s, A),
           \A x \in Places(d, s) : x \in DOMAIN g /\ g[x] = h[x]
    PROVE  DirOK(g, d, s, A)
<1>1. /\ s \in Seq(DOMAIN h) /\ Range(s) = {s[i] : i \in 1..Len(s)}
      /\ \A i \in 1..Len(s) : s[i] \in DOMAIN g /\ g[s[i]] = h[s[i]]
      /\ d \in DOMAIN g /\ g[d] = h[d]
  <2>1. s \in Seq(DOMAIN h)
    BY DEF DirOK, RefersTo, IsChain
  <2>2. Range(s) = {s[i] : i \in 1..Len(s)}
    BY PlacesFacts DEF DirOK
  <2> QED BY <2>1, <2>2 DEF Places
<1>2. IsChain(g, d, s)
  <2>1. s \in Seq(DOMAIN g)
    BY <1>1
  <2> QED BY <1>1, <2>1 DEF DirOK, RefersTo, IsChain
<1>3. ListsOK(g, Places(d, s), A)
    BY DEF DirOK, RefersTo, ListsOK
<1> QED BY <1>1, <1>2, <1>3 DEF DirOK, RefersTo

(* The extents of a directory are in the heap; directories are no extents. *)
LEMMA ChainFacts ==
    ASSUME NEW h, NEW d, NEW s, NEW A, DirOK(h, d, s, A)
    PROVE  /\ d \in DOMAIN h /\ h[d].kind = "directory"
           /\ \A x \in Range(s) : x \in DOMAIN h /\ h[x].kind = "extent"
<1>1. Range(s) = {s[i] : i \in 1..Len(s)}
    BY PlacesFacts DEF DirOK
<1> QED BY <1>1 DEF DirOK, RefersTo, IsChain

(* One directory is rearranged and holds B now.                            *)
LEMMA RearrangedOK ==
    ASSUME NEW h, NEW A, NEW L, NEW c, KnodeOK(h, A, L, c), NEW d \in DOMAIN A,
           NEW g, NEW t, NEW B, Rearranged(h, g, d, c[d], t, B),
           B \subseteq {x \in DOMAIN h : h[x].kind # "extent"} \ {d},
           \A e \in DOMAIN A \ {d} : B \cap A[e] = {}
    PROVE  \E k : KnodeOK(g, [A EXCEPT ![d] = B], L, k)
<1> DEFINE A2 == [A EXCEPT ![d] = B]
           k == [x \in DOMAIN A |-> IF x = d THEN t ELSE c[x]]
<1>1. /\ DOMAIN A2 = DOMAIN A /\ A2[d] = B /\ \A e \in DOMAIN A \ {d} : A2[e] = A[e]
      /\ A2 = [e \in DOMAIN A2 |-> A2[e]]
    BY DEF KnodeOK
<1>2. k[d] = t /\ \A e \in DOMAIN A \ {d} : k[e] = c[e]
    OBVIOUS
<1> HIDE DEF A2, k
<1>3. \A e \in DOMAIN A : /\ e \in DOMAIN h /\ h[e].kind = "directory"
                          /\ \A x \in Range(c[e]) : x \in DOMAIN h /\ h[x].kind = "extent"
    BY ChainFacts DEF KnodeOK
<1>4. /\ d \in DOMAIN g /\ g[d].kind = "directory"
      /\ \A x \in Range(t) : x \in DOMAIN g /\ g[x].kind = "extent"
    BY ChainFacts DEF Rearranged
<1>5. \A x \in DOMAIN h : x # d /\ x \notin Range(c[d]) => x \in DOMAIN g /\ g[x] = h[x]
    BY DEF Rearranged, Places
<1>6. \A x \in DOMAIN g : x \in Range(t) \/ (x \in DOMAIN h /\ x \notin Range(c[d]))
    BY DEF Rearranged
<1>7. \A x \in Range(t) : x \in DOMAIN h => x \in Range(c[d])
    BY DEF Rearranged
<1>8. \A e \in DOMAIN A \ {d} : Range(c[e]) \cap Range(c[d]) = {}
    BY DEF KnodeOK
<1>9. ASSUME NEW x \in DOMAIN h, h[x].kind # "extent" PROVE x \in DOMAIN g /\ g[x].kind = h[x].kind
    BY <1>3, <1>4, <1>5, <1>9
<1>10. DOMAIN A2 = {x \in DOMAIN g : g[x].kind = "directory"}
  <2>1. ASSUME NEW x \in DOMAIN g, g[x].kind = "directory" PROVE x \in DOMAIN A
    <3>1. x \in DOMAIN h /\ x \notin Range(c[d])
      BY <1>4, <1>6, <2>1
    <3>2. x # d => h[x].kind = "directory"
      BY <1>5, <2>1, <3>1
    <3> QED BY <3>1, <3>2 DEF KnodeOK
  <2>2. ASSUME NEW x \in DOMAIN A PROVE x \in DOMAIN g /\ g[x].kind = "directory"
    BY <1>3, <1>9
  <2> QED BY <1>1, <2>1, <2>2
<1>11. ASSUME NEW e \in DOMAIN A
       PROVE  /\ DirOK(g, e, k[e], A2[e])
              /\ A2[e] \subseteq {x \in DOMAIN g : g[x].kind # "extent"} \ {e}
  <2>1. CASE e = d
    <3>1. DirOK(g, d, t, B)
      BY DEF Rearranged
    <3>2. B \subseteq {x \in DOMAIN g : g[x].kind # "extent"} \ {d}
      BY <1>9
    <3> QED BY <1>1, <1>2, <2>1, <3>1, <3>2
  <2>2. CASE e # d
    <3>1. \A x \in Places(e, c[e]) : x \in DOMAIN g /\ g[x] = h[x]
      BY <1>3, <1>5, <1>8, <2>2 DEF Places
    <3>2. DirOK(g, e, c[e], A[e])
      BY <3>1, DirFrame DEF KnodeOK
    <3>3. A[e] \subseteq {x \in DOMAIN g : g[x].kind # "extent"} \ {e}
      BY <1>9 DEF KnodeOK
    <3> QED BY <1>1, <1>2, <2>2, <3>2, <3>3
  <2> QED BY <2>1, <2>2
<1>12. \A e \in DOMAIN A \ {d} : Range(t) \cap Range(c[e]) = {}
    BY <1>3, <1>7, <1>8
<1>13. ASSUME NEW e \in DOMAIN A, NEW f \in DOMAIN A, e # f
       PROVE  A2[e] \cap A2[f] = {} /\ Range(k[e]) \cap Range(k[f]) = {}
  <2>1. e # d /\ f # d => A[e] \cap A[f] = {} /\ Range(c[e]) \cap Range(c[f]) = {}
    BY <1>13 DEF KnodeOK
  <2>2. CASE e # d /\ f # d
    BY <1>1, <1>2, <2>1, <2>2
  <2>3. CASE e = d
    BY <1>1, <1>2, <1>12, <1>13, <2>3
  <2>4. CASE f = d
    BY <1>1, <1>2, <1>12, <1>13, <2>4
  <2> QED BY <2>2, <2>3, <2>4
<1>14. \A x \in L : x \in DOMAIN h /\ h[x].kind = "extent" /\ x \notin Range(c[d])
    BY DEF KnodeOK
<1>15. ASSUME NEW e \in DOMAIN A PROVE L \cap Range(k[e]) = {}
  <2>1. CASE e = d
    BY <1>2, <1>7, <1>14, <2>1
  <2>2. CASE e # d
    BY <1>2, <2>2 DEF KnodeOK
  <2> QED BY <2>1, <2>2
<1>16. ASSUME NEW x \in DOMAIN g, g[x].kind = "extent"
       PROVE  x \in L \/ \E e \in DOMAIN A : x \in Range(k[e])
  <2>1. CASE x \in Range(t)
    BY <1>2, <2>1
  <2>2. CASE x \notin Range(t)
    <3>1. x \in DOMAIN h /\ x \notin Range(c[d]) /\ x # d
      BY <1>4, <1>6, <1>16, <2>2
    <3>2. h[x].kind = "extent"
      BY <1>5, <1>16, <3>1
    <3>3. x \in L \/ \E e \in DOMAIN A : x \in Range(c[e])
      BY <3>1, <3>2 DEF KnodeOK
    <3> QED BY <1>2, <3>1, <3>3
  <2> QED BY <2>1, <2>2
<1>17. \A x \in L : x \in DOMAIN g /\ g[x].kind = "extent"
    BY <1>3, <1>5, <1>14
<1>18. HeapShape(g)
    BY DEF Rearranged
<1>19. KnodeOK(g, A2, L, k)
    BY <1>1, <1>10, <1>11, <1>13, <1>15, <1>16, <1>17, <1>18 DEF KnodeOK
<1> QED BY <1>19 DEF A2

(* A new node that no directory refers to.                                 *)
LEMMA NewObjectOK ==
    ASSUME NEW h, NEW A, NEW L, NEW c, KnodeOK(h, A, L, c), NEW a \in Addresses \ DOMAIN h
    PROVE  KnodeOK(Put(h, a, Object), A, L, c)
<1> DEFINE g == Put(h, a, Object)
<1>1. /\ DOMAIN g = DOMAIN h \cup {a} /\ g[a] = Object /\ \A x \in DOMAIN h : g[x] = h[x]
      /\ g = [x \in DOMAIN g |-> g[x]]
    BY DEF Put
<1> HIDE DEF g
<1>2. g[a].kind = "object"
    BY <1>1 DEF Object
<1>3. HeapShape(g)
    BY <1>1 DEF HeapShape, KnodeOK
<1>4. ASSUME NEW d \in DOMAIN A PROVE DirOK(g, d, c[d], A[d])
  <2>1. DirOK(h, d, c[d], A[d])
    BY DEF KnodeOK
  <2>2. Places(d, c[d]) \subseteq DOMAIN h
    BY <2>1, PlacesFacts DEF DirOK
  <2> QED BY <1>1, <2>1, <2>2, DirFrame
<1>5. DOMAIN A = {x \in DOMAIN g : g[x].kind = "directory"}
    BY <1>1, <1>2 DEF KnodeOK
<1>6. \A d \in DOMAIN A : A[d] \subseteq {x \in DOMAIN g : g[x].kind # "extent"} \ {d}
    BY <1>1 DEF KnodeOK
<1>7. \A x \in DOMAIN g : g[x].kind = "extent" => x \in DOMAIN h /\ h[x].kind = "extent"
    BY <1>1, <1>2
<1>8. \A x \in L : x \in DOMAIN g /\ g[x].kind = "extent"
    BY <1>1 DEF KnodeOK
<1>9. \A x \in DOMAIN g : g[x].kind = "extent" => x \in L \/ \E d \in DOMAIN A : x \in Range(c[d])
    BY <1>7 DEF KnodeOK
<1> QED BY <1>3, <1>4, <1>5, <1>6, <1>8, <1>9 DEF KnodeOK, g

LEMMA NewDirectoryOK ==
    ASSUME NEW h, NEW A, NEW L, NEW c, KnodeOK(h, A, L, c), NEW a \in Addresses \ DOMAIN h,
           NEW p \in Nat
    PROVE  \E k : KnodeOK(Put(h, a, Directory(p)), Put(A, a, {}), L, k)
<1> DEFINE g == Put(h, a, Directory(p))
           A2 == Put(A, a, {})
           k == [x \in DOMAIN A \cup {a} |-> IF x = a THEN <<>> ELSE c[x]]
<1>1. /\ DOMAIN g = DOMAIN h \cup {a} /\ g[a] = Directory(p) /\ \A x \in DOMAIN h : g[x] = h[x]
      /\ g = [x \in DOMAIN g |-> g[x]]
    BY DEF Put
<1>2. a \notin DOMAIN A
    BY DEF KnodeOK
<1>3. /\ DOMAIN A2 = DOMAIN A \cup {a} /\ A2[a] = {} /\ \A x \in DOMAIN A : A2[x] = A[x]
      /\ A2 = [x \in DOMAIN A2 |-> A2[x]]
    BY <1>2 DEF Put
<1>4. k[a] = <<>> /\ \A x \in DOMAIN A : k[x] = c[x]
    BY <1>2
<1> HIDE DEF g, A2, k
<1>5. /\ g[a].kind = "directory" /\ g[a].next = 0 /\ g[a].prev = 0 /\ g[a].refs = <<>>
      /\ g[a] \in DirectorySet
    BY <1>1 DEF Directory, DirectorySet
<1>6. HeapShape(g)
  <2>1. \A x \in DOMAIN g : g[x] \in DirectorySet \cup ExtentSet \cup {Object}
    BY <1>1, <1>5 DEF HeapShape, KnodeOK
  <2>2. DOMAIN g \subseteq Addresses \cup {Root}
    BY <1>1 DEF HeapShape, KnodeOK
  <2> QED BY <1>1, <2>1, <2>2 DEF HeapShape
<1>7. DirOK(g, a, <<>>, {})
  <2>1. Range(<<>>) = {} /\ Places(a, <<>>) = {a}
    BY DEF Range, Places
  <2>2. IsChain(g, a, <<>>)
    BY <1>5 DEF IsChain
  <2>3. ListsOK(g, {a}, {})
    <3>1. g[a].refs \in Seq(Nat) /\ Range(g[a].refs) = {}
      BY <1>5, <2>1
    <3>2. IsInjective(g[a].refs)
      BY <1>5 DEF IsInjective
    <3> QED BY <3>1, <3>2 DEF ListsOK
  <2>4. \A i \in 1..Len(<<>>) : g[(<<>>)[i]].refs # <<>>
    OBVIOUS
  <2> QED BY <1>1, <1>5, <2>1, <2>2, <2>3, <2>4 DEF DirOK, RefersTo
<1>8. ASSUME NEW d \in DOMAIN A PROVE DirOK(g, d, c[d], A[d])
  <2>1. DirOK(h, d, c[d], A[d])
    BY DEF KnodeOK
  <2>2. Places(d, c[d]) \subseteq DOMAIN h
    BY <2>1, PlacesFacts DEF DirOK
  <2> QED BY <1>1, <2>1, <2>2, DirFrame
<1>9. DOMAIN A2 = {x \in DOMAIN g : g[x].kind = "directory"}
    BY <1>1, <1>3, <1>5 DEF KnodeOK
<1>10. \A d \in DOMAIN A2 : /\ DirOK(g, d, k[d], A2[d])
                            /\ A2[d] \subseteq {x \in DOMAIN g : g[x].kind # "extent"} \ {d}
  <2>1. \A d \in DOMAIN A : A[d] \subseteq {x \in DOMAIN g : g[x].kind # "extent"} \ {d}
    BY <1>1 DEF KnodeOK
  <2> QED BY <1>3, <1>4, <1>7, <1>8, <2>1
<1>11. Range(k[a]) = {}
    BY <1>4 DEF Range
<1>12. \A d, e \in DOMAIN A2 : d # e => A2[d] \cap A2[e] = {} /\ Range(k[d]) \cap Range(k[e]) = {}
  <2> SUFFICES ASSUME NEW d \in DOMAIN A2, NEW e \in DOMAIN A2, d # e
               PROVE  A2[d] \cap A2[e] = {} /\ Range(k[d]) \cap Range(k[e]) = {}
    OBVIOUS
  <2>1. CASE d = a \/ e = a
    BY <1>3, <1>11, <2>1
  <2>2. CASE d # a /\ e # a
    <3>1. /\ d \in DOMAIN A /\ e \in DOMAIN A /\ A2[d] = A[d] /\ A2[e] = A[e]
          /\ k[d] = c[d] /\ k[e] = c[e]
      BY <1>3, <1>4, <2>2
    <3> QED BY <3>1 DEF KnodeOK
  <2> QED BY <2>1, <2>2
<1>13. \A d \in DOMAIN A2 : L \cap Range(k[d]) = {}
    BY <1>3, <1>4, <1>11 DEF KnodeOK
<1>14. \A x \in DOMAIN g : g[x].kind = "extent" => x \in L \/ \E d \in DOMAIN A2 : x \in Range(k[d])
  <2> SUFFICES ASSUME NEW x \in DOMAIN g, g[x].kind = "extent"
               PROVE  x \in L \/ \E d \in DOMAIN A2 : x \in Range(k[d])
    OBVIOUS
  <2>1. x \in DOMAIN h /\ h[x].kind = "extent"
    BY <1>1, <1>5
  <2>2. x \in L \/ \E d \in DOMAIN A : x \in Range(c[d])
    BY <2>1 DEF KnodeOK
  <2> QED BY <1>3, <1>4, <2>2
<1>15. \A x \in L : x \in DOMAIN g /\ g[x].kind = "extent"
    BY <1>1 DEF KnodeOK
<1>16. KnodeOK(g, A2, L, k)
    BY <1>3, <1>6, <1>9, <1>10, <1>12, <1>13, <1>14, <1>15 DEF KnodeOK
<1> QED BY <1>16 DEF g, A2

(* A directory that no directory refers to is freed; its extents are lost. *)
LEMMA FreeDirectoryOK ==
    ASSUME NEW h, NEW A, NEW L, NEW c, KnodeOK(h, A, L, c), NEW a \in DOMAIN A,
           \A d \in DOMAIN A : a \notin A[d]
    PROVE  KnodeOK(kfree_node(h, a), kfree_node(A, a), L \cup Range(c[a]), c)
<1> DEFINE g == kfree_node(h, a)
           A2 == kfree_node(A, a)
           L2 == L \cup Range(c[a])
<1>1. /\ DOMAIN g = DOMAIN h \ {a} /\ \A x \in DOMAIN g : g[x] = h[x]
      /\ g = [x \in DOMAIN g |-> g[x]]
    BY DEF kfree_node
<1>2. /\ DOMAIN A2 = DOMAIN A \ {a} /\ \A x \in DOMAIN A2 : A2[x] = A[x]
      /\ A2 = [x \in DOMAIN A2 |-> A2[x]]
    BY DEF kfree_node
<1> HIDE DEF g, A2
<1>3. \A e \in DOMAIN A : /\ e \in DOMAIN h /\ h[e].kind = "directory"
                          /\ \A x \in Range(c[e]) : x \in DOMAIN h /\ h[x].kind = "extent" /\ x # a
  <2>1. \A e \in DOMAIN A : /\ e \in DOMAIN h /\ h[e].kind = "directory"
                            /\ \A x \in Range(c[e]) : x \in DOMAIN h /\ h[x].kind = "extent"
    BY ChainFacts DEF KnodeOK
  <2> QED BY <2>1
<1>4. HeapShape(g)
    BY <1>1 DEF HeapShape, KnodeOK
<1>5. DOMAIN A2 = {x \in DOMAIN g : g[x].kind = "directory"}
    BY <1>1, <1>2 DEF KnodeOK
<1>6. ASSUME NEW d \in DOMAIN A2
      PROVE  /\ DirOK(g, d, c[d], A2[d])
             /\ A2[d] \subseteq {x \in DOMAIN g : g[x].kind # "extent"} \ {d}
  <2>1. d \in DOMAIN A /\ d # a /\ A2[d] = A[d] /\ DirOK(h, d, c[d], A[d])
    BY <1>2 DEF KnodeOK
  <2>2. \A x \in Places(d, c[d]) : x \in DOMAIN g /\ g[x] = h[x]
    BY <1>1, <1>3, <2>1 DEF Places
  <2>3. A[d] \subseteq {x \in DOMAIN g : g[x].kind # "extent"} \ {d}
    <3>1. A[d] \subseteq {x \in DOMAIN h : h[x].kind # "extent"} \ {d}
      BY <2>1 DEF KnodeOK
    <3> QED BY <1>1, <2>1, <3>1
  <2> QED BY <2>1, <2>2, <2>3, DirFrame
<1>7. \A d, e \in DOMAIN A2 : d # e => A2[d] \cap A2[e] = {} /\ Range(c[d]) \cap Range(c[e]) = {}
  <2> SUFFICES ASSUME NEW d \in DOMAIN A2, NEW e \in DOMAIN A2, d # e
               PROVE  A2[d] \cap A2[e] = {} /\ Range(c[d]) \cap Range(c[e]) = {}
    OBVIOUS
  <2>1. d \in DOMAIN A /\ e \in DOMAIN A /\ A2[d] = A[d] /\ A2[e] = A[e]
    BY <1>2
  <2> QED BY <2>1 DEF KnodeOK
<1>8. \A d \in DOMAIN A2 : L2 \cap Range(c[d]) = {}
  <2> SUFFICES ASSUME NEW d \in DOMAIN A2 PROVE L2 \cap Range(c[d]) = {}
    OBVIOUS
  <2>1. d \in DOMAIN A /\ d # a
    BY <1>2
  <2>2. Range(c[d]) \cap Range(c[a]) = {} /\ L \cap Range(c[d]) = {}
    BY <2>1 DEF KnodeOK
  <2> QED BY <2>2
<1>9. \A x \in DOMAIN g : g[x].kind = "extent" => x \in L2 \/ \E d \in DOMAIN A2 : x \in Range(c[d])
  <2> SUFFICES ASSUME NEW x \in DOMAIN g, g[x].kind = "extent"
               PROVE  x \in L2 \/ \E d \in DOMAIN A2 : x \in Range(c[d])
    OBVIOUS
  <2>1. x \in DOMAIN h /\ h[x].kind = "extent"
    BY <1>1
  <2>2. x \in L \/ \E d \in DOMAIN A : x \in Range(c[d])
    BY <2>1 DEF KnodeOK
  <2> QED BY <1>2, <2>2
<1>10. \A x \in L2 : x \in DOMAIN g /\ g[x].kind = "extent"
  <2>1. \A x \in L2 : x \in DOMAIN h /\ h[x].kind = "extent"
    BY <1>3 DEF KnodeOK
  <2> QED BY <1>1, <1>3, <2>1
<1>11. KnodeOK(g, A2, L2, c)
    BY <1>2, <1>4, <1>5, <1>6, <1>7, <1>8, <1>9, <1>10 DEF KnodeOK
<1> QED BY <1>11 DEF g, A2

LEMMA KnodeInitInv == KnodeInit => KnodeInv
<1> SUFFICES ASSUME KnodeInit PROVE KnodeInv
    OBVIOUS
<1> DEFINE c == [d \in {Root} |-> <<>>]
<1>1. DOMAIN heap = {Root} /\ heap[Root] = Directory(0) /\ heap = [x \in DOMAIN heap |-> heap[x]]
    BY DEF KnodeInit
<1>2. /\ DOMAIN added = {Root} /\ added[Root] = {} /\ added = [x \in DOMAIN added |-> added[x]]
      /\ lost = {}
    BY DEF KnodeInit
<1>3. /\ heap[Root].kind = "directory" /\ heap[Root].next = 0 /\ heap[Root].prev = 0
      /\ heap[Root].refs = <<>> /\ heap[Root] \in DirectorySet
    BY <1>1 DEF Directory, DirectorySet
<1>4. HeapShape(heap)
    BY <1>1, <1>3 DEF HeapShape
<1>5. DirOK(heap, Root, <<>>, {})
  <2>1. Range(<<>>) = {} /\ Places(Root, <<>>) = {Root}
    BY DEF Range, Places
  <2>2. IsChain(heap, Root, <<>>)
    BY <1>3 DEF IsChain
  <2>3. ListsOK(heap, {Root}, {})
    <3>1. heap[Root].refs \in Seq(Nat) /\ Range(heap[Root].refs) = {}
      BY <1>3, <2>1
    <3>2. IsInjective(heap[Root].refs)
      BY <1>3 DEF IsInjective
    <3> QED BY <3>1, <3>2 DEF ListsOK
  <2>4. \A i \in 1..Len(<<>>) : heap[(<<>>)[i]].refs # <<>>
    OBVIOUS
  <2> QED BY <1>1, <1>3, <2>1, <2>2, <2>3, <2>4 DEF DirOK, RefersTo
<1>6. c[Root] = <<>>
    OBVIOUS
<1> HIDE DEF c
<1>7. KnodeOK(heap, added, lost, c)
    BY <1>1, <1>2, <1>3, <1>4, <1>5, <1>6 DEF KnodeOK
<1> QED BY <1>7 DEF KnodeInv

(* The node at a, which is new and no directory's, is hung in d.           *)
LEMMA HangOK ==
    ASSUME NEW h, NEW A, NEW L, NEW c, KnodeOK(h, A, L, c), NEW d \in DOMAIN A,
           NEW a \in DOMAIN h, h[a].kind # "extent", a # d, \A e \in DOMAIN A : a \notin A[e],
           Addresses \ DOMAIN h # {}
    PROVE  \E k : KnodeOK(knode_add_reference(h, d, a), [A EXCEPT ![d] = @ \cup {a}], L, k)
<1> DEFINE B == A[d] \cup {a}
           g == knode_add_reference(h, d, a)
<1>1. HeapShape(h) /\ DirOK(h, d, c[d], A[d]) /\ a \in Nat \ A[d]
    BY AddressFacts DEF KnodeOK
<1>2. PICK t : Rearranged(h, g, d, c[d], t, B)
    BY <1>1, AddReferenceOK
<1>3. B \subseteq {x \in DOMAIN h : h[x].kind # "extent"} \ {d}
    BY DEF KnodeOK
<1>4. \A e \in DOMAIN A \ {d} : B \cap A[e] = {}
    BY DEF KnodeOK
<1>5. [A EXCEPT ![d] = @ \cup {a}] = [A EXCEPT ![d] = B]
    OBVIOUS
<1> HIDE DEF B, g
<1>6. \E k : KnodeOK(g, [A EXCEPT ![d] = B], L, k)
    BY <1>2, <1>3, <1>4, RearrangedOK
<1> QED BY <1>5, <1>6 DEF g

(* What kmalloc finds when there is room for n.                            *)
LEMMA FreshFacts ==
    ASSUME NEW h, HeapShape(h), NEW n \in {1, 2}, HasRoom(h, n)
    PROVE  /\ Fresh(h) \in Addresses \ DOMAIN h /\ Fresh(h) \in Nat
           /\ n = 2 => (Addresses \ DOMAIN h) \ {Fresh(h)} # {}
<1> DEFINE F == Addresses \ DOMAIN h
<1>1. F \subseteq Nat /\ IsFiniteSet(F)
  <2>1. F \in SUBSET Addresses
    OBVIOUS
  <2> QED BY <2>1, KnodeAssumption, FS_Subset
<1>2. Cardinality(F) >= n
    BY DEF HasRoom
<1> HIDE DEF F
<1>3. F # {}
    BY <1>2, FS_EmptySet
<1>4. Min(F) \in F
    BY <1>1, <1>3, MinExists
<1>5. n = 2 => F \ {Min(F)} # {}
  <2>1. IsFiniteSet(F \ {Min(F)}) /\ Cardinality(F \ {Min(F)}) = Cardinality(F) - 1
    BY <1>1, <1>4, FS_RemoveElement
  <2>2. Cardinality(F) \in Nat
    BY <1>1, FS_CardinalityType
  <2> QED BY <1>2, <2>1, <2>2, FS_EmptySet
<1> QED BY <1>1, <1>4, <1>5 DEF F, Fresh

LEMMA AddObjectStep == ASSUME KnodeInv, NEW d, AddObject(d) PROVE KnodeInv'
<1> DEFINE a == Fresh(heap)
           h == Put(heap, a, Object)
<1>1. PICK c : KnodeOK(heap, added, lost, c)
    BY DEF KnodeInv
<1>2. /\ a \in Addresses \ DOMAIN heap /\ a \in Nat /\ (Addresses \ DOMAIN heap) \ {a} # {}
    BY <1>1, FreshFacts DEF AddObject, KnodeOK
<1>3. /\ d \in DOMAIN added /\ heap' = knode_add_reference(h, d, a)
      /\ added' = [added EXCEPT ![d] = @ \cup {a}] /\ lost' = lost
    BY DEF AddObject
<1>4. DOMAIN h = DOMAIN heap \cup {a} /\ h[a].kind = "object"
    BY DEF Put, Object
<1> HIDE DEF a, h
<1>5. KnodeOK(h, added, lost, c)
    BY <1>1, <1>2, NewObjectOK DEF h
<1>6. /\ a \in DOMAIN h /\ h[a].kind # "extent" /\ Addresses \ DOMAIN h # {}
    BY <1>2, <1>4
<1>7. a # d /\ \A e \in DOMAIN added : a \notin added[e]
    BY <1>1, <1>2, <1>3 DEF KnodeOK
<1>8. \E k : KnodeOK(heap', added', lost', k)
    BY <1>3, <1>5, <1>6, <1>7, HangOK
<1> QED BY <1>8 DEF KnodeInv

LEMMA CreateStep == ASSUME KnodeInv, NEW d, create_knode(d) PROVE KnodeInv'
<1> DEFINE a == Fresh(heap)
           h == Put(heap, a, Directory(d))
           A == Put(added, a, {})
<1>1. PICK c : KnodeOK(heap, added, lost, c)
    BY DEF KnodeInv
<1>2. /\ a \in Addresses \ DOMAIN heap /\ a \in Nat /\ (Addresses \ DOMAIN heap) \ {a} # {}
    BY <1>1, FreshFacts DEF create_knode, KnodeOK
<1>3. /\ d \in DOMAIN added /\ heap' = knode_add_reference(h, d, a)
      /\ added' = Put([added EXCEPT ![d] = @ \cup {a}], a, {}) /\ lost' = lost
    BY DEF create_knode
<1>4. DOMAIN h = DOMAIN heap \cup {a} /\ h[a].kind = "directory"
    BY DEF Put, Directory
<1>5. /\ DOMAIN A = DOMAIN added \cup {a} /\ A[a] = {} /\ \A e \in DOMAIN added \ {a} : A[e] = added[e]
    BY DEF Put
<1>6. a \notin DOMAIN added /\ a # d /\ d \in DOMAIN heap
    BY <1>1, <1>2, <1>3 DEF KnodeOK
<1>7. Put([added EXCEPT ![d] = @ \cup {a}], a, {}) = [A EXCEPT ![d] = @ \cup {a}]
    BY <1>3, <1>6 DEF Put
<1> HIDE DEF a, h, A
<1>8. PICK k : KnodeOK(h, A, lost, k)
  <2>1. d \in Nat
    BY <1>1, <1>6, AddressFacts DEF KnodeOK
  <2> QED BY <1>1, <1>2, <2>1, NewDirectoryOK DEF h, A
<1>9. /\ a \in DOMAIN h /\ h[a].kind # "extent" /\ Addresses \ DOMAIN h # {} /\ d \in DOMAIN A
    BY <1>2, <1>3, <1>4, <1>5
<1>10. \A e \in DOMAIN A : a \notin A[e]
    BY <1>1, <1>2, <1>5, <1>6 DEF KnodeOK
<1>11. \E j : KnodeOK(heap', added', lost', j)
    BY <1>3, <1>6, <1>7, <1>8, <1>9, <1>10, HangOK
<1> QED BY <1>11 DEF KnodeInv

LEMMA DestroyStep == ASSUME KnodeInv, NEW a, destroy_knode(a) PROVE KnodeInv'
<1> DEFINE p == heap[a].parent
           h == knode_remove_reference(heap, p, a)
           A == [added EXCEPT ![p] = @ \ {a}]
           B == added[p] \ {a}
<1>1. PICK c : KnodeOK(heap, added, lost, c)
    BY DEF KnodeInv
<1>2. /\ a \in DOMAIN added /\ p \in DOMAIN added /\ a \in added[p]
      /\ heap' = kfree_node(h, a) /\ added' = kfree_node(A, a)
      /\ lost' = lost \cup Range(Extents(heap, a))
    BY DEF destroy_knode
<1>3. HeapShape(heap) /\ DirOK(heap, p, c[p], added[p]) /\ DirOK(heap, a, c[a], added[a])
    BY <1>1, <1>2 DEF KnodeOK
<1>4. Extents(heap, a) = c[a] /\ a # p
    BY <1>1, <1>2, <1>3, ReferencesFacts DEF KnodeOK
<1>5. /\ DOMAIN A = DOMAIN added /\ A[p] = B /\ \A e \in DOMAIN added \ {p} : A[e] = added[e]
      /\ A = [added EXCEPT ![p] = B]
    BY <1>1, <1>2 DEF KnodeOK
<1> HIDE DEF p, h, A, B
<1>6. PICK t : Rearranged(heap, h, p, c[p], t, B)
    BY <1>2, <1>3, RemoveReferenceOK DEF h, B
<1>7. /\ B \subseteq {x \in DOMAIN heap : heap[x].kind # "extent"} \ {p}
      /\ \A e \in DOMAIN added \ {p} : B \cap added[e] = {}
    BY <1>1, <1>2 DEF KnodeOK, B
<1>8. PICK k : KnodeOK(h, A, lost, k)
  <2>1. \E k : KnodeOK(h, [added EXCEPT ![p] = B], lost, k)
    BY <1>1, <1>2, <1>6, <1>7, RearrangedOK
  <2> QED BY <1>5, <2>1
<1>9. a \in DOMAIN A /\ \A e \in DOMAIN A : a \notin A[e]
    BY <1>1, <1>2, <1>5 DEF KnodeOK, B
<1>10. k[a] = c[a]
  <2>1. HeapShape(h) /\ DirOK(h, a, k[a], A[a])
    BY <1>8, <1>9 DEF KnodeOK
  <2>2. \A x \in Places(a, c[a]) : x \in DOMAIN h /\ h[x] = heap[x]
    <3>1. \A x \in Range(c[a]) : x \in DOMAIN heap /\ heap[x].kind = "extent"
      BY <1>3, ChainFacts
    <3>2. Range(c[a]) \cap Range(c[p]) = {} /\ \A x \in Range(c[p]) : heap[x].kind = "extent"
      BY <1>1, <1>2, <1>3, <1>4, ChainFacts DEF KnodeOK
    <3>3. /\ a \in DOMAIN heap /\ heap[a].kind = "directory"
          /\ p \in DOMAIN heap /\ heap[p].kind = "directory"
      BY <1>3, ChainFacts
    <3>4. \A x \in Places(a, c[a]) : x \in DOMAIN heap \ Places(p, c[p])
      BY <1>4, <3>1, <3>2, <3>3 DEF Places
    <3> QED BY <1>6, <3>4 DEF Rearranged
  <2>3. DirOK(h, a, c[a], added[a])
    BY <1>3, <2>2, DirFrame
  <2>4. Extents(h, a) = k[a] /\ Extents(h, a) = c[a]
    BY <2>1, <2>3, ReferencesFacts
  <2> QED BY <2>4
<1>11. KnodeOK(kfree_node(h, a), kfree_node(A, a), lost \cup Range(k[a]), k)
    BY <1>8, <1>9, FreeDirectoryOK
<1>12. KnodeOK(heap', added', lost', k)
    BY <1>2, <1>4, <1>10, <1>11
<1> QED BY <1>12 DEF KnodeInv

LEMMA KnodeNextInv == KnodeInv /\ [KnodeNext]_knodeVars => KnodeInv'
<1> SUFFICES ASSUME KnodeInv, [KnodeNext]_knodeVars PROVE KnodeInv'
    OBVIOUS
<1>1. CASE UNCHANGED knodeVars
    BY <1>1 DEF KnodeInv, knodeVars
<1>2. ASSUME NEW d \in Addresses, create_knode(d) PROVE KnodeInv'
    BY <1>2, CreateStep
<1>3. ASSUME NEW d \in Addresses, AddObject(d) PROVE KnodeInv'
    BY <1>3, AddObjectStep
<1>4. ASSUME NEW a \in DOMAIN added, destroy_knode(a) PROVE KnodeInv'
    BY <1>4, DestroyStep
<1> QED BY <1>1, <1>2, <1>3, <1>4 DEF KnodeNext

LEMMA KnodeInvImplies == KnodeInv => KnodeListsExact
<1> SUFFICES ASSUME KnodeInv PROVE KnodeListsExact
    OBVIOUS
<1>1. PICK c : KnodeOK(heap, added, lost, c)
    BY DEF KnodeInv
<1> DEFINE chains == [d \in DOMAIN added |-> Range(Extents(heap, d))]
<1>2. ASSUME NEW d \in DOMAIN added
      PROVE  /\ Extents(heap, d) = c[d]
             /\ Range(References(heap, d)) = added[d] /\ IsInjective(References(heap, d))
             /\ DirOK(heap, d, c[d], added[d])
  <2>1. HeapShape(heap) /\ DirOK(heap, d, c[d], added[d])
    BY <1>1 DEF KnodeOK
  <2> QED BY <2>1, ReferencesFacts
<1>3. ASSUME NEW d \in DOMAIN added PROVE Linked(d)
  <2> DEFINE s == c[d]
  <2>1. Extents(heap, d) = s /\ DirOK(heap, d, s, added[d])
    BY <1>2
  <2>2. s \in Seq(DOMAIN heap)
    BY <2>1 DEF DirOK, RefersTo, IsChain
  <2>3. heap[d].prev = IF s = <<>> THEN 0 ELSE Last(s)
    BY <2>1, <2>2 DEF DirOK, RefersTo, IsChain, Last
  <2>4. \A i \in 1..Len(s) : /\ heap[s[i]].kind = "extent" /\ heap[s[i]].refs # <<>>
                             /\ heap[s[i]].prev = IF i = 1 THEN 0 ELSE s[i - 1]
    BY <2>1 DEF DirOK, RefersTo, IsChain
  <2> HIDE DEF s
  <2> QED BY <2>1, <2>3, <2>4 DEF Linked
<1>4. \A d \in DOMAIN added : chains[d] = Range(c[d])
    BY <1>2
<1>5. DOMAIN chains = DOMAIN added
    OBVIOUS
<1> HIDE DEF chains
<1>6. \A e, d \in DOMAIN added : e # d => chains[e] \cap chains[d] = {}
  <2>1. \A e, d \in DOMAIN added : e # d => Range(c[e]) \cap Range(c[d]) = {}
    BY <1>1 DEF KnodeOK
  <2> QED BY <1>4, <2>1
<1>7. {a \in DOMAIN heap : heap[a].kind = "extent"} = (UNION {chains[d] : d \in DOMAIN added}) \cup lost
  <2>1. ASSUME NEW a \in DOMAIN heap, heap[a].kind = "extent"
        PROVE  a \in (UNION {chains[d] : d \in DOMAIN added}) \cup lost
    <3>1. a \in lost \/ \E d \in DOMAIN added : a \in Range(c[d])
      BY <1>1, <2>1 DEF KnodeOK
    <3> QED BY <1>4, <3>1
  <2>2. ASSUME NEW d \in DOMAIN added, NEW a \in chains[d]
        PROVE  a \in DOMAIN heap /\ heap[a].kind = "extent"
    BY <1>2, <1>4, ChainFacts
  <2>3. \A a \in lost : a \in DOMAIN heap /\ heap[a].kind = "extent"
    BY <1>1 DEF KnodeOK
  <2> QED BY <2>1, <2>2, <2>3
<1> QED BY <1>2, <1>3, <1>6, <1>7 DEF KnodeListsExact, chains

(* Whatever is created, added and destroyed, in whatever order: every      *)
(* directory lists exactly what it holds, each once, its extents are       *)
(* linked both ways, none is empty or shared, and none is lost but those   *)
(* of a destroyed directory (knode.c).                                     *)
THEOREM KnodeListsAreExact == KnodeSpec => []KnodeListsExact
<1>1. KnodeSpec => []KnodeInv
    BY KnodeInitInv, KnodeNextInv, PTL DEF KnodeSpec
<1> QED BY <1>1, KnodeInvImplies, PTL
=============================================================================
