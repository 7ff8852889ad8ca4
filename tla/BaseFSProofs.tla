----------------------------- MODULE BaseFSProofs -----------------------------
(***************************************************************************)
(* Proofs about BaseFS, for any number of blocks, any sizes of the headers *)
(* and extents, and any operations.                                        *)
(***************************************************************************)
EXTENDS BaseFS, ListProofs, FiniteSetTheorems

(***************************************************************************)
(* BaseFS: the walk along the links.                                       *)
(***************************************************************************)
(* from of Parts, k links further.                                         *)
FromNext(g, k) ==
    [c \in Blocks |-> IF k > 0 /\ Live(disk.obj[c].next)
                      THEN <<c>> \o g[k - 1][disk.obj[c].next] ELSE <<c>>]

IsFrom(g, n) == g = [k \in 0..n |-> FromNext(g, k)]

(* The function that Parts chooses exists, for every number of links.      *)
LEMMA FromExists ==
    ASSUME NEW n \in Nat
    PROVE  \E g : IsFrom(g, n)
<1> DEFINE T == {m \in Nat : ~ \E g : IsFrom(g, m)}
<1>1. SUFFICES ASSUME T # {} PROVE FALSE
    OBVIOUS
<1>2. PICK m \in T : \A k \in T : m <= k
    BY <1>1, NatMin
<1>3. m # 0
  <2> DEFINE g == [k \in 0..0 |-> [c \in Blocks |-> <<c>>]]
  <2>1. \A k \in 0..0 : g[k] = FromNext(g, k)
    BY DEF FromNext
  <2>2. g = [k \in 0..0 |-> g[k]]
    OBVIOUS
  <2> HIDE DEF g
  <2>3. IsFrom(g, 0)
    BY <2>1, <2>2 DEF IsFrom
  <2> QED BY <2>3
<1>4. m - 1 \in Nat /\ m - 1 \notin T
    BY <1>2, <1>3
<1>5. PICK g : IsFrom(g, m - 1)
    BY <1>4
<1> DEFINE h == [k \in 0..m |-> IF k = m THEN FromNext(g, m) ELSE g[k]]
<1>6. \A k \in 0..m : h[k] = FromNext(h, k)
  <2> TAKE k \in 0..m
  <2>1. \A j \in 0..(m - 1) : h[j] = g[j] /\ j \in 0..m
    BY <1>2, <1>4
  <2>2. h[k] = FromNext(g, k)
    <3>1. CASE k = m
      BY <3>1
    <3>2. CASE k # m
      <4>1. k \in 0..(m - 1)
        BY <1>2, <3>2
      <4> QED BY <1>5, <2>1, <4>1 DEF IsFrom
    <3> QED BY <3>1, <3>2
  <2>3. k > 0 => k - 1 \in 0..(m - 1)
    BY <1>2
  <2>4. k > 0 => h[k - 1] = g[k - 1]
    BY <2>1, <2>3
  <2> HIDE DEF h
  <2>5. FromNext(h, k) = FromNext(g, k)
    BY <2>4 DEF FromNext
  <2> QED BY <2>2, <2>5
<1>7. h = [k \in 0..m |-> h[k]]
    OBVIOUS
<1> HIDE DEF h
<1>8. IsFrom(h, m)
    BY <1>6, <1>7 DEF IsFrom
<1> QED BY <1>2, <1>8

LEMMA PartsIsFrom ==
    \E g : /\ \A k \in 0..block_count : g[k] = FromNext(g, k)
           /\ \A b : Parts(b) = g[block_count][b]
<1> DEFINE g == CHOOSE g : IsFrom(g, block_count)
<1>1. block_count \in Nat
    BY BaseFSAssumption
<1>2. IsFrom(g, block_count)
    BY <1>1, FromExists
<1>3. \A b : Parts(b) = g[block_count][b]
    BY DEF Parts, IsFrom, FromNext
<1> HIDE DEF g
<1>4. \A k \in 0..block_count : g[k] = FromNext(g, k)
    BY <1>2 DEF IsFrom
<1> QED BY <1>3, <1>4

(* A list of different blocks is no longer than the disk.                  *)
LEMMA InjectiveIsShort ==
    ASSUME NEW q \in Seq(Blocks), IsInjective(q)
    PROVE  Len(q) <= block_count
<1>1. block_count \in Nat /\ Len(q) \in Nat
    BY BaseFSAssumption
<1>2. IsFiniteSet(Blocks) /\ Cardinality(Blocks) = block_count
    BY <1>1, FS_Interval DEF Blocks
<1>3. IsFiniteSet(1..Len(q)) /\ Cardinality(1..Len(q)) = Len(q)
    BY <1>1, FS_Interval
<1>4. q \in Injection(1..Len(q), Blocks)
  <2>1. q \in [1..Len(q) -> Blocks]
    OBVIOUS
  <2>2. \A a, b \in 1..Len(q) : q[a] = q[b] => a = b
    BY DEF IsInjective
  <2> QED BY <2>1, <2>2 DEF Injection, IsInjective
<1>5. Cardinality(1..Len(q)) <= Cardinality(Blocks)
    BY <1>2, <1>4, FS_Injection
<1> QED BY <1>2, <1>3, <1>5

(* Parts follows next as long as it leads to a live extent.                *)
LEMMA PartsAre ==
    ASSUME NEW q \in Seq(Blocks), Len(q) > 0, IsInjective(q),
           \A i \in 1..(Len(q) - 1) : disk.obj[q[i]].next = q[i + 1],
           \A i \in 2..Len(q) : Live(q[i]),
           ~Live(disk.obj[q[Len(q)]].next)
    PROVE  Parts(q[1]) = q
<1> DEFINE n == Len(q)
           suffix(i) == [j \in 1..(n - i + 1) |-> q[i + j - 1]]
<1>1. n \in Nat /\ n >= 1 /\ block_count \in Nat /\ n <= block_count
    BY InjectiveIsShort, BaseFSAssumption
<1>2. PICK g : /\ \A k \in 0..block_count : g[k] = FromNext(g, k)
               /\ \A b : Parts(b) = g[block_count][b]
    BY PartsIsFrom
<1>3. /\ \A i \in 1..n : q[i] \in Blocks
      /\ \A i \in 1..(n - 1) : disk.obj[q[i]].next = q[i + 1]
      /\ \A i \in 2..n : Live(q[i])
      /\ ~Live(disk.obj[q[n]].next)
      /\ q = [j \in 1..n |-> q[j]]
    OBVIOUS
<1> HIDE DEF n
<1>4. \A k \in 0..block_count, i \in 1..n : i + k >= n => g[k][q[i]] = suffix(i)
  <2> DEFINE Right(k) == \A i \in 1..n : i + k >= n => g[k][q[i]] = suffix(i)
             T == {k \in 0..block_count : ~Right(k)}
  <2>1. SUFFICES ASSUME T # {} PROVE FALSE
    OBVIOUS
  <2>2. T \subseteq Nat
    BY <1>1
  <2>3. PICK k \in T : \A j \in T : k <= j
    BY <2>1, <2>2, NatMin
  <2>4. k \in 0..block_count /\ ~Right(k) /\ (k - 1 \in 0..block_count => Right(k - 1))
    <3> HIDE DEF Right
    <3>1. k \in 0..block_count /\ ~Right(k) /\ ~(k <= k - 1)
      BY <1>1, <2>3
    <3> QED BY <2>3, <3>1
  <2>5. PICK i \in 1..n : i + k >= n /\ g[k][q[i]] # suffix(i)
    BY <2>4
  <2>6. g[k][q[i]] = IF k > 0 /\ Live(disk.obj[q[i]].next)
                     THEN <<q[i]>> \o g[k - 1][disk.obj[q[i]].next] ELSE <<q[i]>>
    <3>1. q[i] \in Blocks /\ g[k] = FromNext(g, k)
      BY <1>2, <1>3, <2>4
    <3> QED BY <3>1 DEF FromNext
  <2>7. CASE i = n
    <3>1. g[k][q[i]] = <<q[n]>>
      BY <1>3, <2>6, <2>7
    <3>2. suffix(n) = <<q[n]>>
      <4>1. n - n + 1 = 1 /\ 1 + n - 1 = n /\ n + 1 - 1 = n
        BY <1>1
      <4> QED BY <4>1
    <3> HIDE DEF suffix
    <3> QED BY <2>5, <2>7, <3>1, <3>2
  <2>8. CASE i # n
    <3>1. /\ k > 0 /\ i \in 1..(n - 1) /\ i + 1 \in 2..n /\ i + 1 \in 1..n
          /\ k - 1 \in 0..block_count /\ (i + 1) + (k - 1) >= n
      BY <1>1, <2>4, <2>5, <2>8
    <3>2. disk.obj[q[i]].next = q[i + 1] /\ Live(q[i + 1])
      BY <1>3, <3>1
    <3>3. g[k][q[i]] = <<q[i]>> \o g[k - 1][q[i + 1]]
      BY <2>6, <3>1, <3>2
    <3>4. g[k - 1][q[i + 1]] = suffix(i + 1)
      BY <2>4, <3>1
    <3>5. <<q[i]>> \o suffix(i + 1) = suffix(i)
      <4> DEFINE a == suffix(i + 1)
                 v == <<q[i]>> \o a
      <4>1. n - (i + 1) + 1 = n - i /\ n - i \in Nat /\ i \in Nat
            /\ \A j \in 1..(n - i) : (i + 1) + j - 1 = i + j /\ i + j \in 1..n
        BY <1>1, <3>1
      <4>2. a = [j \in 1..(n - i) |-> q[(i + 1) + j - 1]]
        BY <4>1
      <4>3. \A j \in 1..(n - i) : q[(i + 1) + j - 1] = q[i + j] /\ q[i + j] \in Blocks
        BY <1>3, <4>1
      <4> HIDE DEF a
      <4>4. /\ a \in Seq(Blocks) /\ Len(a) = n - i
            /\ \A j \in 1..(n - i) : a[j] = q[i + j]
        <5>1. \A j \in 1..(n - i) : a[j] = q[i + j]
          BY <4>2, <4>3
        <5>2. a \in [1..(n - i) -> Blocks]
          BY <4>2, <4>3
        <5>3. a \in Seq(Blocks) /\ Len(a) = n - i
          <6>1. PICK m \in Nat : m = n - i
            BY <4>1
          <6>2. a \in [1..m -> Blocks]
            BY <5>2, <6>1
          <6>3. a \in Seq(Blocks) /\ Len(a) = m
            BY <6>2, SeqIs
          <6> QED BY <6>1, <6>3
        <5> QED BY <5>1, <5>3
      <4>5. q[i] \in Blocks
        BY <1>3
      <4>6. /\ v \in Seq(Blocks) /\ Len(v) = 1 + (n - i) /\ v[1] = q[i]
            /\ \A j \in 1..(n - i) : v[1 + j] = a[j]
        BY <4>1, <4>4, <4>5
      <4> HIDE DEF v
      <4>7. ASSUME NEW j \in 1..(n - i + 1) PROVE v[j] = q[i + j - 1]
        <5>1. CASE j = 1
          <6>1. i + 1 - 1 = i
            BY <4>1
          <6> QED BY <4>6, <5>1, <6>1
        <5>2. CASE j # 1
          <6>1. j - 1 \in 1..(n - i) /\ 1 + (j - 1) = j /\ i + (j - 1) = i + j - 1
            BY <1>1, <4>1, <5>2
          <6> QED BY <4>4, <4>6, <6>1
        <5> QED BY <5>1, <5>2
      <4>8. v = [j \in 1..(n - i + 1) |-> v[j]]
        <5>1. 1 + (n - i) = n - i + 1
          BY <4>1
        <5> QED BY <4>6, <5>1
      <4> QED BY <4>7, <4>8 DEF a, v
    <3> HIDE DEF suffix
    <3> QED BY <2>5, <3>3, <3>4, <3>5
  <2> QED BY <2>7, <2>8
<1>5. g[block_count][q[1]] = suffix(1)
  <2> HIDE DEF suffix
  <2>1. 1 \in 1..n /\ block_count \in 0..block_count /\ 1 + block_count >= n
    BY <1>1
  <2> QED BY <1>4, <2>1
<1>6. suffix(1) = q
  <2>1. n - 1 + 1 = n /\ \A j \in 1..n : 1 + j - 1 = j
    BY <1>1
  <2>2. suffix(1) = [j \in 1..n |-> q[j]]
    BY <2>1
  <2> QED BY <1>3, <2>2
<1> HIDE DEF suffix
<1> QED BY <1>2, <1>5, <1>6

(* What a lookup from d finds stays in a set that the entries of its       *)
(* directories do not leave.                                               *)
BelowNext(f, d, k) == IF k = 0 THEN {d} ELSE UNION {{c} \cup Subdirectories(c) : c \in f[k - 1]}

IsBelow(f, d, n) == f = [k \in 0..n |-> BelowNext(f, d, k)]

LEMMA BelowExists ==
    ASSUME NEW d, NEW n \in Nat
    PROVE  \E f : IsBelow(f, d, n)
<1> DEFINE T == {m \in Nat : ~ \E f : IsBelow(f, d, m)}
<1>1. SUFFICES ASSUME T # {} PROVE FALSE
    OBVIOUS
<1>2. PICK m \in T : \A k \in T : m <= k
    BY <1>1, NatMin
<1>3. m # 0
  <2> DEFINE f == [k \in 0..0 |-> {d}]
  <2>1. \A k \in 0..0 : f[k] = BelowNext(f, d, k)
    BY DEF BelowNext
  <2>2. f = [k \in 0..0 |-> f[k]]
    OBVIOUS
  <2> HIDE DEF f
  <2>3. IsBelow(f, d, 0)
    BY <2>1, <2>2 DEF IsBelow
  <2> QED BY <2>3
<1>4. m - 1 \in Nat /\ m - 1 \notin T
    BY <1>2, <1>3
<1>5. PICK f : IsBelow(f, d, m - 1)
    BY <1>4
<1> DEFINE h == [k \in 0..m |-> IF k = m THEN BelowNext(f, d, m) ELSE f[k]]
<1>6. \A k \in 0..m : h[k] = BelowNext(h, d, k)
  <2> TAKE k \in 0..m
  <2>1. \A j \in 0..(m - 1) : h[j] = f[j] /\ j \in 0..m
    BY <1>2, <1>4
  <2>2. h[k] = BelowNext(f, d, k)
    <3>1. CASE k = m
      BY <3>1
    <3>2. CASE k # m
      <4>1. k \in 0..(m - 1)
        BY <1>2, <3>2
      <4> QED BY <1>5, <2>1, <4>1 DEF IsBelow
    <3> QED BY <3>1, <3>2
  <2>3. k # 0 => k - 1 \in 0..(m - 1)
    BY <1>2
  <2>4. k # 0 => h[k - 1] = f[k - 1]
    BY <2>1, <2>3
  <2> HIDE DEF h
  <2>5. BelowNext(h, d, k) = BelowNext(f, d, k)
    BY <2>4 DEF BelowNext
  <2> QED BY <2>2, <2>5
<1>7. h = [k \in 0..m |-> h[k]]
    OBVIOUS
<1> HIDE DEF h
<1>8. IsBelow(h, d, m)
    BY <1>6, <1>7 DEF IsBelow
<1> QED BY <1>2, <1>8

LEMMA BelowStays ==
    ASSUME NEW B, NEW d \in B, \A c \in B : Subdirectories(c) \subseteq B
    PROVE  Below(d) \subseteq B
<1> DEFINE f == CHOOSE f : IsBelow(f, d, block_count)
<1>1. block_count \in Nat
    BY BaseFSAssumption
<1>2. IsBelow(f, d, block_count)
    BY <1>1, BelowExists
<1>3. Below(d) = f[block_count]
    BY DEF Below, IsBelow, BelowNext
<1> HIDE DEF f
<1>4. \A k \in 0..block_count : f[k] = BelowNext(f, d, k)
    BY <1>2 DEF IsBelow
<1>5. \A k \in 0..block_count : f[k] \subseteq B
  <2> DEFINE T == {k \in 0..block_count : ~(f[k] \subseteq B)}
  <2>1. SUFFICES ASSUME T # {} PROVE FALSE
    OBVIOUS
  <2>2. T \subseteq Nat
    BY <1>1
  <2>3. PICK k \in T : \A j \in T : k <= j
    BY <2>1, <2>2, NatMin
  <2>4. k \in 0..block_count /\ ~(f[k] \subseteq B)
    BY <2>3
  <2>5. CASE k = 0
    BY <1>4, <2>4, <2>5 DEF BelowNext
  <2>6. CASE k # 0
    <3>1. k - 1 \in 0..block_count /\ ~(k <= k - 1)
      BY <1>1, <2>4, <2>6
    <3>2. f[k - 1] \subseteq B
      BY <2>3, <3>1
    <3>3. f[k] = UNION {{c} \cup Subdirectories(c) : c \in f[k - 1]}
      BY <1>4, <2>4, <2>6 DEF BelowNext
    <3>4. ASSUME NEW x \in f[k] PROVE x \in B
      <4>1. PICK c \in f[k - 1] : x \in {c} \cup Subdirectories(c)
        BY <3>3
      <4> QED BY <3>2, <4>1
    <3> QED BY <2>4, <3>4
  <2> QED BY <2>5, <2>6
<1> QED BY <1>1, <1>3, <1>5

-----------------------------------------------------------------------------
(***************************************************************************)
(* Disks, and what a write changes.                                        *)
(***************************************************************************)
Contents == {o \in Object : /\ o.kind = "dir" => Len(o.refs) <= HeaderRefs
                            /\ o.kind = "dext" => Len(o.refs) <= ExtentRefs}

Disks == [bits : SUBSET Blocks, size : [Blocks -> 0..block_count], obj : [Blocks -> Contents]]

LEMMA TakenFacts ==
    ASSUME NEW s \in Disks, NEW b \in Blocks, NEW n \in Nat, Run(b, n) \subseteq Blocks,
           NEW t, t = Written(s, Take(b, n))
    PROVE  t \in Disks /\ t.bits = s.bits \cup Run(b, n) /\ t.size = s.size /\ t.obj = s.obj
<1>1. t = [s EXCEPT !.bits = @ \cup Run(b, n)]
    BY DEF Written, Take
<1> QED BY <1>1 DEF Disks

LEMMA GivenFacts ==
    ASSUME NEW s \in Disks, NEW b \in Blocks, NEW n \in Nat, NEW t, t = Written(s, Give(b, n))
    PROVE  t \in Disks /\ t.bits = s.bits \ Run(b, n) /\ t.size = s.size /\ t.obj = s.obj
<1>1. t = [s EXCEPT !.bits = @ \ Run(b, n)]
    BY DEF Written, Give
<1> QED BY <1>1 DEF Disks

LEMMA SizedFacts ==
    ASSUME NEW s \in Disks, NEW b \in Blocks, NEW n \in 0..block_count,
           NEW t, t = Written(s, Size(b, n))
    PROVE  /\ t \in Disks /\ t.bits = s.bits /\ t.obj = s.obj
           /\ t.size[b] = n /\ \A x \in Blocks \ {b} : t.size[x] = s.size[x]
<1> DEFINE f == [s.size EXCEPT ![b] = n]
<1>1. t = [s EXCEPT !.size = f]
    BY DEF Written, Size
<1>2. s.size \in [Blocks -> 0..block_count]
    BY DEF Disks
<1>3. f \in [Blocks -> 0..block_count] /\ f[b] = n /\ \A x \in Blocks \ {b} : f[x] = s.size[x]
    BY <1>2
<1> HIDE DEF f
<1> QED BY <1>1, <1>3 DEF Disks

LEMMA PutFacts ==
    ASSUME NEW s \in Disks, NEW b \in Blocks, NEW o \in Contents, NEW t, t = Written(s, Obj(b, o))
    PROVE  /\ t \in Disks /\ t.bits = s.bits /\ t.size = s.size
           /\ t.obj[b] = o /\ \A x \in Blocks \ {b} : t.obj[x] = s.obj[x]
<1> DEFINE f == [s.obj EXCEPT ![b] = o]
<1>1. t = [s EXCEPT !.obj = f]
    BY DEF Written, Obj
<1>2. s.obj \in [Blocks -> Contents]
    BY DEF Disks
<1>3. f \in [Blocks -> Contents] /\ f[b] = o /\ \A x \in Blocks \ {b} : f[x] = s.obj[x]
    BY <1>2
<1> HIDE DEF f
<1> QED BY <1>1, <1>3 DEF Disks

LEMMA DiskFacts ==
    ASSUME NEW s \in Disks, NEW b \in Blocks
    PROVE  /\ s.obj[b] \in Contents /\ s.obj[b] \in Object
           /\ s.obj[b].refs \in Seq(0..block_count) /\ s.obj[b].next \in 0..block_count
           /\ s.obj[b].len \in 0..MaxSize /\ s.obj[b].parent \in 0..block_count
           /\ s.size[b] \in 0..block_count /\ s.bits \subseteq Blocks
<1>1. s.obj[b] \in Contents /\ s.size[b] \in 0..block_count /\ s.bits \subseteq Blocks
    BY DEF Disks
<1>2. s.obj[b] \in Object
    BY <1>1 DEF Contents
<1>3. \A o \in Object : /\ o.refs \in Seq(0..block_count) /\ o.next \in 0..block_count
                        /\ o.len \in 0..MaxSize /\ o.parent \in 0..block_count
    BY DEF Object
<1> QED BY <1>1, <1>2, <1>3

-----------------------------------------------------------------------------
(***************************************************************************)
(* A sound disk.  c has the parts of every header that is in use: those a  *)
(* lookup finds, and those of a tree that is being deleted.                *)
(***************************************************************************)
LiveOn(s, b) == b \in Blocks /\ s.size[b] > 0

Here(s, p) == LiveOn(s, p) /\ Run(p, s.size[p]) \subseteq s.bits

PartsIn(c) == UNION {Range(c[h]) : h \in DOMAIN c}

Shape(c) ==
    /\ c \in [DOMAIN c -> Seq(Blocks)] /\ Root \in DOMAIN c
    /\ \A h \in DOMAIN c : Len(c[h]) > 0 /\ c[h][1] = h /\ IsInjective(c[h])
    /\ \A h, k \in DOMAIN c : h # k => Range(c[h]) \cap Range(c[k]) = {}

(* The links lead through q and no further.                                *)
Chained(s, q) ==
    /\ \A i \in 1..(Len(q) - 1) : s.obj[q[i]].next = q[i + 1]
    /\ ~LiveOn(s, s.obj[q[Len(q)]].next)
    /\ s.obj[q[1]].kind \in {"dir", "file"}
    /\ \A i \in 2..Len(q) :
          s.obj[q[i]].kind = IF s.obj[q[1]].kind = "dir" THEN "dext" ELSE "fext"

(* The parts P have their blocks to themselves.                            *)
Room(s, P) ==
    /\ \A p \in P : Here(s, p)
    /\ \A p, q \in P : p # q => Run(p, s.size[p]) \cap Run(q, s.size[q]) = {}

(* What the parts P refer to is in H, and nothing is referred to twice.    *)
Referring(s, P, H) ==
    /\ \A p \in P : \A i \in 1..Len(s.obj[p].refs) : s.obj[p].refs[i] \in H \cup {FS_NULL}
    /\ \A p, q \in P : \A i \in 1..Len(s.obj[p].refs), j \in 1..Len(s.obj[q].refs) :
          s.obj[p].refs[i] = s.obj[q].refs[j] /\ s.obj[p].refs[i] # FS_NULL => p = q /\ i = j

(* What is left in other blocks passes for an empty directory at most.     *)
Stale(s, P) ==
    \A b \in Blocks \ P : s.obj[b].kind = "dir" => s.obj[b].refs = <<>> /\ s.obj[b].next = FS_NULL

(* m are the headers that are allocated and not written yet.               *)
Known(s, c, m) == DOMAIN c \cup {x \in m : Here(s, x)}

Sound(s, c, m) ==
    /\ s \in Disks /\ Shape(c)
    /\ \A h \in DOMAIN c : Chained(s, c[h])
    /\ Room(s, PartsIn(c)) /\ Referring(s, PartsIn(c), Known(s, c, m)) /\ Stale(s, PartsIn(c))
    /\ m \subseteq Blocks /\ m \cap PartsIn(c) \subseteq DOMAIN c

(* What the parts in q refer to.                                           *)
RefsIn(s, q) == UNION {Range(s.obj[q[i]].refs) : i \in 1..Len(q)}

LEMMA ShapeFacts ==
    ASSUME NEW c, Shape(c)
    PROVE  /\ DOMAIN c \subseteq PartsIn(c) /\ PartsIn(c) \subseteq Blocks
           /\ \A h \in DOMAIN c : /\ c[h] \in Seq(Blocks) /\ Len(c[h]) \in Nat /\ Len(c[h]) > 0
                                  /\ 1 \in 1..Len(c[h]) /\ Len(c[h]) \in 1..Len(c[h])
                                  /\ c[h][1] = h
           /\ \A h \in DOMAIN c : \A i \in 1..Len(c[h]) : c[h][i] \in PartsIn(c)
           /\ \A p \in PartsIn(c) : \E h \in DOMAIN c : \E i \in 1..Len(c[h]) : p = c[h][i]
           /\ \A h \in DOMAIN c : \A i, j \in 1..Len(c[h]) : c[h][i] = c[h][j] => i = j
           /\ \A h, k \in DOMAIN c : \A i \in 1..Len(c[h]), j \in 1..Len(c[k]) :
                c[h][i] = c[k][j] => h = k /\ i = j
<1>1. \A h \in DOMAIN c : /\ c[h] \in Seq(Blocks) /\ Len(c[h]) \in Nat /\ Len(c[h]) > 0
                          /\ 1 \in 1..Len(c[h]) /\ Len(c[h]) \in 1..Len(c[h])
                          /\ c[h][1] = h /\ DOMAIN c[h] = 1..Len(c[h])
    BY DEF Shape
<1>2. \A h \in DOMAIN c : Range(c[h]) = {c[h][i] : i \in 1..Len(c[h])}
    BY <1>1 DEF Range
<1>3. \A h \in DOMAIN c : \A i \in 1..Len(c[h]) : c[h][i] \in Blocks
    BY <1>1
<1>4. \A h \in DOMAIN c : \A i \in 1..Len(c[h]) : c[h][i] \in PartsIn(c)
    BY <1>2 DEF PartsIn
<1>5. \A p \in PartsIn(c) : \E h \in DOMAIN c : \E i \in 1..Len(c[h]) : p = c[h][i]
    BY <1>2 DEF PartsIn
<1>6. DOMAIN c \subseteq PartsIn(c) /\ PartsIn(c) \subseteq Blocks
    BY <1>1, <1>3, <1>4, <1>5
<1>7. \A h \in DOMAIN c : \A i, j \in 1..Len(c[h]) : c[h][i] = c[h][j] => i = j
    BY <1>1 DEF Shape, IsInjective
<1>8. ASSUME NEW h \in DOMAIN c, NEW k \in DOMAIN c, NEW i \in 1..Len(c[h]),
             NEW j \in 1..Len(c[k]), c[h][i] = c[k][j]
      PROVE  h = k /\ i = j
  <2>1. c[h][i] \in Range(c[h]) /\ c[h][i] \in Range(c[k])
    BY <1>2, <1>8
  <2>2. h = k
    BY <2>1 DEF Shape
  <2> QED BY <1>7, <1>8, <2>2
<1> QED BY <1>1, <1>4, <1>5, <1>6, <1>7, <1>8

LEMMA RefsInFacts ==
    ASSUME NEW s \in Disks, NEW q \in Seq(Blocks)
    PROVE  /\ \A x : x \in RefsIn(s, q) <=>
                  \E i \in 1..Len(q) : \E j \in 1..Len(s.obj[q[i]].refs) : x = s.obj[q[i]].refs[j]
           /\ RefsIn(s, q) \subseteq 0..block_count
<1> DEFINE r(i) == s.obj[q[i]].refs
<1>1. ASSUME NEW i \in 1..Len(q) PROVE r(i) \in Seq(0..block_count)
  <2>1. q[i] \in Blocks
    OBVIOUS
  <2> QED BY <2>1, DiskFacts
<1>2. RefsIn(s, q) = UNION {Range(r(i)) : i \in 1..Len(q)}
    BY DEF RefsIn
<1> HIDE DEF r
<1>3. ASSUME NEW i \in 1..Len(q)
      PROVE  Range(r(i)) = {r(i)[j] : j \in 1..Len(r(i))} /\ Range(r(i)) \subseteq 0..block_count
  <2>1. PICK x \in Seq(0..block_count) : x = r(i)
    BY <1>1
  <2>2. DOMAIN x = 1..Len(x) /\ \A j \in 1..Len(x) : x[j] \in 0..block_count
    BY SeqFacts
  <2> QED BY <2>1, <2>2 DEF Range
<1>4. \A x : x \in RefsIn(s, q) <=> \E i \in 1..Len(q) : \E j \in 1..Len(r(i)) : x = r(i)[j]
    BY <1>2, <1>3
<1>5. RefsIn(s, q) \subseteq 0..block_count
    BY <1>2, <1>3
<1> QED BY <1>4, <1>5 DEF r

(* On a sound disk, Parts and Entries are what c says.                     *)
LEMMA PartsOnDisk ==
    ASSUME NEW c, NEW m, Sound(disk, c, m), NEW h \in DOMAIN c
    PROVE  Parts(h) = c[h]
<1>1. Shape(c) /\ Chained(disk, c[h]) /\ Room(disk, PartsIn(c))
    BY DEF Sound
<1> DEFINE q == c[h]
<1>2. q \in Seq(Blocks) /\ Len(q) > 0 /\ IsInjective(q) /\ q[1] = h
    BY <1>1 DEF Shape
<1>3. \A i \in 1..(Len(q) - 1) : disk.obj[q[i]].next = q[i + 1]
    BY <1>1 DEF Chained
<1>4. \A i \in 2..Len(q) : Live(q[i])
  <2>1. \A i \in 2..Len(q) : q[i] \in PartsIn(c)
    BY <1>1, <1>2, ShapeFacts
  <2> QED BY <1>1, <2>1 DEF Room, Here, LiveOn, Live
<1>5. ~Live(disk.obj[q[Len(q)]].next)
    BY <1>1 DEF Chained, Live, LiveOn
<1> HIDE DEF q
<1>6. Parts(q[1]) = q
    BY <1>2, <1>3, <1>4, <1>5, PartsAre
<1> QED BY <1>2, <1>6 DEF q

LEMMA EntriesAre ==
    ASSUME disk \in Disks, NEW h, Parts(h) \in Seq(Blocks)
    PROVE  /\ Entries(h) \in Seq(0..block_count)
           /\ ToSet(Entries(h)) = RefsIn(disk, Parts(h))
<1> DEFINE q == Parts(h)
           l == [i \in DOMAIN q |-> disk.obj[q[i]].refs]
<1>1. DOMAIN q = 1..Len(q) /\ Len(q) \in Nat
    OBVIOUS
<1>2. ASSUME NEW i \in 1..Len(q) PROVE disk.obj[q[i]].refs \in Seq(0..block_count)
  <2>1. q[i] \in Blocks
    OBVIOUS
  <2> QED BY <2>1, DiskFacts
<1> HIDE DEF q
<1>3. l \in [1..Len(q) -> Seq(0..block_count)]
    BY <1>1, <1>2
<1>4. \A i \in 1..Len(q) : l[i] = disk.obj[q[i]].refs
    BY <1>1
<1>5. Entries(h) = FlattenSeq(l)
    BY DEF Entries, q
<1> HIDE DEF l
<1>6. l \in Seq(Seq(0..block_count)) /\ Len(l) = Len(q)
    BY <1>1, <1>3, SeqIs
<1>7. /\ Entries(h) \in Seq(0..block_count)
      /\ Range(Entries(h)) = UNION {Range(l[i]) : i \in 1..Len(l)}
    BY <1>5, <1>6, FlattenFacts
<1>8. UNION {Range(l[i]) : i \in 1..Len(l)} = RefsIn(disk, q)
    BY <1>4, <1>6 DEF RefsIn
<1> QED BY <1>7, <1>8 DEF ToSet, Range, q

LEMMA EntriesOnDisk ==
    ASSUME NEW c, NEW m, Sound(disk, c, m), NEW h \in DOMAIN c
    PROVE  /\ Entries(h) \in Seq(0..block_count)
           /\ ToSet(Entries(h)) = RefsIn(disk, c[h])
           /\ RefsIn(disk, c[h]) \subseteq Known(disk, c, m) \cup {FS_NULL}
<1>1. Parts(h) = c[h] /\ c[h] \in Seq(Blocks) /\ disk \in Disks
    BY PartsOnDisk DEF Sound, Shape
<1>2. \A i \in 1..Len(c[h]) : c[h][i] \in PartsIn(c)
    BY ShapeFacts DEF Sound
<1>3. RefsIn(disk, c[h]) \subseteq Known(disk, c, m) \cup {FS_NULL}
    BY <1>1, <1>2, RefsInFacts DEF Sound, Referring
<1> QED BY <1>1, <1>3, EntriesAre

(* All a lookup finds is in c or being made.                               *)
LEMMA BelowRoot ==
    ASSUME NEW c, NEW m, Sound(disk, c, m)
    PROVE  /\ Objects(Root) \subseteq Known(disk, c, m)
           /\ \A d \in Below(Root) : ToSet(Entries(d)) \subseteq Known(disk, c, m) \cup {FS_NULL}
           /\ Below(Root) \subseteq Known(disk, c, m)
<1> DEFINE K == Known(disk, c, m)
           B == DOMAIN c \cup {x \in m : Here(disk, x) /\ disk.obj[x].kind = "dir"}
<1>1. disk \in Disks /\ Shape(c) /\ Stale(disk, PartsIn(c)) /\ m \subseteq Blocks
    BY DEF Sound
<1>2. B \subseteq K
    BY DEF Known
<1>3. ASSUME NEW d \in B PROVE ToSet(Entries(d)) \subseteq K \cup {FS_NULL}
  <2>1. CASE d \in DOMAIN c
    BY <2>1, EntriesOnDisk
  <2>2. CASE d \notin DOMAIN c
    <3>1. /\ d \in Blocks /\ d \notin PartsIn(c)
          /\ disk.obj[d].kind = "dir"
      BY <1>1, <2>2 DEF Sound
    <3>2. disk.obj[d].refs = <<>> /\ disk.obj[d].next = FS_NULL
      BY <1>1, <3>1 DEF Stale
    <3>3. ~Live(disk.obj[d].next)
      BY <3>2 DEF Live, Blocks, FS_NULL
    <3> DEFINE q == <<d>>
    <3>4. q \in Seq(Blocks) /\ Len(q) = 1 /\ q[1] = d /\ IsInjective(q)
      BY <3>1 DEF IsInjective
    <3> HIDE DEF q
    <3>5. /\ \A i \in 1..(Len(q) - 1) : disk.obj[q[i]].next = q[i + 1]
          /\ \A i \in 2..Len(q) : Live(q[i])
          /\ ~Live(disk.obj[q[Len(q)]].next) /\ Len(q) > 0
      BY <3>3, <3>4
    <3>6. Parts(q[1]) = q
      BY <3>4, <3>5, PartsAre
    <3>7. Parts(d) = q
      BY <3>4, <3>6
    <3>8. ToSet(Entries(d)) = RefsIn(disk, q)
      BY <1>1, <3>4, <3>7, EntriesAre
    <3>9. RefsIn(disk, q) = {}
      BY <3>2, <3>4 DEF RefsIn, Range
    <3> QED BY <3>8, <3>9
  <2> QED BY <2>1, <2>2
<1>4. ASSUME NEW d \in B PROVE Subdirectories(d) \subseteq B
  <2>1. ASSUME NEW e \in Subdirectories(d) PROVE e \in B
    <3>1. e \in ToSet(Entries(d)) /\ e \in Blocks /\ disk.obj[e].kind = "dir"
      BY <2>1 DEF Subdirectories, IsDirectory, Live
    <3>2. e # FS_NULL
      BY <3>1 DEF Blocks, FS_NULL
    <3>3. e \in K
      BY <1>3, <3>1, <3>2
    <3> QED BY <3>1, <3>3 DEF Known
  <2> QED BY <2>1
<1>5. Root \in B
    BY <1>1 DEF Shape
<1> HIDE DEF B
<1>6. Below(Root) \subseteq B
    BY <1>4, <1>5, BelowStays
<1>7. \A d \in Below(Root) : ToSet(Entries(d)) \subseteq K \cup {FS_NULL}
    BY <1>3, <1>6
<1>8. Objects(Root) \subseteq K
  <2>1. ASSUME NEW x \in Objects(Root) PROVE x \in K
    <3>1. PICK d \in Below(Root) : x = d \/ (x \in ToSet(Entries(d)) /\ Live(x))
      BY <2>1 DEF Objects
    <3>2. x # FS_NULL \/ x = d
      BY <3>1 DEF Live, Blocks, FS_NULL
    <3> QED BY <1>2, <1>6, <1>7, <3>1, <3>2
  <2> QED BY <2>1
<1> QED BY <1>2, <1>6, <1>7, <1>8

LEMMA SoundMeans ==
    ASSUME NEW c, Sound(disk, c, InMaking)
    PROVE  EntriesAreLive /\ NoSharing
<1>1. disk \in Disks /\ Shape(c) /\ Room(disk, PartsIn(c))
    BY DEF Sound
<1>2. \A x \in Known(disk, c, InMaking) : Here(disk, x)
    BY <1>1, ShapeFacts DEF Known, Room
<1>3. EntriesAreLive
    BY <1>2, BelowRoot DEF EntriesAreLive, Here, LiveOn, Live
<1> DEFINE objs == Objects(Root) \ InMaking
           parts == UNION {ToSet(Parts(o)) : o \in objs}
<1>4. objs \subseteq DOMAIN c
    BY BelowRoot DEF Known
<1>5. \A o \in objs : Parts(o) = c[o]
    BY <1>4, PartsOnDisk
<1>6. \A o \in objs : ToSet(Parts(o)) = Range(c[o]) /\ IsInjective(Parts(o))
    BY <1>1, <1>4, <1>5 DEF ToSet, Range, Shape
<1>7. parts \subseteq PartsIn(c)
    BY <1>4, <1>6 DEF PartsIn
<1>8. \A o, u \in objs : o # u => ToSet(Parts(o)) \cap ToSet(Parts(u)) = {}
    BY <1>1, <1>4, <1>6 DEF Shape
<1> HIDE DEF parts
<1>9. UNION {Run(p, disk.size[p]) : p \in parts} \subseteq disk.bits
    BY <1>1, <1>7 DEF Room, Here
<1>10. \A p, q \in parts : p # q => Run(p, disk.size[p]) \cap Run(q, disk.size[q]) = {}
    BY <1>1, <1>7 DEF Room
<1>11. NoSharing
    BY <1>6, <1>8, <1>9, <1>10 DEF NoSharing, parts
<1> QED BY <1>3, <1>11

LEMMA PartsOfRoot ==
    ASSUME NEW c, Sound(disk, c, {})
    PROVE  PartsOf(Root) \subseteq PartsIn(c)
<1>1. Objects(Root) \subseteq DOMAIN c
    BY BelowRoot DEF Known
<1>2. \A o \in Objects(Root) : ToSet(Parts(o)) = Range(c[o])
    BY <1>1, PartsOnDisk DEF ToSet, Range
<1> QED BY <1>1, <1>2 DEF PartsOf, PartsIn

-----------------------------------------------------------------------------
(***************************************************************************)
(* What a single write leaves sound.                                       *)
(***************************************************************************)
(* A disk on which no operation is at work.                                *)
Ends(s, c) == \A h \in DOMAIN c : s.obj[c[h][Len(c[h])]].next = FS_NULL

Prevs(s, c) == \A h \in DOMAIN c : \A i \in 2..Len(c[h]) : s.obj[c[h][i]].prev = c[h][i - 1]

Full(s, c) ==
    \A p \in PartsIn(c) : /\ \A i \in 1..Len(s.obj[p].refs) : s.obj[p].refs[i] # FS_NULL
                          /\ s.obj[p].kind = "dext" => s.obj[p].refs # <<>>

RootOK(s) == s.obj[Root].kind = "dir" /\ s.obj[Root].parent = FS_NULL

Calm(s, c) == Ends(s, c) /\ Prevs(s, c) /\ Full(s, c) /\ RootOK(s)

Quiet(s, c) == Sound(s, c, {}) /\ Calm(s, c)

LEMMA LastFacts ==
    ASSUME NEW c, Shape(c), NEW h \in DOMAIN c
    PROVE  /\ c[h][Len(c[h])] \in PartsIn(c) /\ c[h][Len(c[h])] \in Blocks
           /\ c[h][1] \in PartsIn(c)
    BY ShapeFacts

(* The parts stay as they are.                                             *)
LEMMA FrameOK ==
    ASSUME NEW s, NEW c, NEW m, Sound(s, c, m), NEW t \in Disks,
           \A p \in PartsIn(c) : /\ t.obj[p] = s.obj[p] /\ t.size[p] = s.size[p]
                                 /\ Run(p, s.size[p]) \subseteq t.bits,
           Stale(t, PartsIn(c)),
           \A h \in DOMAIN c : ~LiveOn(t, s.obj[c[h][Len(c[h])]].next),
           \A x \in m : Here(s, x) => Here(t, x)
    PROVE  Sound(t, c, m)
<1>1. Shape(c) /\ m \subseteq Blocks /\ m \cap PartsIn(c) \subseteq DOMAIN c
    BY DEF Sound
<1>2. ASSUME NEW h \in DOMAIN c PROVE Chained(t, c[h])
  <2> DEFINE q == c[h]
  <2>1. \A i \in 1..Len(q) : t.obj[q[i]] = s.obj[q[i]]
    BY <1>1, ShapeFacts
  <2>2. Chained(s, q) /\ Len(q) \in Nat /\ Len(q) > 0
    BY <1>1, ShapeFacts DEF Sound
  <2>3. ~LiveOn(t, s.obj[q[Len(q)]].next)
    OBVIOUS
  <2> HIDE DEF q
  <2>4. /\ 1 \in 1..Len(q) /\ Len(q) \in 1..Len(q)
        /\ \A i \in 1..(Len(q) - 1) : i \in 1..Len(q)
        /\ \A i \in 2..Len(q) : i \in 1..Len(q)
    BY <2>2
  <2>5. \A i \in 1..(Len(q) - 1) : t.obj[q[i]].next = q[i + 1]
    BY <2>1, <2>2, <2>4 DEF Chained
  <2>6. ~LiveOn(t, t.obj[q[Len(q)]].next)
    BY <2>1, <2>3, <2>4
  <2>7. t.obj[q[1]] = s.obj[q[1]] /\ \A i \in 2..Len(q) : t.obj[q[i]] = s.obj[q[i]]
    BY <2>1, <2>4
  <2>8. Chained(t, q)
    BY <2>2, <2>5, <2>6, <2>7 DEF Chained
  <2> QED BY <2>8 DEF q
<1>3. Room(t, PartsIn(c))
    BY DEF Sound, Room, Here, LiveOn
<1>4. Known(s, c, m) \subseteq Known(t, c, m)
    BY DEF Known
<1>5. Referring(t, PartsIn(c), Known(t, c, m))
  <2> DEFINE P == PartsIn(c)
             K == Known(s, c, m)
             L == Known(t, c, m)
  <2>1. Referring(s, P, K) /\ \A p \in P : t.obj[p] = s.obj[p]
    BY DEF Sound
  <2> HIDE DEF P, K, L
  <2>2. K \subseteq L
    BY <1>4 DEF K, L
  <2>3. \A p \in P : \A i \in 1..Len(t.obj[p].refs) : t.obj[p].refs[i] \in L \cup {FS_NULL}
    BY <2>1, <2>2 DEF Referring
  <2>4. ASSUME NEW p \in P, NEW q \in P, NEW i \in 1..Len(t.obj[p].refs),
               NEW j \in 1..Len(t.obj[q].refs),
               t.obj[p].refs[i] = t.obj[q].refs[j] /\ t.obj[p].refs[i] # FS_NULL
        PROVE  p = q /\ i = j
    <3>1. t.obj[p] = s.obj[p] /\ t.obj[q] = s.obj[q]
      BY <2>1
    <3>2. /\ i \in 1..Len(s.obj[p].refs) /\ j \in 1..Len(s.obj[q].refs)
          /\ s.obj[p].refs[i] = s.obj[q].refs[j] /\ s.obj[p].refs[i] # FS_NULL
      BY <2>4, <3>1
    <3> QED BY <2>1, <3>2 DEF Referring
  <2>5. Referring(t, P, L)
    BY <2>3, <2>4 DEF Referring
  <2> QED BY <2>5 DEF P, L
<1> QED BY <1>1, <1>2, <1>3, <1>5 DEF Sound

LEMMA CalmSame ==
    ASSUME NEW s, NEW c, Shape(c), Calm(s, c), NEW t, \A p \in PartsIn(c) : t.obj[p] = s.obj[p]
    PROVE  Calm(t, c)
<1>1. Shape(c)
    OBVIOUS
<1>2. Root \in PartsIn(c)
    BY <1>1, ShapeFacts DEF Shape
<1>3. Ends(t, c)
    BY <1>1, LastFacts DEF Calm, Ends
<1>4. Prevs(t, c)
  <2>1. \A h \in DOMAIN c : \A i \in 2..Len(c[h]) : c[h][i] \in PartsIn(c)
    BY <1>1, ShapeFacts
  <2> QED BY <2>1 DEF Calm, Prevs
<1>5. Full(t, c) /\ RootOK(t)
    BY <1>2 DEF Calm, Full, RootOK
<1> QED BY <1>3, <1>4, <1>5 DEF Calm

LEMMA TakeOK ==
    ASSUME NEW s, NEW c, NEW m, Sound(s, c, m), NEW b \in Blocks, NEW n \in Nat,
           Run(b, n) \subseteq Blocks, NEW t, t = Written(s, Take(b, n))
    PROVE  Sound(t, c, m)
<1>1. /\ s \in Disks /\ Shape(c) /\ t \in Disks
      /\ t.bits = s.bits \cup Run(b, n) /\ t.size = s.size /\ t.obj = s.obj
    BY TakenFacts DEF Sound
<1>2. \A p \in PartsIn(c) : Run(p, s.size[p]) \subseteq t.bits
    BY <1>1 DEF Sound, Room, Here
<1>3. \A h \in DOMAIN c : ~LiveOn(t, s.obj[c[h][Len(c[h])]].next)
    BY <1>1 DEF Sound, Chained, LiveOn
<1>4. Stale(t, PartsIn(c)) /\ \A x \in m : Here(s, x) => Here(t, x)
    BY <1>1 DEF Sound, Stale, Here, LiveOn
<1> QED BY <1>1, <1>2, <1>3, <1>4, FrameOK

LEMMA SizeOK ==
    ASSUME NEW s, NEW c, NEW m, Sound(s, c, m), Ends(s, c), NEW b \in Blocks \ PartsIn(c),
           NEW n \in 1..block_count, Run(b, n) \subseteq s.bits, NEW t, t = Written(s, Size(b, n))
    PROVE  Sound(t, c, m) /\ Here(t, b)
<1>0. block_count \in Nat /\ n \in 0..block_count /\ n > 0
    BY BaseFSAssumption
<1>1. /\ s \in Disks /\ Shape(c) /\ t \in Disks /\ t.bits = s.bits /\ t.obj = s.obj
      /\ t.size[b] = n /\ \A x \in Blocks \ {b} : t.size[x] = s.size[x]
    BY <1>0, SizedFacts DEF Sound
<1>2. \A p \in PartsIn(c) : /\ t.obj[p] = s.obj[p] /\ t.size[p] = s.size[p]
                            /\ Run(p, s.size[p]) \subseteq t.bits
    BY <1>1, ShapeFacts DEF Sound, Room, Here
<1>3. \A h \in DOMAIN c : ~LiveOn(t, s.obj[c[h][Len(c[h])]].next)
    BY DEF Ends, LiveOn, Blocks, FS_NULL
<1>4. Stale(t, PartsIn(c))
    BY <1>1 DEF Sound, Stale
<1>5. Here(t, b)
    BY <1>0, <1>1 DEF Here, LiveOn
<1>6. \A x \in m : Here(s, x) => Here(t, x)
    BY <1>1, <1>5 DEF Here, LiveOn
<1> QED BY <1>1, <1>2, <1>3, <1>4, <1>5, <1>6, FrameOK

LEMMA UnsizeOK ==
    ASSUME NEW s, NEW c, Sound(s, c, {}), NEW b \in Blocks \ PartsIn(c),
           NEW t, t = Written(s, Size(b, 0))
    PROVE  Sound(t, c, {})
<1>0. block_count \in Nat /\ 0 \in 0..block_count
    BY BaseFSAssumption
<1>1. /\ s \in Disks /\ Shape(c) /\ t \in Disks /\ t.bits = s.bits /\ t.obj = s.obj
      /\ t.size[b] = 0 /\ \A x \in Blocks \ {b} : t.size[x] = s.size[x]
    BY <1>0, SizedFacts DEF Sound
<1>2. \A p \in PartsIn(c) : /\ t.obj[p] = s.obj[p] /\ t.size[p] = s.size[p]
                            /\ Run(p, s.size[p]) \subseteq t.bits
    BY <1>1, ShapeFacts DEF Sound, Room, Here
<1>3. \A h \in DOMAIN c : ~LiveOn(t, s.obj[c[h][Len(c[h])]].next)
  <2>1. \A x : LiveOn(t, x) => LiveOn(s, x)
    BY <1>1 DEF LiveOn
  <2> QED BY <2>1 DEF Sound, Chained
<1>4. Stale(t, PartsIn(c))
    BY <1>1 DEF Sound, Stale
<1> QED BY <1>1, <1>2, <1>3, <1>4, FrameOK

LEMMA GiveOK ==
    ASSUME NEW s, NEW c, Sound(s, c, {}), NEW b \in Blocks, NEW n \in Nat,
           \A p \in PartsIn(c) : Run(p, s.size[p]) \cap Run(b, n) = {},
           NEW t, t = Written(s, Give(b, n))
    PROVE  Sound(t, c, {})
<1>1. /\ s \in Disks /\ Shape(c) /\ t \in Disks
      /\ t.bits = s.bits \ Run(b, n) /\ t.size = s.size /\ t.obj = s.obj
    BY GivenFacts DEF Sound
<1>2. \A p \in PartsIn(c) : Run(p, s.size[p]) \subseteq t.bits
    BY <1>1 DEF Sound, Room, Here
<1>3. \A h \in DOMAIN c : ~LiveOn(t, s.obj[c[h][Len(c[h])]].next)
    BY <1>1 DEF Sound, Chained, LiveOn
<1>4. Stale(t, PartsIn(c))
    BY <1>1 DEF Sound, Stale
<1> QED BY <1>1, <1>2, <1>3, <1>4, FrameOK

LEMMA PutOutsideOK ==
    ASSUME NEW s, NEW c, NEW m, Sound(s, c, m), NEW b \in Blocks \ PartsIn(c), NEW o \in Contents,
           o.kind = "dir" => o.refs = <<>> /\ o.next = FS_NULL, NEW t, t = Written(s, Obj(b, o))
    PROVE  Sound(t, c, m)
<1>1. /\ s \in Disks /\ Shape(c) /\ t \in Disks /\ t.bits = s.bits /\ t.size = s.size
      /\ t.obj[b] = o /\ \A x \in Blocks \ {b} : t.obj[x] = s.obj[x]
    BY PutFacts DEF Sound
<1>2. \A p \in PartsIn(c) : /\ t.obj[p] = s.obj[p] /\ t.size[p] = s.size[p]
                            /\ Run(p, s.size[p]) \subseteq t.bits
    BY <1>1, ShapeFacts DEF Sound, Room, Here
<1>3. \A h \in DOMAIN c : ~LiveOn(t, s.obj[c[h][Len(c[h])]].next)
    BY <1>1 DEF Sound, Chained, LiveOn
<1>4. Stale(t, PartsIn(c))
    BY <1>1 DEF Sound, Stale
<1>5. \A x \in m : Here(s, x) => Here(t, x)
    BY <1>1 DEF Here, LiveOn
<1> QED BY <1>1, <1>2, <1>3, <1>4, <1>5, FrameOK

-----------------------------------------------------------------------------
(***************************************************************************)
(* Writes that change which parts a header has.                            *)
(***************************************************************************)
LEMMA ReferringStays ==
    ASSUME NEW s, NEW P, NEW H, Referring(s, P, H), NEW t, NEW Q, NEW J, H \subseteq J,
           \A p \in Q : \/ p \in P /\ t.obj[p].refs = s.obj[p].refs
                        \/ t.obj[p].refs = <<>>
    PROVE  Referring(t, Q, J)
<1>1. ASSUME NEW p \in Q, NEW i \in 1..Len(t.obj[p].refs)
      PROVE  p \in P /\ t.obj[p].refs = s.obj[p].refs /\ i \in 1..Len(s.obj[p].refs)
  <2>1. t.obj[p].refs # <<>>
    <3>1. \A l : l = <<>> => 1..Len(l) = {}
      OBVIOUS
    <3> QED BY <1>1, <3>1
  <2> QED BY <1>1, <2>1
<1>2. ASSUME NEW p \in Q, NEW i \in 1..Len(t.obj[p].refs)
      PROVE  t.obj[p].refs[i] \in J \cup {FS_NULL}
  <2>1. p \in P /\ t.obj[p].refs = s.obj[p].refs /\ i \in 1..Len(s.obj[p].refs)
    BY <1>1
  <2>2. s.obj[p].refs[i] \in H \cup {FS_NULL}
    BY <2>1 DEF Referring
  <2> QED BY <2>1, <2>2
<1>3. ASSUME NEW p \in Q, NEW q \in Q, NEW i \in 1..Len(t.obj[p].refs),
             NEW j \in 1..Len(t.obj[q].refs),
             t.obj[p].refs[i] = t.obj[q].refs[j] /\ t.obj[p].refs[i] # FS_NULL
      PROVE  p = q /\ i = j
  <2>1. /\ p \in P /\ t.obj[p].refs = s.obj[p].refs /\ i \in 1..Len(s.obj[p].refs)
        /\ q \in P /\ t.obj[q].refs = s.obj[q].refs /\ j \in 1..Len(s.obj[q].refs)
    BY <1>1
  <2>2. s.obj[p].refs[i] = s.obj[q].refs[j] /\ s.obj[p].refs[i] # FS_NULL
    BY <1>3, <2>1
  <2> QED BY <2>1, <2>2 DEF Referring
<1> QED BY <1>2, <1>3 DEF Referring

(* The references of part p become l.                                      *)
Rereferred(s, t, P, H, p, l) ==
    /\ t.obj[p].refs = l /\ \A x \in P \ {p} : t.obj[x].refs = s.obj[x].refs
    /\ \A i \in 1..Len(l) : l[i] \in H \cup {FS_NULL}
    /\ \A i, j \in 1..Len(l) : l[i] = l[j] /\ l[i] # FS_NULL => i = j
    /\ \A x \in P \ {p} : \A i \in 1..Len(s.obj[x].refs), j \in 1..Len(l) :
          s.obj[x].refs[i] = l[j] => l[j] = FS_NULL

LEMMA ReferringPut ==
    ASSUME NEW s, NEW P, NEW H, Referring(s, P, H), NEW t, NEW p \in P, NEW l,
           Rereferred(s, t, P, H, p, l)
    PROVE  Referring(t, P, H)
<1> USE DEF Rereferred
<1>1. ASSUME NEW x \in P, NEW i \in 1..Len(t.obj[x].refs)
      PROVE  t.obj[x].refs[i] \in H \cup {FS_NULL}
  <2>1. CASE x = p
    BY <1>1, <2>1
  <2>2. CASE x # p
    <3>1. t.obj[x].refs = s.obj[x].refs
      BY <2>2
    <3> QED BY <1>1, <3>1 DEF Referring
  <2> QED BY <2>1, <2>2
<1>2. ASSUME NEW x \in P, NEW q \in P, NEW i \in 1..Len(t.obj[x].refs),
             NEW j \in 1..Len(t.obj[q].refs),
             t.obj[x].refs[i] = t.obj[q].refs[j] /\ t.obj[x].refs[i] # FS_NULL
      PROVE  x = q /\ i = j
  <2>1. CASE x = p /\ q = p
    BY <1>2, <2>1
  <2>2. CASE x # p /\ q = p
    <3>1. t.obj[x].refs = s.obj[x].refs
      BY <2>2
    <3> QED BY <1>2, <2>2, <3>1
  <2>3. CASE x = p /\ q # p
    <3>1. t.obj[q].refs = s.obj[q].refs
      BY <2>3
    <3> QED BY <1>2, <2>3, <3>1
  <2>4. CASE x # p /\ q # p
    <3>1. t.obj[x].refs = s.obj[x].refs /\ t.obj[q].refs = s.obj[q].refs
      BY <2>4
    <3> QED BY <1>2, <3>1 DEF Referring
  <2> QED BY <2>1, <2>2, <2>3, <2>4
<1> QED BY <1>1, <1>2 DEF Referring

LEMMA ChainedStays ==
    ASSUME NEW s, NEW q \in Seq(Blocks), Len(q) > 0, Chained(s, q), NEW t,
           \A i \in 1..Len(q) : /\ t.obj[q[i]].kind = s.obj[q[i]].kind
                                /\ t.obj[q[i]].next = s.obj[q[i]].next,
           \A x : LiveOn(t, x) => LiveOn(s, x)
    PROVE  Chained(t, q)
<1>1. /\ Len(q) \in Nat /\ 1 \in 1..Len(q) /\ Len(q) \in 1..Len(q)
      /\ \A i \in 1..(Len(q) - 1) : i \in 1..Len(q)
      /\ \A i \in 2..Len(q) : i \in 1..Len(q)
    OBVIOUS
<1>2. \A i \in 1..(Len(q) - 1) : t.obj[q[i]].next = q[i + 1]
    BY <1>1 DEF Chained
<1>3. ~LiveOn(t, t.obj[q[Len(q)]].next)
    BY <1>1 DEF Chained
<1>4. t.obj[q[1]].kind = s.obj[q[1]].kind /\ \A i \in 2..Len(q) : t.obj[q[i]].kind = s.obj[q[i]].kind
    BY <1>1
<1> QED BY <1>2, <1>3, <1>4 DEF Chained

(* An object changes without its links.                                    *)
LEMMA PutOK ==
    ASSUME NEW s, NEW c, NEW m, Sound(s, c, m), NEW p \in PartsIn(c), NEW o \in Contents,
           o.kind = s.obj[p].kind, o.next = s.obj[p].next, NEW t, t = Written(s, Obj(p, o)),
           Referring(t, PartsIn(c), Known(s, c, m))
    PROVE  Sound(t, c, m)
<1>1. Shape(c) /\ s \in Disks /\ p \in Blocks
    BY ShapeFacts DEF Sound
<1>2. /\ t \in Disks /\ t.bits = s.bits /\ t.size = s.size
      /\ t.obj[p] = o /\ \A x \in Blocks \ {p} : t.obj[x] = s.obj[x]
    BY <1>1, PutFacts
<1>3. ASSUME NEW h \in DOMAIN c PROVE Chained(t, c[h])
  <2>1. c[h] \in Seq(Blocks) /\ Len(c[h]) > 0 /\ Chained(s, c[h])
    BY <1>1, ShapeFacts DEF Sound
  <2>2. \A i \in 1..Len(c[h]) : c[h][i] \in Blocks
    BY <2>1
  <2>3. \A i \in 1..Len(c[h]) : /\ t.obj[c[h][i]].kind = s.obj[c[h][i]].kind
                                /\ t.obj[c[h][i]].next = s.obj[c[h][i]].next
    BY <1>2, <2>2
  <2>4. \A x : LiveOn(t, x) => LiveOn(s, x)
    BY <1>2 DEF LiveOn
  <2> QED BY <2>1, <2>3, <2>4, ChainedStays
<1>4. Room(t, PartsIn(c))
    BY <1>2 DEF Sound, Room, Here, LiveOn
<1>5. Known(t, c, m) = Known(s, c, m)
    BY <1>2 DEF Known, Here, LiveOn
<1>6. Stale(t, PartsIn(c))
    BY <1>2 DEF Sound, Stale
<1> QED BY <1>1, <1>2, <1>3, <1>4, <1>5, <1>6 DEF Sound

(* The parts of header h become q.                                         *)
LEMMA RelinkedShape ==
    ASSUME NEW c, Shape(c), NEW h \in DOMAIN c, NEW q \in Seq(Blocks), Len(q) > 0, q[1] = h,
           IsInjective(q), Range(q) \cap PartsIn(c) \subseteq Range(c[h]),
           NEW k, k = [c EXCEPT ![h] = q]
    PROVE  /\ Shape(k) /\ DOMAIN k = DOMAIN c /\ k[h] = q
           /\ \A x \in DOMAIN c \ {h} : k[x] = c[x] /\ Range(c[x]) \cap Range(q) = {}
           /\ PartsIn(k) \subseteq PartsIn(c) \cup Range(q) /\ Range(q) \subseteq PartsIn(k)
           /\ \A p \in PartsIn(k) : p \in Range(q) \/ p \notin Range(c[h])
<1>1. DOMAIN k = DOMAIN c /\ k[h] = q /\ \A x \in DOMAIN c \ {h} : k[x] = c[x]
    OBVIOUS
<1>2. k \in [DOMAIN c -> Seq(Blocks)] /\ Root \in DOMAIN c
    BY <1>1 DEF Shape
<1>3. \A x \in DOMAIN c : Len(k[x]) > 0 /\ k[x][1] = x /\ IsInjective(k[x])
    BY <1>1 DEF Shape
<1>4. \A x \in DOMAIN c \ {h} : Range(c[x]) \cap Range(q) = {}
    BY DEF Shape, PartsIn
<1>5. ASSUME NEW x \in DOMAIN c, NEW y \in DOMAIN c, x # y PROVE Range(k[x]) \cap Range(k[y]) = {}
  <2>1. CASE x = h
    BY <1>1, <1>4, <1>5, <2>1
  <2>2. CASE y = h
    BY <1>1, <1>4, <1>5, <2>2
  <2>3. CASE x # h /\ y # h
    BY <1>1, <1>5, <2>3 DEF Shape
  <2> QED BY <2>1, <2>2, <2>3
<1>6. Shape(k)
    BY <1>1, <1>2, <1>3, <1>5 DEF Shape
<1>7. PartsIn(k) \subseteq PartsIn(c) \cup Range(q) /\ Range(q) \subseteq PartsIn(k)
    BY <1>1 DEF PartsIn
<1>8. ASSUME NEW p \in PartsIn(k) PROVE p \in Range(q) \/ p \notin Range(c[h])
  <2>1. PICK x \in DOMAIN c : p \in Range(k[x])
    BY <1>1 DEF PartsIn
  <2>2. CASE x = h
    BY <1>1, <2>1, <2>2
  <2>3. CASE x # h
    BY <1>1, <2>1, <2>3 DEF Shape
  <2> QED BY <2>2, <2>3
<1> QED BY <1>1, <1>4, <1>6, <1>7, <1>8

LEMMA InChain ==
    ASSUME NEW c, Shape(c), NEW x \in DOMAIN c, NEW i \in 1..Len(c[x])
    PROVE  c[x][i] \in PartsIn(c) /\ c[x][i] \in Range(c[x])
<1>1. c[x] \in Seq(Blocks)
    BY DEF Shape
<1>2. c[x][i] \in Range(c[x])
    BY <1>1, SeqFacts
<1> QED BY <1>2, ShapeFacts

LEMMA RelinkedOK ==
    ASSUME NEW s, NEW c, NEW m, Sound(s, c, m), NEW h \in DOMAIN c,
           NEW q \in Seq(Blocks), Len(q) > 0, q[1] = h, IsInjective(q),
           Range(q) \cap PartsIn(c) \subseteq Range(c[h]),
           \A p \in Range(q) \ PartsIn(c) : Here(s, p) /\ p \notin m,
           \A p \in Range(q) \ PartsIn(c) : \A x \in (PartsIn(c) \cup Range(q)) \ {p} :
              Run(p, s.size[p]) \cap Run(x, s.size[x]) = {},
           NEW k, k = [c EXCEPT ![h] = q], NEW t \in Disks, t.bits = s.bits,
           \A x \in Blocks : t.size[x] = s.size[x] \/ (t.size[x] = 0 /\ x \notin PartsIn(k) \cup m),
           \A p \in PartsIn(c) \ Range(c[h]) : t.obj[p] = s.obj[p],
           Chained(t, q), Referring(t, PartsIn(k), Known(s, c, m)), Stale(t, PartsIn(k))
    PROVE  Sound(t, k, m)
<1>1. /\ Shape(k) /\ DOMAIN k = DOMAIN c /\ k[h] = q
      /\ \A x \in DOMAIN c \ {h} : k[x] = c[x]
      /\ PartsIn(k) \subseteq PartsIn(c) \cup Range(q)
  <2>1. Shape(c)
    BY DEF Sound
  <2>2. /\ h \in DOMAIN c /\ q \in Seq(Blocks) /\ Len(q) > 0 /\ q[1] = h /\ IsInjective(q)
        /\ Range(q) \cap PartsIn(c) \subseteq Range(c[h]) /\ k = [c EXCEPT ![h] = q]
    OBVIOUS
  <2>3. Shape(k)
    BY <2>1, <2>2, RelinkedShape
  <2>4. DOMAIN k = DOMAIN c /\ k[h] = q
    BY <2>1, <2>2, RelinkedShape
  <2>5. \A x \in DOMAIN c \ {h} : k[x] = c[x]
    BY <2>1, <2>2, RelinkedShape
  <2>6. PartsIn(k) \subseteq PartsIn(c) \cup Range(q)
    BY <2>1, <2>2, RelinkedShape
  <2> QED BY <2>3, <2>4, <2>5, <2>6
<1>2. ASSUME NEW x \in DOMAIN c PROVE Chained(t, k[x])
  <2>1. CASE x = h
    BY <1>1, <2>1
  <2>2. CASE x # h
    <3>1. Shape(c) /\ c[x] \in Seq(Blocks) /\ Len(c[x]) > 0 /\ Chained(s, c[x])
      BY ShapeFacts DEF Sound
    <3>2. \A i \in 1..Len(c[x]) : c[x][i] \in PartsIn(c) /\ c[x][i] \notin Range(c[h])
      <4>1. \A i \in 1..Len(c[x]) : c[x][i] \in PartsIn(c) /\ c[x][i] \in Range(c[x])
        BY <3>1, InChain
      <4>2. Range(c[x]) \cap Range(c[h]) = {}
        BY <2>2, <3>1 DEF Shape
      <4> QED BY <4>1, <4>2
    <3>3. \A i \in 1..Len(c[x]) : /\ t.obj[c[x][i]].kind = s.obj[c[x][i]].kind
                                  /\ t.obj[c[x][i]].next = s.obj[c[x][i]].next
      BY <3>2
    <3>4. \A y : LiveOn(t, y) => LiveOn(s, y)
      BY DEF LiveOn
    <3>5. Chained(t, c[x])
      BY <3>1, <3>3, <3>4, ChainedStays
    <3> QED BY <1>1, <2>2, <3>5
  <2> QED BY <2>1, <2>2
<1>3. \A p \in PartsIn(k) : p \in Blocks /\ t.size[p] = s.size[p]
  <2>1. \A p \in PartsIn(k) : p \in Blocks
    BY <1>1, ShapeFacts
  <2>2. ASSUME NEW p \in PartsIn(k), t.size[p] = 0, p \notin PartsIn(k) PROVE FALSE
    BY <2>2
  <2> QED BY <2>1, <2>2
<1>4. \A p \in PartsIn(k) : Here(s, p)
  <2>1. \A p \in PartsIn(c) : Here(s, p)
    BY DEF Sound, Room
  <2> QED BY <1>1, <2>1
<1>5. ASSUME NEW p \in PartsIn(k), NEW x \in PartsIn(k), p # x
      PROVE  Run(p, s.size[p]) \cap Run(x, s.size[x]) = {}
  <2>1. p \in PartsIn(c) \cup Range(q) /\ x \in PartsIn(c) \cup Range(q)
    BY <1>1
  <2>2. CASE p \notin PartsIn(c)
    BY <1>5, <2>1, <2>2
  <2>3. CASE x \notin PartsIn(c)
    BY <1>5, <2>1, <2>3
  <2>4. CASE p \in PartsIn(c) /\ x \in PartsIn(c)
    BY <1>5, <2>4 DEF Sound, Room
  <2> QED BY <2>2, <2>3, <2>4
<1>6. Room(t, PartsIn(k))
  <2>1. \A p \in PartsIn(k) : Here(t, p)
    BY <1>3, <1>4 DEF Here, LiveOn
  <2>2. \A p, x \in PartsIn(k) : p # x => Run(p, t.size[p]) \cap Run(x, t.size[x]) = {}
    BY <1>3, <1>5
  <2> QED BY <2>1, <2>2 DEF Room
<1>7. \A x \in m : Here(s, x) => Here(t, x)
  <2>1. \A x \in m : x \in Blocks
    BY DEF Sound
  <2> QED BY <2>1 DEF Here, LiveOn
<1>8. Known(s, c, m) \subseteq Known(t, k, m)
    BY <1>1, <1>7 DEF Known
<1>9. Referring(t, PartsIn(k), Known(t, k, m))
    BY <1>8, ReferringStays
<1>10. m \subseteq Blocks /\ m \cap PartsIn(k) \subseteq DOMAIN k
  <2>1. m \subseteq Blocks /\ m \cap PartsIn(c) \subseteq DOMAIN c
    BY DEF Sound
  <2> QED BY <1>1, <2>1
<1> QED BY <1>1, <1>2, <1>6, <1>9, <1>10 DEF Sound

LEMMA RootStays ==
    ASSUME NEW s, RootOK(s), NEW c, Shape(c), NEW t,
           \A x \in DOMAIN c : t.obj[x].kind = s.obj[x].kind /\ t.obj[x].parent = s.obj[x].parent
    PROVE  RootOK(t)
    BY DEF RootOK, Shape

(* The parts of header h become q, all but those of h stay as they are.    *)
Relinked(c, k, h, q, s, t) ==
    /\ q \in Seq(Blocks) /\ Len(q) > 0 /\ q[1] = h /\ IsInjective(q)
    /\ Range(q) \cap PartsIn(c) \subseteq Range(c[h]) /\ k = [c EXCEPT ![h] = q]
    /\ \A p \in PartsIn(c) \ Range(c[h]) : t.obj[p] = s.obj[p]
    /\ t.obj[h].kind = s.obj[h].kind /\ t.obj[h].parent = s.obj[h].parent
    /\ t.obj[q[Len(q)]].next = FS_NULL /\ \A i \in 2..Len(q) : t.obj[q[i]].prev = q[i - 1]
    /\ \A p \in Range(q) : /\ \A i \in 1..Len(t.obj[p].refs) : t.obj[p].refs[i] # FS_NULL
                           /\ t.obj[p].kind = "dext" => t.obj[p].refs # <<>>

LEMMA CalmRelinked ==
    ASSUME NEW s, NEW c, Shape(c), Calm(s, c), NEW h \in DOMAIN c,
           NEW q, NEW k, NEW t, Relinked(c, k, h, q, s, t)
    PROVE  Calm(t, k)
<1>8. /\ q \in Seq(Blocks) /\ Len(q) > 0 /\ q[1] = h /\ IsInjective(q)
      /\ Range(q) \cap PartsIn(c) \subseteq Range(c[h]) /\ k = [c EXCEPT ![h] = q]
      /\ \A p \in PartsIn(c) \ Range(c[h]) : t.obj[p] = s.obj[p]
      /\ t.obj[h].kind = s.obj[h].kind /\ t.obj[h].parent = s.obj[h].parent
      /\ t.obj[q[Len(q)]].next = FS_NULL /\ \A i \in 2..Len(q) : t.obj[q[i]].prev = q[i - 1]
      /\ \A p \in Range(q) : /\ \A i \in 1..Len(t.obj[p].refs) : t.obj[p].refs[i] # FS_NULL
                             /\ t.obj[p].kind = "dext" => t.obj[p].refs # <<>>
    BY DEF Relinked
<1>0. Shape(c) /\ Ends(s, c) /\ Prevs(s, c) /\ Full(s, c) /\ RootOK(s)
    BY DEF Calm
<1>1. /\ Shape(k) /\ DOMAIN k = DOMAIN c /\ k[h] = q
      /\ \A x \in DOMAIN c \ {h} : k[x] = c[x]
      /\ PartsIn(k) \subseteq PartsIn(c) \cup Range(q)
      /\ \A p \in PartsIn(k) : p \in Range(q) \/ p \notin Range(c[h])
  <2>1. /\ Shape(c) /\ h \in DOMAIN c /\ q \in Seq(Blocks) /\ Len(q) > 0 /\ q[1] = h
        /\ IsInjective(q) /\ Range(q) \cap PartsIn(c) \subseteq Range(c[h])
        /\ k = [c EXCEPT ![h] = q]
    BY <1>0, <1>8
  <2>2. Shape(k)
    BY ONLY <2>1, RelinkedShape
  <2>3. DOMAIN k = DOMAIN c /\ k[h] = q /\ \A x \in DOMAIN c \ {h} : k[x] = c[x]
    BY <2>1 DEF Shape
  <2>4. PartsIn(k) \subseteq PartsIn(c) \cup Range(q)
    BY <2>3 DEF PartsIn
  <2>5. ASSUME NEW p \in PartsIn(k), p \notin Range(q) PROVE p \notin Range(c[h])
    <3>1. PICK x \in DOMAIN c : x # h /\ p \in Range(c[x])
      BY <2>3, <2>5 DEF PartsIn
    <3>2. Range(c[x]) \cap Range(c[h]) = {}
      BY <2>1, <3>1 DEF Shape
    <3> QED BY <3>1, <3>2
  <2> QED BY <2>2, <2>3, <2>4, <2>5
<1>2. ASSUME NEW x \in DOMAIN c \ {h}
      PROVE  \A i \in 1..Len(c[x]) : t.obj[c[x][i]] = s.obj[c[x][i]]
  <2>1. c[x] \in Seq(Blocks)
    BY <1>0 DEF Shape
  <2>2. \A i \in 1..Len(c[x]) : c[x][i] \in PartsIn(c) /\ c[x][i] \in Range(c[x])
    BY <1>0, InChain
  <2>3. Range(c[x]) \cap Range(c[h]) = {}
    BY <1>0 DEF Shape
  <2> QED BY <1>8, <2>2, <2>3
<1>3. \A x \in DOMAIN c : Len(c[x]) \in 1..Len(c[x]) /\ \A i \in 2..Len(c[x]) : i \in 1..Len(c[x])
  <2>1. \A x \in DOMAIN c : Len(c[x]) \in Nat /\ Len(c[x]) > 0
    BY <1>0, ShapeFacts
  <2> QED BY <2>1
<1>4. Ends(t, k)
  <2>1. ASSUME NEW x \in DOMAIN c PROVE t.obj[k[x][Len(k[x])]].next = FS_NULL
    <3>1. CASE x = h
      BY <1>1, <1>8, <3>1
    <3>2. CASE x # h
      BY <1>0, <1>1, <1>2, <1>3, <3>2 DEF Ends
    <3> QED BY <3>1, <3>2
  <2> QED BY <1>1, <2>1 DEF Ends
<1>5. Prevs(t, k)
  <2>1. ASSUME NEW x \in DOMAIN c PROVE \A i \in 2..Len(k[x]) : t.obj[k[x][i]].prev = k[x][i - 1]
    <3>1. CASE x = h
      BY <1>1, <1>8, <3>1
    <3>2. CASE x # h
      <4>1. k[x] = c[x] /\ \A i \in 2..Len(c[x]) : t.obj[c[x][i]] = s.obj[c[x][i]]
        BY <1>1, <1>2, <1>3, <3>2
      <4>2. \A i \in 2..Len(c[x]) : s.obj[c[x][i]].prev = c[x][i - 1]
        BY <1>0 DEF Prevs
      <4> QED BY <4>1, <4>2
    <3> QED BY <3>1, <3>2
  <2> QED BY <1>1, <2>1 DEF Prevs
<1>6. Full(t, k)
  <2>1. ASSUME NEW p \in PartsIn(k)
        PROVE  /\ \A i \in 1..Len(t.obj[p].refs) : t.obj[p].refs[i] # FS_NULL
               /\ t.obj[p].kind = "dext" => t.obj[p].refs # <<>>
    <3>0. \A x \in Range(q) : /\ \A i \in 1..Len(t.obj[x].refs) : t.obj[x].refs[i] # FS_NULL
                              /\ t.obj[x].kind = "dext" => t.obj[x].refs # <<>>
      BY <1>8
    <3>1. CASE p \in Range(q)
      BY ONLY <3>0, <3>1
    <3>2. CASE p \notin Range(q)
      <4>1. p \in PartsIn(c) /\ t.obj[p] = s.obj[p]
        BY <1>1, <1>8, <3>2
      <4> QED BY <1>0, <4>1 DEF Full
    <3> QED BY <3>1, <3>2
  <2> QED BY <2>1 DEF Full
<1>7. RootOK(t)
  <2>1. ASSUME NEW x \in DOMAIN c
        PROVE  t.obj[x].kind = s.obj[x].kind /\ t.obj[x].parent = s.obj[x].parent
    <3>1. CASE x = h
      BY <1>8, <3>1
    <3>2. CASE x # h
      <4>1. c[x][1] = x /\ 1 \in 1..Len(c[x])
        BY <1>0, ShapeFacts
      <4>2. t.obj[x] = s.obj[x]
        BY <1>2, <3>2, <4>1
      <4> QED BY <4>2
    <3> QED BY <3>1, <3>2
  <2> QED BY <1>0, <2>1, RootStays
<1> QED BY <1>4, <1>5, <1>6, <1>7 DEF Calm

LEMMA ContentsFacts ==
    ASSUME NEW o \in Contents, NEW v \in 0..block_count, NEW n \in 0..MaxSize
    PROVE  /\ [o EXCEPT !.next = v] \in Contents /\ [o EXCEPT !.prev = v] \in Contents
           /\ [o EXCEPT !.len = n] \in Contents
           /\ [o EXCEPT !.len = n, !.next = v] \in Contents
    BY DEF Contents, Object

LEMMA NextPut ==
    ASSUME NEW s \in Disks, NEW p \in Blocks, NEW v \in 0..block_count, NEW t,
           t = Written(s, Obj(p, [s.obj[p] EXCEPT !.next = v]))
    PROVE  /\ t \in Disks /\ t.bits = s.bits /\ t.size = s.size
           /\ t.obj[p] = [s.obj[p] EXCEPT !.next = v]
           /\ \A x \in Blocks \ {p} : t.obj[x] = s.obj[x]
           /\ t.obj[p].kind = s.obj[p].kind /\ t.obj[p].refs = s.obj[p].refs
           /\ t.obj[p].next = v /\ t.obj[p].prev = s.obj[p].prev /\ t.obj[p].parent = s.obj[p].parent
<1> DEFINE o == [s.obj[p] EXCEPT !.next = v]
<1>1. s.obj[p] \in Object /\ s.obj[p] \in Contents
    BY DiskFacts
<1>2. 0 \in 0..MaxSize
    BY BaseFSAssumption
<1>3. o \in Contents
    BY <1>1, <1>2, ContentsFacts
<1>4. /\ o.kind = s.obj[p].kind /\ o.refs = s.obj[p].refs /\ o.next = v
      /\ o.prev = s.obj[p].prev /\ o.parent = s.obj[p].parent
    BY <1>1 DEF Object
<1> HIDE DEF o
<1>5. /\ t \in Disks /\ t.bits = s.bits /\ t.size = s.size
      /\ t.obj[p] = o /\ \A x \in Blocks \ {p} : t.obj[x] = s.obj[x]
  <2>1. t = Written(s, Obj(p, o)) /\ s \in Disks /\ p \in Blocks /\ o \in Contents
    BY <1>3 DEF o
  <2> QED BY ONLY <2>1, PutFacts
<1> QED BY <1>4, <1>5 DEF o

(* What the chain of a header looks like.                                  *)
LEMMA ChainFacts ==
    ASSUME NEW s, NEW c, NEW m, Sound(s, c, m), NEW h \in DOMAIN c
    PROVE  /\ c[h] \in Seq(Blocks) /\ Len(c[h]) \in Nat /\ Len(c[h]) > 0 /\ IsInjective(c[h])
           /\ c[h][1] = h /\ DOMAIN c[h] = 1..Len(c[h])
           /\ \A i \in 1..Len(c[h]) : c[h][i] \in Blocks /\ c[h][i] \in PartsIn(c)
           /\ \A i \in 1..(Len(c[h]) - 1) : s.obj[c[h][i]].next = c[h][i + 1]
           /\ s.obj[h].kind \in {"dir", "file"}
           /\ \A i \in 2..Len(c[h]) :
                 s.obj[c[h][i]].kind = IF s.obj[h].kind = "dir" THEN "dext" ELSE "fext"
           /\ Range(c[h]) \subseteq PartsIn(c)
<1>1. Shape(c) /\ Chained(s, c[h])
    BY DEF Sound
<1>2. /\ c[h] \in Seq(Blocks) /\ Len(c[h]) \in Nat /\ Len(c[h]) > 0 /\ IsInjective(c[h])
      /\ c[h][1] = h /\ DOMAIN c[h] = 1..Len(c[h])
    BY <1>1 DEF Shape
<1>3. \A i \in 1..Len(c[h]) : c[h][i] \in Blocks
    BY <1>2
<1>4. \A i \in 1..Len(c[h]) : c[h][i] \in PartsIn(c)
    BY <1>1, InChain
<1>5. /\ \A i \in 1..(Len(c[h]) - 1) : s.obj[c[h][i]].next = c[h][i + 1]
      /\ s.obj[h].kind \in {"dir", "file"}
      /\ \A i \in 2..Len(c[h]) :
            s.obj[c[h][i]].kind = IF s.obj[h].kind = "dir" THEN "dext" ELSE "fext"
    BY <1>1, <1>2 DEF Chained
<1>6. Range(c[h]) \subseteq PartsIn(c)
    BY DEF PartsIn
<1> QED BY <1>2, <1>3, <1>4, <1>5, <1>6

(* Extent e is linked behind the last part p of header h.                  *)
Appending(s, t, c, k, h, p, e, q) ==
    /\ p = c[h][Len(c[h])] /\ e \notin PartsIn(c)
    /\ \A x \in PartsIn(c) : Run(e, s.size[e]) \cap Run(x, s.size[x]) = {}
    /\ s.obj[e].next = FS_NULL /\ s.obj[e].refs = <<>>
    /\ s.obj[e].kind = IF s.obj[h].kind = "dir" THEN "dext" ELSE "fext"
    /\ t = Written(s, Obj(p, [s.obj[p] EXCEPT !.next = e]))
    /\ q = Append(c[h], e) /\ k = [c EXCEPT ![h] = q]

LEMMA AppendedOK ==
    ASSUME NEW s, NEW c, NEW m, Sound(s, c, m), NEW h \in DOMAIN c, NEW p,
           NEW e \in Blocks, e \notin m, Here(s, e), NEW t, NEW k, NEW q,
           Appending(s, t, c, k, h, p, e, q)
    PROVE  /\ Sound(t, k, m) /\ t \in Disks /\ t.bits = s.bits /\ t.size = s.size
           /\ t.obj[p] = [s.obj[p] EXCEPT !.next = e]
           /\ \A x \in Blocks \ {p} : t.obj[x] = s.obj[x]
           /\ p \in Range(c[h]) /\ p \in Blocks /\ p # e
           /\ q \in Seq(Blocks) /\ Len(q) = Len(c[h]) + 1 /\ IsInjective(q)
           /\ \A i \in 1..Len(c[h]) : q[i] = c[h][i]
           /\ q[Len(q)] = e /\ Range(q) = Range(c[h]) \cup {e}
<1>0. /\ p = c[h][Len(c[h])] /\ e \notin PartsIn(c)
      /\ \A x \in PartsIn(c) : Run(e, s.size[e]) \cap Run(x, s.size[x]) = {}
      /\ s.obj[e].next = FS_NULL /\ s.obj[e].refs = <<>>
      /\ s.obj[e].kind = IF s.obj[h].kind = "dir" THEN "dext" ELSE "fext"
      /\ t = Written(s, Obj(p, [s.obj[p] EXCEPT !.next = e]))
      /\ q = Append(c[h], e) /\ k = [c EXCEPT ![h] = q]
    BY DEF Appending
<1> DEFINE l == c[h]
           n == Len(l)
<1>1. /\ l \in Seq(Blocks) /\ n \in Nat /\ n > 0 /\ IsInjective(l) /\ l[1] = h /\ DOMAIN l = 1..n
      /\ \A i \in 1..n : l[i] \in Blocks /\ l[i] \in PartsIn(c)
      /\ \A i \in 1..(n - 1) : s.obj[l[i]].next = l[i + 1]
      /\ s.obj[h].kind \in {"dir", "file"}
      /\ \A i \in 2..n : s.obj[l[i]].kind = IF s.obj[h].kind = "dir" THEN "dext" ELSE "fext"
      /\ Range(l) \subseteq PartsIn(c)
    BY ChainFacts
<1>2. s \in Disks /\ Shape(c)
    BY DEF Sound
<1>3. n \in 1..n /\ p = l[n] /\ q = Append(l, e)
    BY <1>0, <1>1
<1>4. p \in Blocks /\ p \in PartsIn(c) /\ p # e /\ p \in Range(l)
    BY <1>0, <1>1, <1>3 DEF Range
<1>5. e \in 0..block_count /\ 0 \in 0..MaxSize
    BY BaseFSAssumption DEF Blocks
<1>6. [s.obj[p] EXCEPT !.next = e] \in Contents
    BY <1>2, <1>4, <1>5, DiskFacts, ContentsFacts
<1>7. /\ t \in Disks /\ t.bits = s.bits /\ t.size = s.size
      /\ t.obj[p] = [s.obj[p] EXCEPT !.next = e]
      /\ \A x \in Blocks \ {p} : t.obj[x] = s.obj[x]
  <2>1. /\ s \in Disks /\ p \in Blocks /\ e \in 0..block_count
        /\ t = Written(s, Obj(p, [s.obj[p] EXCEPT !.next = e]))
    BY <1>0, <1>2, <1>4, <1>5
  <2> QED BY ONLY <2>1, NextPut
<1>8. /\ t.obj[p].kind = s.obj[p].kind /\ t.obj[p].refs = s.obj[p].refs
      /\ t.obj[p].next = e
  <2>1. /\ s \in Disks /\ p \in Blocks /\ e \in 0..block_count
        /\ t = Written(s, Obj(p, [s.obj[p] EXCEPT !.next = e]))
    BY <1>0, <1>2, <1>4, <1>5
  <2> QED BY ONLY <2>1, NextPut
<1>9. \A x \in Blocks : t.obj[x].kind = s.obj[x].kind /\ t.obj[x].refs = s.obj[x].refs
    BY <1>7, <1>8
<1> HIDE DEF l, n
<1>10. q \in Seq(Blocks) /\ Len(q) = n + 1 /\ \A i \in 1..n : q[i] = l[i]
    BY <1>1, <1>3 DEF n
<1>11. q[n + 1] = e
    BY <1>1, <1>3 DEF n
<1>12. Range(q) = Range(l) \cup {e} /\ IsInjective(q)
    BY <1>0, <1>1, <1>3, AppendFacts
<1>13. Range(q) \cap PartsIn(c) \subseteq Range(l) /\ \A x \in Range(q) \ PartsIn(c) : x = e
    BY <1>0, <1>1, <1>12
<1>14. q[1] = h /\ Len(q) > 0
    BY <1>1, <1>10
<1>15. Chained(t, q)
  <2>1. ASSUME NEW i \in 1..(Len(q) - 1) PROVE t.obj[q[i]].next = q[i + 1]
    <3>1. CASE i = n
      BY <1>3, <1>8, <1>10, <1>11, <3>1 DEF n, l
    <3>2. CASE i # n
      <4>1. i \in 1..n /\ i + 1 \in 1..n /\ i \in 1..(n - 1)
        BY <1>1, <1>10, <2>1, <3>2
      <4>2. l[i] # p
        BY <1>1, <1>3, <3>2, <4>1 DEF IsInjective
      <4>3. l[i] \in Blocks /\ q[i] = l[i] /\ q[i + 1] = l[i + 1] /\ s.obj[l[i]].next = l[i + 1]
        BY <1>1, <1>10, <4>1
      <4>4. t.obj[l[i]] = s.obj[l[i]]
        BY <1>7, <4>2, <4>3
      <4> QED BY <4>3, <4>4
    <3> QED BY <3>1, <3>2
  <2>2. ~LiveOn(t, t.obj[q[Len(q)]].next)
    <3>1. t.obj[e].next = FS_NULL /\ q[Len(q)] = e
      BY <1>0, <1>4, <1>7, <1>10, <1>11
    <3> QED BY <3>1 DEF LiveOn, Blocks, FS_NULL
  <2>3. t.obj[q[1]].kind = s.obj[h].kind
    <3>1. h \in Blocks
      BY <1>1, <1>3
    <3> QED BY <1>9, <1>14, <3>1
  <2>4. ASSUME NEW i \in 2..Len(q)
        PROVE  t.obj[q[i]].kind = IF s.obj[h].kind = "dir" THEN "dext" ELSE "fext"
    <3>1. CASE i = n + 1
      BY <1>0, <1>9, <1>11, <3>1
    <3>2. CASE i # n + 1
      <4>1. i \in 2..n /\ i \in 1..n
        BY <1>1, <1>10, <2>4, <3>2
      <4>2. l[i] \in Blocks /\ q[i] = l[i]
        BY <1>1, <1>10, <4>1
      <4>3. s.obj[l[i]].kind = IF s.obj[h].kind = "dir" THEN "dext" ELSE "fext"
        BY <1>1, <4>1
      <4> QED BY <1>9, <4>2, <4>3
    <3> QED BY <3>1, <3>2
  <2>5. s.obj[h].kind \in {"dir", "file"}
    BY <1>1
  <2> HIDE DEF Chained
  <2> QED BY ONLY <2>1, <2>2, <2>3, <2>4, <2>5 DEF Chained
<1>16. PartsIn(k) \subseteq PartsIn(c) \cup {e} /\ PartsIn(c) \subseteq PartsIn(k)
  <2>1. DOMAIN k = DOMAIN c /\ k[h] = q /\ \A x \in DOMAIN c \ {h} : k[x] = c[x]
    BY <1>0
  <2>2. \A x \in DOMAIN c : Range(c[x]) \subseteq Range(k[x]) /\ Range(k[x]) \subseteq Range(c[x]) \cup {e}
    BY <1>12, <2>1 DEF l
  <2> QED BY <2>1, <2>2 DEF PartsIn
<1>17. Referring(t, PartsIn(k), Known(s, c, m))
  <2>1. Referring(s, PartsIn(c), Known(s, c, m)) /\ PartsIn(c) \subseteq Blocks
    BY <1>2, ShapeFacts DEF Sound
  <2>2. \A x \in PartsIn(k) : \/ x \in PartsIn(c) /\ t.obj[x].refs = s.obj[x].refs
                           \/ t.obj[x].refs = <<>>
    BY <1>0, <1>9, <1>16, <2>1
  <2> QED BY ONLY <2>1, <2>2, ReferringStays
<1>18. Stale(t, PartsIn(k))
  <2>1. \A x \in Blocks \ PartsIn(k) : x \notin PartsIn(c) /\ t.obj[x] = s.obj[x]
    BY <1>4, <1>7, <1>16
  <2> QED BY <2>1 DEF Sound, Stale
<1>19. \A x \in PartsIn(c) \ Range(c[h]) : t.obj[x] = s.obj[x]
    BY <1>2, <1>4, <1>7, ShapeFacts DEF l
<1>20. \A x \in Range(q) \ PartsIn(c) : Here(s, x) /\ x \notin m
    BY <1>13
<1>21. \A x \in Range(q) \ PartsIn(c) : \A y \in (PartsIn(c) \cup Range(q)) \ {x} :
          Run(x, s.size[x]) \cap Run(y, s.size[y]) = {}
    BY <1>0, <1>1, <1>12, <1>13
<1>22. Sound(t, k, m)
  <2>1. Range(q) \cap PartsIn(c) \subseteq Range(c[h])
    BY <1>13 DEF l
  <2>2. t \in Disks /\ t.bits = s.bits /\ \A x \in Blocks : t.size[x] = s.size[x]
    BY <1>7
  <2>3. q \in Seq(Blocks) /\ Len(q) > 0 /\ q[1] = h /\ IsInjective(q)
    BY <1>10, <1>12, <1>14
  <2>4. Sound(s, c, m) /\ h \in DOMAIN c /\ k = [c EXCEPT ![h] = q]
    BY <1>0
  <2> QED BY ONLY <1>15, <1>17, <1>18, <1>19, <1>20, <1>21, <2>1, <2>2, <2>3, <2>4, RelinkedOK
<1> QED BY <1>4, <1>7, <1>10, <1>11, <1>12, <1>22 DEF l, n

(* Part i of header h is unlinked: p leads where g did, and q is left.     *)
Unlinking(s, t, c, k, h, i, p, g, q) ==
    /\ p = c[h][i - 1] /\ g = c[h][i] /\ q = Skip(c[h], i) /\ k = [c EXCEPT ![h] = q]
    /\ t = Written(s, Obj(p, [s.obj[p] EXCEPT !.next = s.obj[g].next]))

LEMMA SkippedOK ==
    ASSUME NEW s, NEW c, NEW m, Sound(s, c, m), NEW h \in DOMAIN c, NEW i \in 2..Len(c[h]),
           NEW t, NEW p, NEW g, NEW q, NEW k, Unlinking(s, t, c, k, h, i, p, g, q)
    PROVE  /\ Sound(t, k, m) /\ t \in Disks /\ t.bits = s.bits /\ t.size = s.size
           /\ t.obj[p].next = s.obj[g].next
           /\ t.obj[p].kind = s.obj[p].kind /\ t.obj[p].refs = s.obj[p].refs
           /\ t.obj[p].prev = s.obj[p].prev /\ t.obj[p].parent = s.obj[p].parent
           /\ \A x \in Blocks \ {p} : t.obj[x] = s.obj[x]
           /\ q \in Seq(Blocks) /\ Len(q) = Len(c[h]) - 1 /\ Len(q) > 0 /\ IsInjective(q) /\ q[1] = h
           /\ \A j \in 1..Len(q) : q[j] = IF j < i THEN c[h][j] ELSE c[h][j + 1]
           /\ Range(q) = Range(c[h]) \ {g}
<1>0. /\ p = c[h][i - 1] /\ g = c[h][i] /\ q = Skip(c[h], i) /\ k = [c EXCEPT ![h] = q]
      /\ t = Written(s, Obj(p, [s.obj[p] EXCEPT !.next = s.obj[g].next]))
    BY DEF Unlinking
<1> DEFINE l == c[h]
           n == Len(l)
<1>1. /\ l \in Seq(Blocks) /\ n \in Nat /\ n > 0 /\ IsInjective(l) /\ l[1] = h /\ DOMAIN l = 1..n
      /\ \A j \in 1..n : l[j] \in Blocks /\ l[j] \in PartsIn(c)
      /\ \A j \in 1..(n - 1) : s.obj[l[j]].next = l[j + 1]
      /\ s.obj[h].kind \in {"dir", "file"}
      /\ \A j \in 2..n : s.obj[l[j]].kind = IF s.obj[h].kind = "dir" THEN "dext" ELSE "fext"
      /\ Range(l) \subseteq PartsIn(c)
  <2>1. Sound(s, c, m) /\ h \in DOMAIN c
    OBVIOUS
  <2>2. /\ c[h] \in Seq(Blocks) /\ Len(c[h]) \in Nat /\ Len(c[h]) > 0 /\ IsInjective(c[h])
        /\ c[h][1] = h /\ DOMAIN c[h] = 1..Len(c[h])
        /\ \A j \in 1..Len(c[h]) : c[h][j] \in Blocks /\ c[h][j] \in PartsIn(c)
        /\ \A j \in 1..(Len(c[h]) - 1) : s.obj[c[h][j]].next = c[h][j + 1]
        /\ s.obj[h].kind \in {"dir", "file"}
        /\ \A j \in 2..Len(c[h]) :
              s.obj[c[h][j]].kind = IF s.obj[h].kind = "dir" THEN "dext" ELSE "fext"
        /\ Range(c[h]) \subseteq PartsIn(c)
    BY ONLY <2>1, ChainFacts
  <2> QED BY ONLY <2>2
<1>2. s \in Disks /\ Shape(c) /\ ~LiveOn(s, s.obj[l[n]].next)
    BY DEF Sound, Chained
<1>3. i \in 1..n /\ i - 1 \in 1..n /\ p = l[i - 1] /\ g = l[i] /\ i \in Int /\ q = Skip(l, i)
    BY <1>0, <1>1
<1>4. p \in Blocks /\ g \in Blocks /\ p # g /\ p \in Range(l) /\ g \in Range(l) /\ p \in PartsIn(c)
  <2>1. i - 1 # i
    BY <1>3
  <2>2. p # g
    BY <1>1, <1>3, <2>1 DEF IsInjective
  <2> QED BY <1>1, <1>3, <2>2 DEF Range
<1>5. /\ t \in Disks /\ t.bits = s.bits /\ t.size = s.size
      /\ t.obj[p].next = s.obj[g].next
      /\ t.obj[p].kind = s.obj[p].kind /\ t.obj[p].refs = s.obj[p].refs
      /\ t.obj[p].prev = s.obj[p].prev /\ t.obj[p].parent = s.obj[p].parent
      /\ \A x \in Blocks \ {p} : t.obj[x] = s.obj[x]
  <2>1. /\ s \in Disks /\ p \in Blocks /\ s.obj[g].next \in 0..block_count
        /\ t = Written(s, Obj(p, [s.obj[p] EXCEPT !.next = s.obj[g].next]))
    BY <1>0, <1>2, <1>4, DiskFacts
  <2> QED BY ONLY <2>1, NextPut
<1>6. \A x \in Blocks : t.obj[x].kind = s.obj[x].kind /\ t.obj[x].refs = s.obj[x].refs
    BY <1>5
<1> HIDE DEF l, n
<1>7. \A a, b \in 1..n : l[a] = l[b] => a = b
    BY <1>1 DEF IsInjective
<1>8. /\ q \in Seq(Blocks \ {g}) /\ Len(q) = n - 1
      /\ \A j \in 1..(n - 1) : q[j] = IF j < i THEN l[j] ELSE l[j + 1]
      /\ IsInjective(q) /\ Range(q) = Range(l) \ {g}
  <2>1. l \in Seq(Blocks) /\ i \in 1..Len(l) /\ q = Skip(l, i) /\ l[i] = g /\ n = Len(l)
    BY <1>1, <1>3 DEF n
  <2>2. IsInjective(l)
    BY <1>1
  <2>3. /\ q \in Seq(Blocks \ {l[i]}) /\ Len(q) = Len(l) - 1
        /\ \A j \in 1..(Len(l) - 1) : q[j] = IF j < i THEN l[j] ELSE l[j + 1]
        /\ IsInjective(q) /\ Range(q) = Range(l) \ {l[i]}
    <3>1. q \in Seq(Blocks \ {l[i]})
      BY ONLY <2>1, <2>2, SkipFacts
    <3>2. Len(q) = Len(l) - 1
      BY ONLY <2>1, <2>2, SkipFacts
    <3>3. \A j \in 1..(Len(l) - 1) : q[j] = IF j < i THEN l[j] ELSE l[j + 1]
      BY <2>1 DEF Skip
    <3>4. IsInjective(q)
      BY ONLY <2>1, <2>2, SkipFacts
    <3>5. Range(q) = Range(l) \ {l[i]}
      BY ONLY <2>1, <2>2, <3>1, SkipFacts
    <3> QED BY <3>1, <3>2, <3>3, <3>4, <3>5
  <2> QED BY ONLY <2>1, <2>3
<1>9. /\ q \in Seq(Blocks) /\ IsInjective(q) /\ DOMAIN q = 1..(n - 1)
      /\ Len(q) > 0 /\ 1 \in 1..(n - 1) /\ 1 < i
  <2>1. \A a \in 1..Len(q) : q[a] \in Blocks
    BY <1>8
  <2>2. q \in Seq(Blocks) /\ DOMAIN q = 1..(n - 1)
    BY <1>8, <2>1
  <2> QED BY <1>1, <1>3, <1>8, <2>2 DEF IsInjective, n, l
<1>10. q[1] = h
    BY <1>1, <1>8, <1>9
<1>11. Chained(t, q)
  <2>1. ASSUME NEW j \in 1..(Len(q) - 1) PROVE t.obj[q[j]].next = q[j + 1]
    <3>1. j \in 1..(n - 1) /\ j + 1 \in 1..(n - 1) /\ j \in 1..n /\ j + 1 \in 1..n /\ j + 2 \in 1..n
          /\ j + 1 \in 1..(n - 1)
      BY <1>1, <1>8
    <3>2. CASE j + 1 < i
      <4>1. q[j] = l[j] /\ q[j + 1] = l[j + 1] /\ j # i - 1
        BY <1>3, <1>8, <3>1, <3>2
      <4>2. l[j] # p /\ l[j] \in Blocks /\ s.obj[l[j]].next = l[j + 1]
        BY <1>1, <1>3, <1>7, <3>1, <4>1
      <4>3. t.obj[l[j]] = s.obj[l[j]]
        BY <1>5, <4>2
      <4> QED BY <4>1, <4>2, <4>3
    <3>3. CASE j + 1 = i
      <4>1. q[j] = p /\ q[j + 1] = l[i + 1] /\ i \in 1..(n - 1)
        BY <1>3, <1>8, <3>1, <3>3
      <4>2. s.obj[g].next = l[i + 1]
        BY <1>1, <1>3, <4>1
      <4> QED BY <1>5, <4>1, <4>2
    <3>4. CASE j + 1 > i
      <4>1. q[j] = l[j + 1] /\ q[j + 1] = l[(j + 1) + 1] /\ j + 1 # i - 1
        BY <1>3, <1>8, <3>1, <3>4
      <4>2. l[j + 1] # p /\ l[j + 1] \in Blocks /\ s.obj[l[j + 1]].next = l[(j + 1) + 1]
        BY <1>1, <1>3, <1>7, <3>1, <4>1
      <4>3. t.obj[l[j + 1]] = s.obj[l[j + 1]]
        BY <1>5, <4>2
      <4> QED BY <4>1, <4>2, <4>3
    <3> QED BY <1>3, <3>1, <3>2, <3>3, <3>4
  <2>2. ~LiveOn(t, t.obj[q[Len(q)]].next)
    <3>1. \A x : LiveOn(t, x) => LiveOn(s, x)
      BY <1>5 DEF LiveOn
    <3>2. n - 1 \in 1..(n - 1) /\ Len(q) = n - 1 /\ n \in 1..n /\ n - 1 \in 1..n
      BY <1>1, <1>3, <1>8
    <3>3. CASE i = n
      <4>1. q[n - 1] = p /\ g = l[n]
        BY <1>3, <1>8, <3>2, <3>3
      <4> QED BY <1>2, <1>5, <3>1, <3>2, <4>1
    <3>4. CASE i # n
      <4>1. q[n - 1] = l[(n - 1) + 1] /\ (n - 1) + 1 = n /\ n # i - 1
        BY <1>3, <1>8, <3>2, <3>4
      <4>2. l[n] # p /\ l[n] \in Blocks
        BY <1>1, <1>3, <1>7, <3>2, <4>1
      <4>3. t.obj[l[n]] = s.obj[l[n]]
        BY <1>5, <4>2
      <4> QED BY <1>2, <3>1, <3>2, <4>1, <4>3
    <3> QED BY <3>3, <3>4
  <2>3. t.obj[q[1]].kind = s.obj[h].kind
    <3>1. h \in Blocks
      BY <1>1, <1>3
    <3> QED BY <1>6, <1>10, <3>1
  <2>4. ASSUME NEW j \in 2..Len(q)
        PROVE  t.obj[q[j]].kind = IF s.obj[h].kind = "dir" THEN "dext" ELSE "fext"
    <3>1. PICK a \in 2..n : q[j] = l[a]
      <4>1. j \in 1..(n - 1) /\ j \in 2..n /\ j + 1 \in 2..n
        BY <1>1, <1>8
      <4> QED BY <1>8, <4>1
    <3>2. l[a] \in Blocks
      BY <1>1, <3>1
    <3>3. s.obj[l[a]].kind = IF s.obj[h].kind = "dir" THEN "dext" ELSE "fext"
      BY <1>1, <3>1
    <3> QED BY <1>6, <3>1, <3>2, <3>3
  <2>5. s.obj[h].kind \in {"dir", "file"}
    BY <1>1
  <2> QED BY ONLY <2>1, <2>2, <2>3, <2>4, <2>5 DEF Chained
<1>12. PartsIn(k) \subseteq PartsIn(c) /\ PartsIn(c) \subseteq PartsIn(k) \cup {g}
  <2>1. DOMAIN k = DOMAIN c /\ k[h] = q /\ \A x \in DOMAIN c \ {h} : k[x] = c[x]
    BY <1>0, <1>2 DEF Shape
  <2>2. \A x \in DOMAIN c : Range(k[x]) \subseteq Range(c[x]) /\ Range(c[x]) \subseteq Range(k[x]) \cup {g}
    BY <1>8, <2>1 DEF l
  <2> QED BY <2>1, <2>2 DEF PartsIn
<1>13. Referring(t, PartsIn(k), Known(s, c, m))
  <2>1. Referring(s, PartsIn(c), Known(s, c, m)) /\ PartsIn(c) \subseteq Blocks
    BY <1>2, ShapeFacts DEF Sound
  <2>2. \A x \in PartsIn(k) : \/ x \in PartsIn(c) /\ t.obj[x].refs = s.obj[x].refs
                              \/ t.obj[x].refs = <<>>
    BY <1>6, <1>12, <2>1
  <2> QED BY ONLY <2>1, <2>2, ReferringStays
<1>14. Stale(t, PartsIn(k))
  <2>1. ASSUME NEW x \in Blocks \ PartsIn(k), t.obj[x].kind = "dir"
        PROVE  t.obj[x].refs = <<>> /\ t.obj[x].next = FS_NULL
    <3>1. CASE x = g
      <4>1. s.obj[g].kind # "dir"
        BY <1>1, <1>3
      <4> QED BY <1>4, <1>6, <2>1, <3>1, <4>1
    <3>2. CASE x # g
      <4>1. x \notin PartsIn(c) /\ t.obj[x] = s.obj[x]
        BY <1>4, <1>5, <1>12, <3>2
      <4>2. Stale(s, PartsIn(c))
        BY DEF Sound
      <4> QED BY <2>1, <4>1, <4>2 DEF Stale
    <3> QED BY <3>1, <3>2
  <2> QED BY <2>1 DEF Stale
<1>15. Sound(t, k, m)
  <2>1. Range(q) \cap PartsIn(c) \subseteq Range(c[h]) /\ Range(q) \subseteq PartsIn(c)
    BY <1>1, <1>8 DEF l
  <2>2. t \in Disks /\ t.bits = s.bits /\ \A x \in Blocks : t.size[x] = s.size[x]
    BY <1>5
  <2>3. q \in Seq(Blocks) /\ Len(q) > 0 /\ q[1] = h /\ IsInjective(q)
    BY <1>9, <1>10
  <2>4. Sound(s, c, m) /\ h \in DOMAIN c /\ k = [c EXCEPT ![h] = q]
    BY <1>0
  <2>5. \A x \in PartsIn(c) \ Range(c[h]) : t.obj[x] = s.obj[x]
    BY <1>2, <1>4, <1>5, ShapeFacts DEF l
  <2>6. Range(q) \ PartsIn(c) = {}
    BY <2>1
  <2> QED BY ONLY <1>11, <1>13, <1>14, <2>1, <2>2, <2>3, <2>4, <2>5, <2>6, RelinkedOK
<1> QED BY <1>5, <1>8, <1>9, <1>10, <1>15 DEF l, n

LEMMA PrefixFacts ==
    ASSUME NEW l \in Seq(Blocks), IsInjective(l), NEW j \in 1..Len(l), NEW q, q = SubSeq(l, 1, j)
    PROVE  /\ q \in Seq(Blocks) /\ Len(q) = j /\ \A i \in 1..j : q[i] = l[i]
           /\ IsInjective(q) /\ Range(q) \subseteq Range(l)
           /\ \A i \in 1..Len(l) : l[i] \in Range(q) \/ i \in (j + 1)..Len(l)
<1>1. q \in Seq(Blocks) /\ Len(q) = j /\ \A i \in 1..j : q[i] = l[i]
    OBVIOUS
<1>2. DOMAIN q = 1..j /\ DOMAIN l = 1..Len(l) /\ \A i \in 1..j : i \in 1..Len(l)
    BY <1>1
<1>3. IsInjective(q) /\ Range(q) \subseteq Range(l)
    BY <1>1, <1>2 DEF IsInjective, Range
<1>4. ASSUME NEW i \in 1..Len(l) PROVE l[i] \in Range(q) \/ i \in (j + 1)..Len(l)
  <2>1. i \in 1..j \/ i \in (j + 1)..Len(l)
    OBVIOUS
  <2> QED BY <1>1, <1>2, <2>1 DEF Range
<1> QED BY <1>1, <1>3, <1>4

(* The chain of h ends with part j.                                        *)
CutTo(s, t, c, k, m, h, j) ==
    /\ k = [c EXCEPT ![h] = SubSeq(c[h], 1, j)] /\ t.bits = s.bits
    /\ \A x \in Blocks : t.size[x] = s.size[x] \/ (t.size[x] = 0 /\ x \notin PartsIn(k) \cup m)
    /\ \A x \in Blocks \ {c[h][j]} : t.obj[x] = s.obj[x]
    /\ t.obj[c[h][j]].kind = s.obj[c[h][j]].kind /\ t.obj[c[h][j]].refs = s.obj[c[h][j]].refs
    /\ ~LiveOn(t, t.obj[c[h][j]].next)

LEMMA CutShape ==
    ASSUME NEW s, NEW c, NEW m, Sound(s, c, m), NEW h \in DOMAIN c, NEW j \in 1..Len(c[h]),
           NEW k, NEW t \in Disks, CutTo(s, t, c, k, m, h, j)
    PROVE  Sound(t, k, m)
<1> DEFINE q == SubSeq(c[h], 1, j)
<1>0. /\ k = [c EXCEPT ![h] = q] /\ t.bits = s.bits /\ q = SubSeq(c[h], 1, j)
      /\ \A x \in Blocks : t.size[x] = s.size[x] \/ (t.size[x] = 0 /\ x \notin PartsIn(k) \cup m)
      /\ \A x \in Blocks \ {c[h][j]} : t.obj[x] = s.obj[x]
      /\ t.obj[c[h][j]].kind = s.obj[c[h][j]].kind /\ t.obj[c[h][j]].refs = s.obj[c[h][j]].refs
      /\ ~LiveOn(t, t.obj[c[h][j]].next)
    BY DEF CutTo
<1> HIDE DEF q
<1> DEFINE l == c[h]
           n == Len(l)
           p == l[j]
<1>1. /\ l \in Seq(Blocks) /\ n \in Nat /\ n > 0 /\ IsInjective(l) /\ l[1] = h /\ DOMAIN l = 1..n
      /\ \A i \in 1..n : l[i] \in Blocks /\ l[i] \in PartsIn(c)
      /\ \A i \in 1..(n - 1) : s.obj[l[i]].next = l[i + 1]
      /\ s.obj[h].kind \in {"dir", "file"}
      /\ \A i \in 2..n : s.obj[l[i]].kind = IF s.obj[h].kind = "dir" THEN "dext" ELSE "fext"
      /\ Range(l) \subseteq PartsIn(c)
    BY ChainFacts
<1>2. s \in Disks /\ Shape(c)
    BY DEF Sound
<1>3. /\ j \in 1..n /\ q = SubSeq(l, 1, j) /\ p = l[j] /\ p \in Blocks /\ p \in PartsIn(c)
      /\ p \in Range(l)
    BY <1>0, <1>1 DEF Range
<1>4. /\ \A x \in Blocks \ {p} : t.obj[x] = s.obj[x]
      /\ t.obj[p].kind = s.obj[p].kind /\ t.obj[p].refs = s.obj[p].refs
      /\ ~LiveOn(t, t.obj[p].next)
    BY <1>0
<1> HIDE DEF l, n, p
<1>5. \A x \in Blocks : t.obj[x].kind = s.obj[x].kind /\ t.obj[x].refs = s.obj[x].refs
    BY <1>4
<1>6. /\ q \in Seq(Blocks) /\ Len(q) = j /\ \A i \in 1..j : q[i] = l[i]
      /\ IsInjective(q) /\ Range(q) \subseteq Range(l)
      /\ \A i \in 1..n : l[i] \in Range(q) \/ i \in (j + 1)..n
  <2>1. l \in Seq(Blocks) /\ IsInjective(l) /\ j \in 1..Len(l) /\ q = SubSeq(l, 1, j) /\ n = Len(l)
    BY <1>1, <1>3 DEF n
  <2>2. /\ q \in Seq(Blocks) /\ Len(q) = j /\ \A i \in 1..j : q[i] = l[i]
        /\ IsInjective(q) /\ Range(q) \subseteq Range(l)
        /\ \A i \in 1..Len(l) : l[i] \in Range(q) \/ i \in (j + 1)..Len(l)
    BY ONLY <2>1, PrefixFacts
  <2> QED BY ONLY <2>1, <2>2
<1>7. q[1] = h /\ q[j] = p /\ Len(q) > 0
    BY <1>1, <1>3, <1>6
<1>8. Chained(t, q)
  <2>1. ASSUME NEW i \in 1..(Len(q) - 1) PROVE t.obj[q[i]].next = q[i + 1]
    <3>1. i \in 1..j /\ i + 1 \in 1..j /\ i \in 1..(n - 1) /\ i \in 1..n /\ i # j
      BY <1>1, <1>3, <1>6
    <3>2. q[i] = l[i] /\ q[i + 1] = l[i + 1] /\ l[i] \in Blocks /\ s.obj[l[i]].next = l[i + 1]
      BY <1>1, <1>6, <3>1
    <3>3. l[i] # p
      BY <1>1, <1>3, <3>1 DEF IsInjective
    <3>4. t.obj[l[i]] = s.obj[l[i]]
      BY <1>4, <3>2, <3>3
    <3> QED BY <3>2, <3>4
  <2>2. ~LiveOn(t, t.obj[q[Len(q)]].next)
    BY <1>4, <1>6, <1>7
  <2>3. t.obj[q[1]].kind = s.obj[h].kind
    <3>1. h \in Blocks
      BY <1>1
    <3> QED BY <1>5, <1>7, <3>1
  <2>4. ASSUME NEW i \in 2..Len(q)
        PROVE  t.obj[q[i]].kind = IF s.obj[h].kind = "dir" THEN "dext" ELSE "fext"
    <3>1. i \in 1..j /\ i \in 2..n /\ i \in 1..n
      BY <1>1, <1>3, <1>6
    <3>2. q[i] = l[i] /\ l[i] \in Blocks
      BY <1>1, <1>6, <3>1
    <3>3. s.obj[l[i]].kind = IF s.obj[h].kind = "dir" THEN "dext" ELSE "fext"
      BY <1>1, <3>1
    <3> QED BY <1>5, <3>2, <3>3
  <2>5. s.obj[h].kind \in {"dir", "file"}
    BY <1>1
  <2> QED BY ONLY <2>1, <2>2, <2>3, <2>4, <2>5 DEF Chained
<1>9. /\ PartsIn(k) \subseteq PartsIn(c)
      /\ \A x \in PartsIn(c) \ PartsIn(k) : x \in Range(l) \ Range(q)
  <2>1. DOMAIN k = DOMAIN c /\ k[h] = q /\ \A x \in DOMAIN c \ {h} : k[x] = c[x]
    BY <1>0
  <2>2. \A x \in DOMAIN c : Range(k[x]) \subseteq Range(c[x])
    BY <1>6, <2>1 DEF l
  <2>3. ASSUME NEW x \in PartsIn(c) \ PartsIn(k) PROVE x \in Range(l) \ Range(q)
    <3>1. PICK y \in DOMAIN c : x \in Range(c[y])
      BY DEF PartsIn
    <3>2. x \notin Range(k[y]) /\ x \notin Range(k[h])
      BY <2>1 DEF PartsIn
    <3>3. y = h
      BY <2>1, <3>1, <3>2
    <3> QED BY <2>1, <3>1, <3>2, <3>3 DEF l
  <2>4. PartsIn(k) \subseteq PartsIn(c)
    BY <2>1, <2>2 DEF PartsIn
  <2> QED BY <2>3, <2>4
<1>10. Referring(t, PartsIn(k), Known(s, c, m))
  <2>1. Referring(s, PartsIn(c), Known(s, c, m)) /\ PartsIn(c) \subseteq Blocks
    BY <1>2, ShapeFacts DEF Sound
  <2>2. \A x \in PartsIn(k) : \/ x \in PartsIn(c) /\ t.obj[x].refs = s.obj[x].refs
                              \/ t.obj[x].refs = <<>>
    BY <1>5, <1>9, <2>1
  <2> QED BY ONLY <2>1, <2>2, ReferringStays
<1>11. Stale(t, PartsIn(k))
  <2>1. ASSUME NEW x \in Blocks \ PartsIn(k), t.obj[x].kind = "dir"
        PROVE  t.obj[x].refs = <<>> /\ t.obj[x].next = FS_NULL
    <3>1. CASE x \in PartsIn(c)
      <4>1. x \in Range(l) \ Range(q)
        BY <1>9, <2>1, <3>1
      <4>2. PICK i \in 1..n : x = l[i]
        BY <1>1, <4>1 DEF Range
      <4>3. i \in 2..n
        BY <1>3, <1>6, <4>1, <4>2
      <4>4. s.obj[x].kind # "dir"
        BY <1>1, <4>2, <4>3
      <4> QED BY <1>5, <2>1, <4>4
    <3>2. CASE x \notin PartsIn(c)
      <4>1. t.obj[x] = s.obj[x]
        BY <1>3, <1>4, <3>2
      <4>2. Stale(s, PartsIn(c))
        BY DEF Sound
      <4> QED BY <2>1, <3>2, <4>1, <4>2 DEF Stale
    <3> QED BY <3>1, <3>2
  <2> QED BY <2>1 DEF Stale
<1>12. Sound(t, k, m)
  <2>1. Range(q) \cap PartsIn(c) \subseteq Range(c[h]) /\ Range(q) \subseteq PartsIn(c)
    BY <1>1, <1>6 DEF l
  <2>2. /\ t \in Disks /\ t.bits = s.bits
        /\ \A x \in Blocks : t.size[x] = s.size[x] \/ (t.size[x] = 0 /\ x \notin PartsIn(k) \cup m)
    BY <1>0
  <2>3. q \in Seq(Blocks) /\ Len(q) > 0 /\ q[1] = h /\ IsInjective(q)
    BY <1>6, <1>7
  <2>4. Sound(s, c, m) /\ h \in DOMAIN c /\ k = [c EXCEPT ![h] = q]
    BY <1>0
  <2>5. \A x \in PartsIn(c) \ Range(c[h]) : t.obj[x] = s.obj[x]
    BY <1>2, <1>3, <1>4, ShapeFacts DEF l
  <2>6. Range(q) \ PartsIn(c) = {}
    BY <2>1
  <2> QED BY ONLY <1>8, <1>10, <1>11, <2>1, <2>2, <2>3, <2>4, <2>5, <2>6, RelinkedOK
<1> QED BY <1>12

(* A header nothing refers to is left to the delete.                       *)
LEMMA DroppedOK ==
    ASSUME NEW s, NEW c, Quiet(s, c), NEW h \in DOMAIN c, h # Root,
           \A x \in DOMAIN c : h \notin RefsIn(s, c[x]),
           s.obj[h].kind = "dir" => s.obj[h].refs = <<>> /\ s.obj[h].next = FS_NULL,
           NEW k, k = [x \in DOMAIN c \ {h} |-> c[x]]
    PROVE  /\ Quiet(s, k) /\ DOMAIN k = DOMAIN c \ {h} /\ PartsIn(k) \subseteq PartsIn(c)
           /\ Range(c[h]) \cap PartsIn(k) = {}
<1>1. DOMAIN k = DOMAIN c \ {h} /\ \A x \in DOMAIN c \ {h} : k[x] = c[x]
    OBVIOUS
<1>2. Sound(s, c, {}) /\ Shape(c) /\ s \in Disks
    BY DEF Quiet, Sound
<1>3. PartsIn(k) \subseteq PartsIn(c)
    BY <1>1 DEF PartsIn
<1>4. \A x \in PartsIn(c) : x \in PartsIn(k) \/ x \in Range(c[h])
    BY <1>1 DEF PartsIn
<1>5. Range(c[h]) \cap PartsIn(k) = {}
  <2>1. \A x \in DOMAIN k : Range(c[h]) \cap Range(k[x]) = {}
    BY <1>1, <1>2 DEF Shape
  <2> QED BY <2>1 DEF PartsIn
<1>6. Shape(k)
  <2>1. k \in [DOMAIN k -> Seq(Blocks)] /\ Root \in DOMAIN k
    BY <1>1, <1>2 DEF Shape
  <2>2. \A x \in DOMAIN k : Len(k[x]) > 0 /\ k[x][1] = x /\ IsInjective(k[x])
    BY <1>1, <1>2 DEF Shape
  <2>3. \A x, y \in DOMAIN k : x # y => Range(k[x]) \cap Range(k[y]) = {}
    BY <1>1, <1>2 DEF Shape
  <2> QED BY <2>1, <2>2, <2>3 DEF Shape
<1>7. \A x \in DOMAIN k : Chained(s, k[x])
    BY <1>1, <1>2 DEF Sound
<1>8. Room(s, PartsIn(k))
    BY <1>2, <1>3 DEF Sound, Room
<1>9. Referring(s, PartsIn(k), Known(s, k, {}))
  <2>1. Referring(s, PartsIn(c), DOMAIN c)
    BY <1>2 DEF Sound, Known
  <2>2. ASSUME NEW p \in PartsIn(k), NEW i \in 1..Len(s.obj[p].refs)
        PROVE  s.obj[p].refs[i] \in DOMAIN k \cup {FS_NULL}
    <3>1. s.obj[p].refs[i] \in DOMAIN c \cup {FS_NULL}
      BY <1>3, <2>1, <2>2 DEF Referring
    <3>2. PICK x \in DOMAIN c : \E a \in 1..Len(c[x]) : p = c[x][a]
 
      <4>1. Shape(c) /\ p \in PartsIn(c)
        BY <1>2, <1>3
      <4> QED BY ONLY <4>1, ShapeFacts
    <3>3. c[x] \in Seq(Blocks)
      BY <1>2 DEF Shape
    <3>4. s.obj[p].refs[i] \in RefsIn(s, c[x])
      BY <1>2, <2>2, <3>2, <3>3, RefsInFacts
    <3> QED BY <1>1, <3>1, <3>4
  <2>3. \A p, q \in PartsIn(k) : \A i \in 1..Len(s.obj[p].refs), j \in 1..Len(s.obj[q].refs) :
          s.obj[p].refs[i] = s.obj[q].refs[j] /\ s.obj[p].refs[i] # FS_NULL => p = q /\ i = j
    BY <1>3, <2>1 DEF Referring
  <2> QED BY <2>2, <2>3 DEF Referring, Known
<1>10. Stale(s, PartsIn(k))
  <2>1. ASSUME NEW x \in Blocks \ PartsIn(k), s.obj[x].kind = "dir"
        PROVE  s.obj[x].refs = <<>> /\ s.obj[x].next = FS_NULL
    <3>1. CASE x \notin PartsIn(c)
      BY <1>2, <2>1, <3>1 DEF Sound, Stale
    <3>2. CASE x \in PartsIn(c)
      <4>1. x \in Range(c[h])
        BY <1>4, <2>1, <3>2
      <4>2. PICK i \in 1..Len(c[h]) : x = c[h][i]
        BY <1>2, <4>1 DEF Range, Shape
      <4>3. /\ Len(c[h]) \in Nat /\ c[h][1] = h /\ s.obj[h].kind \in {"dir", "file"}
            /\ \A a \in 2..Len(c[h]) :
                  s.obj[c[h][a]].kind = IF s.obj[h].kind = "dir" THEN "dext" ELSE "fext"
        BY <1>2, ChainFacts
      <4>4. i = 1
        <5>1. i = 1 \/ i \in 2..Len(c[h])
          BY <4>3
        <5> QED BY <2>1, <4>2, <4>3, <5>1
      <4> QED BY <2>1, <4>2, <4>3, <4>4
    <3> QED BY <3>1, <3>2
  <2> QED BY <2>1 DEF Stale
<1>11. Sound(s, k, {})
    BY <1>2, <1>6, <1>7, <1>8, <1>9, <1>10 DEF Sound
<1>12. Calm(s, k)
    BY <1>1, <1>3 DEF Quiet, Calm, Ends, Prevs, Full
<1> QED BY <1>1, <1>3, <1>5, <1>11, <1>12 DEF Quiet

(* The header b is written.                                                *)
HeaderMade(s, t, c, k, b, o) ==
    /\ b \notin PartsIn(c) /\ Here(s, b)
    /\ \A x \in PartsIn(c) : Run(b, s.size[b]) \cap Run(x, s.size[x]) = {}
    /\ o \in Contents /\ o.refs = <<>> /\ o.next = FS_NULL /\ o.kind \in {"dir", "file"}
    /\ t = Written(s, Obj(b, o))
    /\ k = [x \in DOMAIN c \cup {b} |-> IF x = b THEN <<b>> ELSE c[x]]

LEMMA NewHeaderOK ==
    ASSUME NEW s, NEW c, NEW b, Sound(s, c, {b}), NEW t, NEW k, NEW o,
           HeaderMade(s, t, c, k, b, o)
    PROVE  /\ Sound(t, k, {b}) /\ Sound(t, k, {})
           /\ Calm(s, c) => Calm(t, k)
<1>0. /\ b \notin PartsIn(c) /\ Here(s, b)
      /\ \A x \in PartsIn(c) : Run(b, s.size[b]) \cap Run(x, s.size[x]) = {}
      /\ o \in Contents /\ o.refs = <<>> /\ o.next = FS_NULL /\ o.kind \in {"dir", "file"}
      /\ t = Written(s, Obj(b, o))
      /\ k = [x \in DOMAIN c \cup {b} |-> IF x = b THEN <<b>> ELSE c[x]]
    BY DEF HeaderMade
<1>1. s \in Disks /\ Shape(c) /\ b \in Blocks /\ DOMAIN c \subseteq PartsIn(c) /\ PartsIn(c) \subseteq Blocks
    BY ShapeFacts DEF Sound
<1>2. b \notin DOMAIN c
    BY <1>0, <1>1
<1>3. /\ t \in Disks /\ t.bits = s.bits /\ t.size = s.size
      /\ t.obj[b] = o /\ \A x \in Blocks \ {b} : t.obj[x] = s.obj[x]
  <2>1. s \in Disks /\ b \in Blocks /\ o \in Contents /\ t = Written(s, Obj(b, o))
    BY <1>0, <1>1
  <2> QED BY ONLY <2>1, PutFacts
<1>4. DOMAIN k = DOMAIN c \cup {b} /\ k[b] = <<b>> /\ \A x \in DOMAIN c : k[x] = c[x]
    BY <1>0, <1>2
<1>5. Range(<<b>>) = {b} /\ Len(<<b>>) = 1 /\ <<b>>[1] = b /\ IsInjective(<<b>>) /\ <<b>> \in Seq(Blocks)
    BY <1>1 DEF Range, IsInjective
<1>6. PartsIn(k) = PartsIn(c) \cup {b}
  <2>1. \A x \in DOMAIN c : Range(k[x]) = Range(c[x])
    BY <1>4
  <2>2. Range(k[b]) = {b}
    BY <1>4, <1>5
  <2>3. PartsIn(c) \subseteq PartsIn(k) /\ b \in PartsIn(k)
    BY <1>4, <2>1, <2>2 DEF PartsIn
  <2>4. \A x \in PartsIn(k) : x \in PartsIn(c) \cup {b}
    <3>1. ASSUME NEW x \in PartsIn(k) PROVE x \in PartsIn(c) \cup {b}
      <4>1. PICK y \in DOMAIN k : x \in Range(k[y])
        BY <3>1 DEF PartsIn
      <4>2. CASE y = b
        BY <2>2, <4>1, <4>2
      <4>3. CASE y # b
        BY <1>4, <2>1, <4>1, <4>3 DEF PartsIn
      <4> QED BY <4>2, <4>3
    <3> QED BY <3>1
  <2> QED BY <2>3, <2>4
<1>7. \A x \in PartsIn(c) : x \in Blocks /\ t.obj[x] = s.obj[x]
    BY <1>0, <1>1, <1>3
<1>8. Shape(k)
  <2>1. k \in [DOMAIN k -> Seq(Blocks)] /\ Root \in DOMAIN k
    BY <1>0, <1>1, <1>4, <1>5 DEF Shape
  <2>2. \A x \in DOMAIN k : Len(k[x]) > 0 /\ k[x][1] = x /\ IsInjective(k[x])
    BY <1>1, <1>4, <1>5 DEF Shape
  <2>3. ASSUME NEW x \in DOMAIN k, NEW y \in DOMAIN k, x # y PROVE Range(k[x]) \cap Range(k[y]) = {}
    <3>1. \A z \in DOMAIN c : b \notin Range(k[z])
      BY <1>0, <1>4 DEF PartsIn
    <3>2. CASE x \in DOMAIN c /\ y \in DOMAIN c
      BY <1>1, <1>4, <2>3, <3>2 DEF Shape
    <3>3. Range(k[b]) = {b} /\ \A z \in DOMAIN c : Range(k[z]) = Range(c[z])
      BY <1>4, <1>5
    <3>4. CASE x = b
      BY <1>4, <2>3, <3>1, <3>3, <3>4
    <3>5. CASE y = b
      BY <1>4, <2>3, <3>1, <3>3, <3>5
    <3> QED BY <1>4, <3>2, <3>4, <3>5
  <2> QED BY <2>1, <2>2, <2>3 DEF Shape
<1>9. ASSUME NEW h \in DOMAIN k PROVE Chained(t, k[h])
  <2>1. CASE h = b
    <3>1. ~LiveOn(t, FS_NULL)
      BY DEF LiveOn, Blocks, FS_NULL
    <3> DEFINE q == <<b>>
    <3>2. Len(q) = 1 /\ q[1] = b
      OBVIOUS
    <3> HIDE DEF q
    <3>3. Chained(t, q)
      BY <1>0, <1>3, <3>1, <3>2 DEF Chained
    <3> QED BY <1>4, <2>1, <3>3 DEF q
  <2>2. CASE h # b
    <3>1. h \in DOMAIN c /\ k[h] = c[h]
      BY <1>4, <2>2
    <3>2. c[h] \in Seq(Blocks) /\ Len(c[h]) > 0 /\ Chained(s, c[h])
      BY <1>1, <3>1 DEF Shape, Sound
    <3>3. \A i \in 1..Len(c[h]) : t.obj[c[h][i]] = s.obj[c[h][i]]
      BY <1>1, <1>7, <3>1, InChain
    <3>4. \A x : LiveOn(t, x) => LiveOn(s, x)
      BY <1>3 DEF LiveOn
    <3>5. \A i \in 1..Len(c[h]) : /\ t.obj[c[h][i]].kind = s.obj[c[h][i]].kind
                                  /\ t.obj[c[h][i]].next = s.obj[c[h][i]].next
      BY <3>3
    <3>6. Chained(t, c[h])
      BY ONLY <3>2, <3>4, <3>5, ChainedStays
    <3> QED BY <3>1, <3>6
  <2> QED BY <2>1, <2>2
<1>10. Room(t, PartsIn(k))
  <2>1. \A x \in PartsIn(c) : Here(s, x)
    BY DEF Sound, Room
  <2>2. \A x \in PartsIn(k) : Here(t, x)
    BY <1>0, <1>3, <1>6, <2>1 DEF Here, LiveOn
  <2>3. ASSUME NEW x \in PartsIn(k), NEW y \in PartsIn(k), x # y
        PROVE  Run(x, t.size[x]) \cap Run(y, t.size[y]) = {}
    <3>1. CASE x \in PartsIn(c) /\ y \in PartsIn(c)
      BY <1>3, <2>3, <3>1 DEF Sound, Room
    <3>2. CASE x = b
      BY <1>0, <1>3, <1>6, <2>3, <3>2
    <3>3. CASE y = b
      BY <1>0, <1>3, <1>6, <2>3, <3>3
    <3> QED BY <1>6, <3>1, <3>2, <3>3
  <2> QED BY <2>2, <2>3 DEF Room
<1>11. Referring(t, PartsIn(k), DOMAIN k)
  <2>1. Referring(s, PartsIn(c), Known(s, c, {b})) /\ Known(s, c, {b}) \subseteq DOMAIN k
    BY <1>4 DEF Sound, Known
  <2>2. \A x \in PartsIn(k) : \/ x \in PartsIn(c) /\ t.obj[x].refs = s.obj[x].refs
                              \/ t.obj[x].refs = <<>>
    BY <1>0, <1>3, <1>6, <1>7
  <2> QED BY ONLY <2>1, <2>2, ReferringStays
<1>12. Stale(t, PartsIn(k))
  <2>1. \A x \in Blocks \ PartsIn(k) : x \notin PartsIn(c) /\ t.obj[x] = s.obj[x]
    BY <1>3, <1>6
  <2>2. Stale(s, PartsIn(c))
    BY DEF Sound
  <2> QED BY <2>1, <2>2 DEF Stale
<1>13. Sound(t, k, {b}) /\ Sound(t, k, {})
  <2>1. Known(t, k, {b}) = DOMAIN k /\ Known(t, k, {}) = DOMAIN k
    BY <1>4 DEF Known
  <2>2. {b} \subseteq Blocks /\ {b} \cap PartsIn(k) \subseteq DOMAIN k
    BY <1>1, <1>4
  <2> QED BY <1>3, <1>8, <1>9, <1>10, <1>11, <1>12, <2>1, <2>2 DEF Sound
<1>14. ASSUME Calm(s, c) PROVE Calm(t, k)
  <2>1. Calm(t, c)
    BY <1>1, <1>7, <1>14, CalmSame
  <2>2. Ends(t, k)
    BY <1>0, <1>3, <1>4, <1>5, <2>1 DEF Calm, Ends
  <2>3. Prevs(t, k)
    <3>1. \A i \in 2..Len(<<b>>) : FALSE
      BY <1>5
    <3> QED BY <1>4, <2>1, <3>1 DEF Calm, Prevs
  <2>4. Full(t, k)
    <3>1. \A i \in 1..Len(t.obj[b].refs) : FALSE
      BY <1>0, <1>3
    <3>2. t.obj[b].kind # "dext"
      BY <1>0, <1>3
    <3> QED BY <1>6, <2>1, <3>1, <3>2 DEF Calm, Full
  <2> QED BY <2>1, <2>2, <2>3, <2>4 DEF Calm
<1> QED BY <1>13, <1>14

-----------------------------------------------------------------------------
(***************************************************************************)
(* Writes in a row.  The writes ws take disk s to disk t, and every disk   *)
(* on the way is sound; unless z holds, none of them changes the size of a *)
(* part that is in use.                                                    *)
(***************************************************************************)
Writes ==
    {Take(b, n) : b \in Blocks, n \in Nat} \cup {Give(b, n) : b \in Blocks, n \in Nat} \cup
    {Size(b, n) : b \in Blocks, n \in Nat} \cup {Obj(b, o) : b \in Blocks, o \in Contents}

Fits(s, w, m, z) ==
    \E c : Sound(s, c, m) /\ (w.to = "size" /\ ~z => w.at \notin PartsIn(c))

Fine(s, m) == \E c : Sound(s, c, m)

IsTrace(ds, s, ws, t, m, z) ==
    /\ ds \in [0..Len(ws) -> Disks] /\ ds[0] = s /\ ds[Len(ws)] = t
    /\ \A i \in 1..Len(ws) : ds[i] = Written(ds[i - 1], ws[i]) /\ Fits(ds[i - 1], ws[i], m, z)
    /\ \A i \in 0..Len(ws) : Fine(ds[i], m)

Runs(s, ws, t, m, z) == ws \in Seq(Writes) /\ \E ds : IsTrace(ds, s, ws, t, m, z)

LEMMA WritesFacts ==
    /\ \A b \in Blocks, n \in Nat : /\ Take(b, n) \in Writes /\ Give(b, n) \in Writes
                                    /\ Size(b, n) \in Writes
    /\ \A b \in Blocks, o \in Contents : Obj(b, o) \in Writes
    BY DEF Writes

LEMMA FineIsDisk ==
    ASSUME NEW s, NEW m, Fine(s, m)
    PROVE  s \in Disks
    BY DEF Fine, Sound

LEMMA RunsNil ==
    ASSUME NEW s, NEW m, NEW z, Fine(s, m)
    PROVE  Runs(s, <<>>, s, m, z)
<1> DEFINE ds == [i \in 0..0 |-> s]
<1>1. s \in Disks
    BY FineIsDisk
<1>2. ds \in [0..Len(<<>>) -> Disks] /\ ds[0] = s /\ \A i \in 0..0 : i = 0
    BY <1>1
<1>3. Len(<<>>) = 0 /\ \A i \in 1..0 : FALSE
    OBVIOUS
<1> HIDE DEF ds
<1>4. IsTrace(ds, s, <<>>, s, m, z)
    BY <1>2, <1>3 DEF IsTrace
<1>5. <<>> \in Seq(Writes)
    OBVIOUS
<1> QED BY <1>4, <1>5 DEF Runs

LEMMA RunsOne ==
    ASSUME NEW s, NEW m, NEW z, NEW w \in Writes, Fits(s, w, m, z),
           NEW t, t = Written(s, w), Fine(t, m)
    PROVE  Runs(s, <<w>>, t, m, z)
<1> DEFINE ds == [i \in 0..1 |-> IF i = 0 THEN s ELSE t]
           ws == <<w>>
<1>1. Fine(s, m)
    BY DEF Fits, Fine
<1>2. s \in Disks /\ t \in Disks
    BY <1>1, FineIsDisk
<1>3. ws \in Seq(Writes) /\ Len(ws) = 1 /\ ws[1] = w
    OBVIOUS
<1>4. ds \in [0..1 -> Disks] /\ ds[0] = s /\ ds[1] = t
    BY <1>2
<1>5. (\A i \in 1..1 : i = 1 /\ i - 1 = 0) /\ \A i \in 0..1 : i = 0 \/ i = 1
    OBVIOUS
<1> HIDE DEF ds, ws
<1>6. \A i \in 1..1 : ds[i] = Written(ds[i - 1], ws[i]) /\ Fits(ds[i - 1], ws[i], m, z)
    BY <1>3, <1>4, <1>5
<1>7. \A i \in 0..1 : Fine(ds[i], m)
    BY <1>1, <1>4, <1>5
<1>8. IsTrace(ds, s, ws, t, m, z)
    BY <1>3, <1>4, <1>6, <1>7 DEF IsTrace
<1>9. Runs(s, ws, t, m, z)
    BY <1>3, <1>8 DEF Runs
<1> QED BY <1>9 DEF ws

LEMMA RunsConcat ==
    ASSUME NEW s, NEW u, NEW t, NEW a, NEW b, NEW m, NEW z,
           Runs(s, a, u, m, z), Runs(u, b, t, m, z)
    PROVE  Runs(s, a \o b, t, m, z)
<1>1. PICK d : IsTrace(d, s, a, u, m, z)
    BY DEF Runs
<1>2. PICK e : IsTrace(e, u, b, t, m, z)
    BY DEF Runs
<1> DEFINE w == a \o b
           n == Len(a)
           k == Len(b)
           g == [i \in 0..(n + k) |-> IF i <= n THEN d[i] ELSE e[i - n]]
<1>3. a \in Seq(Writes) /\ b \in Seq(Writes) /\ n \in Nat /\ k \in Nat
    BY DEF Runs
<1>4. /\ w \in Seq(Writes) /\ Len(w) = n + k /\ \A i \in 1..n : w[i] = a[i]
      /\ \A i \in (n + 1)..(n + k) : w[i] = b[i - n]
    BY <1>3
<1>5. /\ d \in [0..n -> Disks] /\ d[0] = s /\ d[n] = u
      /\ \A i \in 1..n : d[i] = Written(d[i - 1], a[i]) /\ Fits(d[i - 1], a[i], m, z)
      /\ \A i \in 0..n : Fine(d[i], m)
    BY <1>1 DEF IsTrace
<1>6. /\ e \in [0..k -> Disks] /\ e[0] = u /\ e[k] = t
      /\ \A i \in 1..k : e[i] = Written(e[i - 1], b[i]) /\ Fits(e[i - 1], b[i], m, z)
      /\ \A i \in 0..k : Fine(e[i], m)
    BY <1>2 DEF IsTrace
<1> HIDE DEF w, n, k
<1>7. ASSUME NEW i \in n..(n + k) PROVE g[i] = e[i - n] /\ i - n \in 0..k
  <2>1. i - n \in 0..k /\ i \in 0..(n + k)
    BY <1>3
  <2>2. CASE i = n
    BY <1>3, <1>5, <1>6, <2>1, <2>2
  <2>3. CASE i # n
    BY <1>3, <2>1, <2>3
  <2> QED BY <2>1, <2>2, <2>3
<1>8. \A i \in 0..n : g[i] = d[i]
    BY <1>3
<1>9. \A i \in 0..(n + k) : i \in 0..n \/ i \in n..(n + k)
    BY <1>3
<1>10. g \in [0..(n + k) -> Disks]
  <2>1. \A i \in 0..(n + k) : g[i] \in Disks
    BY <1>5, <1>6, <1>7, <1>8, <1>9
  <2> QED BY <2>1
<1> HIDE DEF g
<1>11. \A i \in 0..(n + k) : Fine(g[i], m)
    BY <1>5, <1>6, <1>7, <1>8, <1>9
<1>12. ASSUME NEW i \in 1..(n + k)
       PROVE  g[i] = Written(g[i - 1], w[i]) /\ Fits(g[i - 1], w[i], m, z)
  <2>1. CASE i \in 1..n
    <3>1. i \in 0..n /\ i - 1 \in 0..n
      BY <1>3, <2>1
    <3> QED BY <1>4, <1>5, <1>8, <2>1, <3>1
  <2>2. CASE i \notin 1..n
    <3>1. i \in n..(n + k) /\ i - 1 \in n..(n + k) /\ i \in (n + 1)..(n + k)
      BY <1>3, <2>2
    <3>2. PICK j \in 1..k : j = i - n /\ j - 1 = (i - 1) - n
      BY <1>3, <3>1
    <3>3. g[i] = e[j] /\ g[i - 1] = e[j - 1] /\ w[i] = b[j]
      BY <1>4, <1>7, <3>1, <3>2
    <3> QED BY <1>6, <3>3
  <2> QED BY <2>1, <2>2
<1>13. g[0] = s /\ g[n + k] = t
  <2>1. 0 \in 0..n /\ n + k \in n..(n + k) /\ (n + k) - n = k
    BY <1>3
  <2> QED BY <1>5, <1>6, <1>7, <1>8, <2>1
<1>14. IsTrace(g, s, w, t, m, z)
    BY <1>4, <1>10, <1>11, <1>12, <1>13 DEF IsTrace
<1>15. Runs(s, w, t, m, z)
    BY <1>4, <1>14 DEF Runs
<1> QED BY <1>15 DEF w

(* The first write, and the others.                                        *)
LEMMA RunsHead ==
    ASSUME NEW s, NEW ws, NEW t, NEW m, NEW z, Runs(s, ws, t, m, z), ws # <<>>
    PROVE  /\ Fits(s, Head(ws), m, z) /\ Fine(Written(s, Head(ws)), m)
           /\ Runs(Written(s, Head(ws)), Tail(ws), t, m, z)
<1>1. PICK d : IsTrace(d, s, ws, t, m, z)
    BY DEF Runs
<1> DEFINE n == Len(ws)
           w == Tail(ws)
           g == [i \in 0..(n - 1) |-> d[i + 1]]
<1>2. ws \in Seq(Writes) /\ n \in Nat /\ n > 0
    BY DEF Runs
<1>3. /\ w \in Seq(Writes) /\ Len(w) = n - 1 /\ \A i \in 1..(n - 1) : w[i] = ws[i + 1]
      /\ Head(ws) = ws[1]
    BY <1>2
<1>4. /\ d \in [0..n -> Disks] /\ d[0] = s /\ d[n] = t
      /\ \A i \in 1..n : d[i] = Written(d[i - 1], ws[i]) /\ Fits(d[i - 1], ws[i], m, z)
      /\ \A i \in 0..n : Fine(d[i], m)
    BY <1>1 DEF IsTrace
<1> HIDE DEF n, w
<1>5. d[1] = Written(s, Head(ws)) /\ Fits(s, Head(ws), m, z) /\ Fine(d[1], m)
  <2>1. 1 \in 1..n /\ 1 \in 0..n /\ 1 - 1 = 0
    BY <1>2
  <2> QED BY <1>3, <1>4, <2>1
<1>6. \A i \in 0..(n - 1) : g[i] = d[i + 1] /\ i + 1 \in 0..n
    BY <1>2
<1>7. g \in [0..(n - 1) -> Disks]
    BY <1>4, <1>6
<1> HIDE DEF g
<1>8. g[0] = d[1] /\ g[n - 1] = t
  <2>1. 0 \in 0..(n - 1) /\ n - 1 \in 0..(n - 1) /\ (n - 1) + 1 = n /\ 0 + 1 = 1
    BY <1>2
  <2> QED BY <1>4, <1>6, <2>1
<1>9. ASSUME NEW i \in 1..(n - 1)
      PROVE  g[i] = Written(g[i - 1], w[i]) /\ Fits(g[i - 1], w[i], m, z)
  <2>1. i \in 0..(n - 1) /\ i - 1 \in 0..(n - 1) /\ i + 1 \in 1..n /\ (i + 1) - 1 = i /\ (i - 1) + 1 = i
    BY <1>2
  <2> QED BY <1>3, <1>4, <1>6, <2>1
<1>10. \A i \in 0..(n - 1) : Fine(g[i], m)
    BY <1>4, <1>6
<1>11. IsTrace(g, d[1], w, t, m, z)
    BY <1>3, <1>7, <1>8, <1>9, <1>10 DEF IsTrace
<1>12. Runs(d[1], w, t, m, z)
    BY <1>3, <1>11 DEF Runs
<1> QED BY <1>5, <1>12 DEF w

LEMMA RunsFine ==
    ASSUME NEW s, NEW ws, NEW t, NEW m, NEW z, Runs(s, ws, t, m, z)
    PROVE  Fine(s, m) /\ Fine(t, m) /\ (ws = <<>> => s = t) /\ ws \in Seq(Writes)
<1>1. PICK d : IsTrace(d, s, ws, t, m, z)
    BY DEF Runs
<1>2. ws \in Seq(Writes) /\ Len(ws) \in Nat
    BY DEF Runs
<1>3. 0 \in 0..Len(ws) /\ Len(ws) \in 0..Len(ws)
    BY <1>2
<1>4. ws = <<>> => Len(ws) = 0
    OBVIOUS
<1> QED BY <1>1, <1>2, <1>3, <1>4 DEF IsTrace

(* The writes of frees that leave the parts of c alone.                    *)
Harmless(s, c) ==
    {Size(b, 0) : b \in Blocks \ PartsIn(c)} \cup
    {w \in {Give(b, n) : b \in Blocks, n \in Nat} :
        \A p \in PartsIn(c) : Run(p, s.size[p]) \cap Run(w.at, w.v) = {}}

LEMMA HarmlessStep ==
    ASSUME NEW s, NEW c, Sound(s, c, {}), NEW r, NEW w \in Harmless(r, c),
           \A p \in PartsIn(c) : r.size[p] = s.size[p], NEW z, NEW t, t = Written(s, w)
    PROVE  /\ Runs(s, <<w>>, t, {}, z) /\ Sound(t, c, {}) /\ t.obj = s.obj
           /\ \A p \in PartsIn(c) : t.size[p] = s.size[p]
<1>0. s \in Disks /\ 0 \in 0..block_count /\ 0 \in Nat
    BY BaseFSAssumption DEF Sound
<1>1. CASE \E b \in Blocks \ PartsIn(c) : w = Size(b, 0)
  <2>1. PICK b \in Blocks \ PartsIn(c) : w = Size(b, 0)
    BY <1>1
  <2>2. Sound(t, c, {})
    BY <2>1, UnsizeOK
  <2>3. t.obj = s.obj /\ \A x \in Blocks \ {b} : t.size[x] = s.size[x]
    BY <1>0, <2>1, SizedFacts
  <2>4. w \in Writes /\ w.at = b
    BY <1>0, <2>1, WritesFacts DEF Size
  <2>5. Fits(s, w, {}, z) /\ Fine(t, {})
    BY <2>1, <2>2, <2>4 DEF Fits, Fine
  <2>6. \A p \in PartsIn(c) : p \in Blocks \ {b}
    BY <2>1, ShapeFacts DEF Sound
  <2> QED BY <2>2, <2>3, <2>4, <2>5, <2>6, RunsOne
<1>2. CASE \E b \in Blocks, n \in Nat :
              w = Give(b, n) /\ \A p \in PartsIn(c) : Run(p, r.size[p]) \cap Run(w.at, w.v) = {}
  <2>1. PICK b \in Blocks, n \in Nat :
              w = Give(b, n) /\ \A p \in PartsIn(c) : Run(p, r.size[p]) \cap Run(w.at, w.v) = {}
    BY <1>2
  <2>2. w.at = b /\ w.v = n /\ w.to = "give" /\ w \in Writes
    BY <2>1, WritesFacts DEF Give
  <2>3. \A p \in PartsIn(c) : Run(p, s.size[p]) \cap Run(b, n) = {}
    BY <2>1, <2>2
  <2>4. Sound(t, c, {})
    BY <2>1, <2>3, GiveOK
  <2>5. t.obj = s.obj /\ t.size = s.size
    BY <1>0, <2>1, GivenFacts
  <2>6. Fits(s, w, {}, z) /\ Fine(t, {})
    BY <2>2, <2>4 DEF Fits, Fine
  <2> QED BY <2>2, <2>4, <2>5, <2>6, RunsOne
<1> QED BY <1>1, <1>2 DEF Harmless

LEMMA PrefixStep ==
    ASSUME NEW S, NEW q \in Seq(S), NEW n \in 1..Len(q)
    PROVE  SubSeq(q, 1, n) = SubSeq(q, 1, n - 1) \o <<q[n]>>
<1> DEFINE a == SubSeq(q, 1, n)
           b == SubSeq(q, 1, n - 1)
           e == <<q[n]>>
<1>1. a \in Seq(S) /\ Len(a) = n /\ \A i \in 1..n : a[i] = q[i]
    OBVIOUS
<1>2. b \in Seq(S) /\ Len(b) = n - 1 /\ \A i \in 1..(n - 1) : b[i] = q[i]
    OBVIOUS
<1>3. e \in Seq(S) /\ Len(e) = 1 /\ e[1] = q[n]
    OBVIOUS
<1> HIDE DEF a, b, e
<1>4. b \o e \in Seq(S) /\ Len(b \o e) = n /\ \A i \in 1..n : (b \o e)[i] = q[i]
  <2>0. n \in Nat /\ n >= 1
    OBVIOUS
  <2>1. n \in Nat /\ n >= 1 /\ b \o e \in Seq(S) /\ Len(b \o e) = n
    <3>0. \A x, y \in Seq(S) : x \o y \in Seq(S) /\ Len(x \o y) = Len(x) + Len(y)
      OBVIOUS
    <3>1. b \o e \in Seq(S) /\ Len(b \o e) = Len(b) + Len(e)
      BY ONLY <1>2, <1>3, <3>0
    <3> QED BY <1>2, <1>3, <2>0, <3>1
  <2>2. \A i \in 1..(n - 1) : (b \o e)[i] = b[i]
    BY <1>2, <1>3
  <2>3. (b \o e)[n] = e[1]
    BY <1>2, <1>3, <2>1
  <2>4. \A i \in 1..n : i = n \/ i \in 1..(n - 1)
    BY <2>1
  <2> QED BY <1>2, <1>3, <2>1, <2>2, <2>3, <2>4
<1> DEFINE d == b \o e
<1>6. d \in Seq(S) /\ Len(d) = n /\ \A i \in 1..n : d[i] = q[i]
    BY <1>4
<1> HIDE DEF d
<1>7. a = [i \in 1..n |-> q[i]] /\ d = [i \in 1..n |-> q[i]]
    BY <1>1, <1>6
<1>5. a = b \o e
    BY <1>7 DEF d
<1> QED BY <1>5 DEF a, b, e

(* The parts of c are of the same sizes on s and t.                        *)
SameSizes(s, t, c) == \A p \in PartsIn(c) : s.size[p] = t.size[p]

LEMMA HarmlessRuns ==
    ASSUME NEW s, NEW c, Sound(s, c, {}), NEW r, SameSizes(r, s, c),
           NEW ws \in Seq(Harmless(r, c)), NEW z
    PROVE  \E t : Runs(s, ws, t, {}, z) /\ Sound(t, c, {}) /\ t.obj = s.obj /\ SameSizes(t, s, c)
<1> USE DEF SameSizes
<1> DEFINE Right(n) == \E t : /\ Runs(s, SubSeq(ws, 1, n), t, {}, z) /\ Sound(t, c, {})
                              /\ t.obj = s.obj /\ \A p \in PartsIn(c) : t.size[p] = s.size[p]
           T == {n \in Nat : n <= Len(ws) /\ ~Right(n)}
<1>1. Len(ws) \in Nat /\ \A n \in 1..Len(ws) : ws[n] \in Harmless(r, c)
    OBVIOUS
<1>2. Right(0)
  <2>1. SubSeq(ws, 1, 0) = <<>>
    OBVIOUS
  <2>2. Runs(s, <<>>, s, {}, z)
    BY RunsNil DEF Fine
  <2> QED BY <2>1, <2>2
<1>3. ASSUME NEW n \in Nat, n + 1 <= Len(ws), Right(n) PROVE Right(n + 1)
  <2>1. PICK u : /\ Runs(s, SubSeq(ws, 1, n), u, {}, z) /\ Sound(u, c, {})
                 /\ u.obj = s.obj /\ \A p \in PartsIn(c) : u.size[p] = s.size[p]
    BY <1>3
  <2> DEFINE w == ws[n + 1]
             t == Written(u, w)
  <2>2. w \in Harmless(r, c) /\ n + 1 \in 1..Len(ws) /\ (n + 1) - 1 = n
    BY <1>1, <1>3
  <2>3. SubSeq(ws, 1, n + 1) = SubSeq(ws, 1, n) \o <<w>>
    BY <2>2, PrefixStep
  <2>4. \A p \in PartsIn(c) : r.size[p] = u.size[p]
    BY <2>1
  <2> HIDE DEF w
  <2>5. /\ Runs(u, <<w>>, t, {}, z) /\ Sound(t, c, {}) /\ t.obj = u.obj
        /\ \A p \in PartsIn(c) : t.size[p] = u.size[p]
    BY <2>1, <2>2, <2>4, HarmlessStep
  <2> HIDE DEF t
  <2>6. Runs(s, SubSeq(ws, 1, n + 1), t, {}, z)
    BY <2>1, <2>3, <2>5, RunsConcat
  <2> QED BY <2>1, <2>5, <2>6
<1> HIDE DEF Right
<1>4. T = {}
  <2>1. SUFFICES ASSUME T # {} PROVE FALSE
    OBVIOUS
  <2>2. T \subseteq Nat
    OBVIOUS
  <2>3. PICK n \in T : \A k \in T : n <= k
    BY <2>1, <2>2, NatMin
  <2>4. n \in Nat /\ n <= Len(ws) /\ ~Right(n)
    OBVIOUS
  <2>5. n # 0
    BY <1>2, <2>4
  <2>6. n - 1 \in Nat /\ n - 1 <= Len(ws) /\ ~(n <= n - 1) /\ (n - 1) + 1 = n
    BY <1>1, <2>4, <2>5
  <2>7. Right(n - 1)
    BY <2>3, <2>6
  <2> QED BY <1>3, <2>4, <2>6, <2>7
<1>5. Right(Len(ws))
    BY <1>1, <1>4
<1>6. SubSeq(ws, 1, Len(ws)) = ws
    OBVIOUS
<1> QED BY <1>5, <1>6 DEF Right

(* Freeing what c does not use.                                            *)
LEMMA FreeHarmless ==
    ASSUME NEW c, NEW b \in Blocks, disk \in Disks, b \notin PartsIn(c),
           \A p \in PartsIn(c) : Run(p, disk.size[p]) \cap Run(b, disk.size[b]) = {}
    PROVE  /\ fs_free(b) \in Seq(Harmless(disk, c)) /\ fs_free(b) # <<>>
           /\ fs_free(b)[1] = Size(b, 0)
<1> DEFINE n == disk.size[b]
           H == Harmless(disk, c)
<1>1. n \in Nat
    BY BaseFSAssumption, DiskFacts
<1>2. Size(b, 0) \in H
    BY DEF Harmless
<1>3. Give(b, n) \in H
  <2> DEFINE w == Give(b, n)
  <2>1. w.at = b /\ w.v = n /\ w \in {Give(x, y) : x \in Blocks, y \in Nat}
    BY <1>1 DEF Give
  <2> HIDE DEF w
  <2>2. w \in {x \in {Give(y, v) : y \in Blocks, v \in Nat} :
                \A p \in PartsIn(c) : Run(p, disk.size[p]) \cap Run(x.at, x.v) = {}}
    BY <2>1
  <2>3. w \in H
    BY <2>2 DEF Harmless
  <2> QED BY <2>3 DEF w
<1> HIDE DEF H
<1>4. <<Size(b, 0), Give(b, n)>> \in Seq(H)
    BY <1>2, <1>3
<1> QED BY <1>4 DEF fs_free, H

LEMMA FreeAllHarmless ==
    ASSUME NEW c, NEW bs \in Seq(Blocks), disk \in Disks,
           \A i \in 1..Len(bs) : /\ bs[i] \notin PartsIn(c)
                                 /\ \A p \in PartsIn(c) :
                                       Run(p, disk.size[p]) \cap Run(bs[i], disk.size[bs[i]]) = {}
    PROVE  /\ FreeAll(bs) \in Seq(Harmless(disk, c))
           /\ Len(bs) > 0 => FreeAll(bs) # <<>> /\ FreeAll(bs)[1] = Size(bs[1], 0)
<1> DEFINE H == Harmless(disk, c)
           l == [i \in DOMAIN bs |-> fs_free(bs[i])]
<1>1. ASSUME NEW i \in 1..Len(bs)
      PROVE  fs_free(bs[i]) \in Seq(H) /\ fs_free(bs[i]) # <<>> /\ fs_free(bs[i])[1] = Size(bs[i], 0)
  <2>1. bs[i] \in Blocks
    OBVIOUS
  <2>2. /\ bs[i] \in Blocks /\ disk \in Disks /\ bs[i] \notin PartsIn(c)
        /\ \A p \in PartsIn(c) : Run(p, disk.size[p]) \cap Run(bs[i], disk.size[bs[i]]) = {}
    BY <2>1
  <2> QED BY ONLY <2>2, FreeHarmless
<1>2. DOMAIN bs = 1..Len(bs) /\ Len(bs) \in Nat
    OBVIOUS
<1> HIDE DEF H
<1>3. l \in [1..Len(bs) -> Seq(H)] /\ \A i \in 1..Len(bs) : l[i] = fs_free(bs[i])
    BY <1>1, <1>2
<1>4. FreeAll(bs) = FlattenSeq(l)
    BY DEF FreeAll
<1> HIDE DEF l
<1>5. l \in Seq(Seq(H)) /\ Len(l) = Len(bs)
    BY <1>2, <1>3, SeqIs
<1>6. FlattenSeq(l) \in Seq(H)
    BY <1>5, FlattenFacts
<1>7. ASSUME Len(bs) > 0 PROVE FlattenSeq(l) # <<>> /\ FlattenSeq(l)[1] = Size(bs[1], 0)
  <2>1. 1 \in 1..Len(bs) /\ Len(l) # 0
    BY <1>2, <1>5, <1>7
  <2>2. l[1] # <<>> /\ l[1][1] = Size(bs[1], 0)
    BY <1>1, <1>3, <2>1
  <2> QED BY <1>5, <2>1, <2>2, FlattenHead
<1> QED BY <1>4, <1>6, <1>7 DEF H

-----------------------------------------------------------------------------
(***************************************************************************)
(* What the writes of an operation come to.                                *)
(***************************************************************************)
LEMMA CalmPut ==
    ASSUME NEW s, NEW c, Shape(c), Calm(s, c), NEW t,
           \A p \in PartsIn(c) : t.obj[p].next = s.obj[p].next /\ t.obj[p].prev = s.obj[p].prev,
           \A p \in PartsIn(c) :
              /\ \A i \in 1..Len(t.obj[p].refs) : t.obj[p].refs[i] # FS_NULL
              /\ t.obj[p].kind = "dext" => t.obj[p].refs # <<>>,
           \A x \in DOMAIN c : t.obj[x].kind = s.obj[x].kind /\ t.obj[x].parent = s.obj[x].parent
    PROVE  Calm(t, c)
<1>1. Ends(t, c)
    BY LastFacts DEF Calm, Ends
<1>2. Prevs(t, c)
  <2>1. ASSUME NEW h \in DOMAIN c, NEW i \in 2..Len(c[h]) PROVE t.obj[c[h][i]].prev = c[h][i - 1]
    <3>1. i \in 1..Len(c[h])
      OBVIOUS
    <3>2. c[h][i] \in PartsIn(c)
      BY <3>1, InChain
    <3>3. s.obj[c[h][i]].prev = c[h][i - 1]
      BY DEF Calm, Prevs
    <3> QED BY <3>2, <3>3
  <2> QED BY <2>1 DEF Prevs
<1>3. Full(t, c)
    BY DEF Full
<1>4. RootOK(t)
    BY RootStays DEF Calm
<1> QED BY <1>1, <1>2, <1>3, <1>4 DEF Calm

(* r goes from the references of the parts.                                *)
Without(s, t, r, Q, K) ==
    /\ \A y \in K : Range(t.obj[y].refs) = Range(s.obj[y].refs) \ {r}
    /\ \A y \in Q \ K : Range(s.obj[y].refs) \subseteq {r}

LEMMA RefsRemoved ==
    ASSUME NEW s, NEW t, NEW r, NEW q \in Seq(Blocks), NEW k \in Seq(Blocks),
           Range(k) \subseteq Range(q), Without(s, t, r, Range(q), Range(k))
    PROVE  RefsIn(t, k) = RefsIn(s, q) \ {r}
<1> USE DEF Without
<1>1. Range(q) = {q[i] : i \in 1..Len(q)} /\ Range(k) = {k[i] : i \in 1..Len(k)}
    BY SeqFacts
<1>2. ASSUME NEW x \in RefsIn(t, k) PROVE x \in RefsIn(s, q) \ {r}
  <2>1. PICK i \in 1..Len(k) : x \in Range(t.obj[k[i]].refs)
    BY <1>2 DEF RefsIn
  <2>2. k[i] \in Range(k) /\ k[i] \in Range(q)
    BY <1>1
  <2>3. x \in Range(s.obj[k[i]].refs) /\ x # r
    BY <2>1, <2>2
  <2>4. PICK j \in 1..Len(q) : q[j] = k[i]
    BY <1>1, <2>2
  <2> QED BY <2>3, <2>4 DEF RefsIn
<1>3. ASSUME NEW x \in RefsIn(s, q) \ {r} PROVE x \in RefsIn(t, k)
  <2>1. PICK i \in 1..Len(q) : x \in Range(s.obj[q[i]].refs)
    BY <1>3 DEF RefsIn
  <2>2. q[i] \in Range(q)
    BY <1>1
  <2>3. q[i] \in Range(k)
    BY <1>3, <2>1, <2>2
  <2>4. PICK j \in 1..Len(k) : k[j] = q[i]
    BY <1>1, <2>3
  <2>5. x \in Range(t.obj[k[j]].refs)
    BY <1>3, <2>1, <2>3, <2>4
  <2> QED BY <2>5 DEF RefsIn
<1> QED BY <1>2, <1>3

LEMMA EmptyDirectory ==
    ASSUME NEW s, NEW c, Quiet(s, c), NEW h \in DOMAIN c, s.obj[h].kind = "dir", RefsIn(s, c[h]) = {}
    PROVE  s.obj[h].refs = <<>> /\ s.obj[h].next = FS_NULL /\ c[h] = <<h>>
<1> DEFINE q == c[h]
<1>0. Sound(s, c, {}) /\ s \in Disks
    BY DEF Quiet, Sound
<1>1. /\ q \in Seq(Blocks) /\ Len(q) \in Nat /\ Len(q) > 0 /\ q[1] = h
      /\ \A i \in 1..Len(q) : q[i] \in Blocks /\ q[i] \in PartsIn(c)
      /\ \A i \in 2..Len(q) : s.obj[q[i]].kind = "dext"
    BY <1>0, ChainFacts
<1> HIDE DEF q
<1>2. ASSUME NEW i \in 1..Len(q) PROVE s.obj[q[i]].refs = <<>>
  <2>1. s.obj[q[i]].refs \in Seq(0..block_count)
    BY <1>0, <1>1, DiskFacts
  <2>2. \A j \in 1..Len(s.obj[q[i]].refs) : FALSE
    <3>1. ASSUME NEW j \in 1..Len(s.obj[q[i]].refs) PROVE FALSE
      <4>1. s.obj[q[i]].refs[j] \in RefsIn(s, q)
        BY <1>0, <1>1, <1>2, RefsInFacts
      <4> QED BY <4>1 DEF q
    <3> QED BY <3>1
  <2> QED BY <2>1, <2>2
<1>3. Len(q) = 1
  <2>1. SUFFICES ASSUME Len(q) # 1 PROVE FALSE
    OBVIOUS
  <2>2. 2 \in 2..Len(q) /\ 2 \in 1..Len(q)
    <3>1. PICK n \in Nat : n = Len(q)
      BY <1>1
    <3> QED BY <1>1, <2>1, <3>1
  <2>3. s.obj[q[2]].refs # <<>>
    BY <1>1, <2>2 DEF Quiet, Calm, Full
  <2> QED BY <1>2, <2>2, <2>3
<1>4. q = <<h>>
    BY <1>1, <1>3
<1>5. s.obj[h].next = FS_NULL
    BY <1>1, <1>3 DEF Quiet, Calm, Ends, q
<1>6. s.obj[h].refs = <<>>
    BY <1>1, <1>2, <1>3
<1> QED BY <1>4, <1>5, <1>6 DEF q

(* A header that nothing refers to any more is freed with its extents.     *)
Unlinkable(c, t, k, f, g) ==
    /\ PartsIn(k) \subseteq PartsIn(c) /\ DOMAIN k = DOMAIN c /\ SameSizes(disk, t, k)
    /\ f # Root /\ k[f] = c[f] /\ \A x \in DOMAIN k : f \notin RefsIn(t, k[x])
    /\ t.obj[f].kind = "dir" => t.obj[f].refs = <<>> /\ t.obj[f].next = FS_NULL
    /\ g = [x \in DOMAIN c \ {f} |-> k[x]]

LEMMA FreedOK ==
    ASSUME NEW c, Quiet(disk, c), NEW t, NEW k, Quiet(t, k), NEW f \in DOMAIN c, NEW g,
           Unlinkable(c, t, k, f, g), NEW z
    PROVE  \E u : /\ Runs(t, FreeAll(Append(Chain(f), f)), u, {}, z) /\ Quiet(u, g)
                  /\ u.obj = t.obj
<1>0. /\ PartsIn(k) \subseteq PartsIn(c) /\ DOMAIN k = DOMAIN c
      /\ \A p \in PartsIn(k) : t.size[p] = disk.size[p]
      /\ f # Root /\ k[f] = c[f] /\ \A x \in DOMAIN k : f \notin RefsIn(t, k[x])
      /\ t.obj[f].kind = "dir" => t.obj[f].refs = <<>> /\ t.obj[f].next = FS_NULL
      /\ g = [x \in DOMAIN c \ {f} |-> k[x]]
    BY DEF Unlinkable, SameSizes
<1>1. Sound(disk, c, {}) /\ disk \in Disks /\ Shape(c)
    BY DEF Quiet, Sound
<1>2. Quiet(t, g) /\ PartsIn(g) \subseteq PartsIn(k) /\ Range(c[f]) \cap PartsIn(g) = {}
  <2>1. /\ Quiet(t, k) /\ f \in DOMAIN k /\ f # Root /\ \A x \in DOMAIN k : f \notin RefsIn(t, k[x])
        /\ t.obj[f].kind = "dir" => t.obj[f].refs = <<>> /\ t.obj[f].next = FS_NULL
        /\ g = [x \in DOMAIN k \ {f} |-> k[x]] /\ k[f] = c[f]
    BY <1>0
  <2>2. Quiet(t, g) /\ PartsIn(g) \subseteq PartsIn(k) /\ Range(k[f]) \cap PartsIn(g) = {}
    BY ONLY <2>1, DroppedOK
  <2> QED BY <1>0, <2>1, <2>2
<1>3. Parts(f) = c[f]
    BY <1>1, PartsOnDisk
<1> DEFINE q == c[f]
           bs == Append(Tail(q), f)
<1>4. /\ q \in Seq(Blocks) /\ Len(q) \in Nat /\ Len(q) > 0 /\ q[1] = f
      /\ Range(q) \subseteq PartsIn(c) /\ \A i \in 1..Len(q) : q[i] \in Blocks /\ q[i] \in Range(q)
  <2>1. /\ q \in Seq(Blocks) /\ Len(q) \in Nat /\ Len(q) > 0 /\ q[1] = f
        /\ Range(q) \subseteq PartsIn(c) /\ \A i \in 1..Len(q) : q[i] \in Blocks
    BY <1>1, ChainFacts
  <2>2. \A i \in 1..Len(q) : q[i] \in Range(q)
    BY <1>1, InChain
  <2> QED BY <2>1, <2>2
<1>5. bs = Append(Chain(f), f)
    BY <1>3 DEF Chain
<1> HIDE DEF q
<1>6. bs \in Seq(Blocks) /\ Len(bs) = Len(q) /\ \A i \in 1..Len(bs) : bs[i] \in Range(q)
  <2>1. Tail(q) \in Seq(Blocks) /\ Len(Tail(q)) = Len(q) - 1 /\ \A i \in 1..(Len(q) - 1) : Tail(q)[i] = q[i + 1]
    BY <1>4
  <2>2. 1 \in 1..Len(q) /\ f \in Blocks /\ f \in Range(q)
    BY <1>4
  <2> DEFINE w == Tail(q)
  <2>3. w \in Seq(Blocks) /\ Len(w) = Len(q) - 1 /\ \A i \in 1..(Len(q) - 1) : w[i] \in Range(q)
    BY <1>4, <2>1
  <2> HIDE DEF w
  <2>4. Append(w, f) \in Seq(Blocks) /\ Len(Append(w, f)) = Len(q)
        /\ (\A i \in 1..(Len(q) - 1) : Append(w, f)[i] = w[i]) /\ Append(w, f)[Len(q)] = f
    BY <1>4, <2>2, <2>3
  <2>5. \A i \in 1..Len(q) : i = Len(q) \/ i \in 1..(Len(q) - 1)
    BY <1>4
  <2>6. bs = Append(w, f)
    BY DEF w
  <2> HIDE DEF bs
  <2> QED BY <2>2, <2>3, <2>4, <2>5, <2>6
<1> HIDE DEF bs
<1>7. ASSUME NEW i \in 1..Len(bs)
      PROVE  /\ bs[i] \notin PartsIn(g)
             /\ \A p \in PartsIn(g) : Run(p, disk.size[p]) \cap Run(bs[i], disk.size[bs[i]]) = {}
  <2>1. bs[i] \in Range(q)
    BY <1>6
  <2>2. bs[i] \notin PartsIn(g) /\ bs[i] \in PartsIn(c)
    BY <1>2, <1>4, <2>1 DEF q
  <2>3. \A p \in PartsIn(g) : p \in PartsIn(c) /\ p # bs[i]
    BY <1>0, <1>2, <2>2
  <2> QED BY <1>1, <2>2, <2>3 DEF Sound, Room
<1>8. FreeAll(bs) \in Seq(Harmless(disk, g))
    BY <1>1, <1>6, <1>7, FreeAllHarmless
<1>9. \A p \in PartsIn(g) : disk.size[p] = t.size[p]
    BY <1>0, <1>2
<1>10. PICK u : /\ Runs(t, FreeAll(bs), u, {}, z) /\ Sound(u, g, {}) /\ u.obj = t.obj
                /\ SameSizes(u, t, g)
  <2>1. Sound(t, g, {}) /\ SameSizes(disk, t, g)
    BY <1>2, <1>9 DEF Quiet, SameSizes
  <2> QED BY ONLY <1>8, <2>1, HarmlessRuns
<1>11. Calm(u, g)
    BY <1>2, <1>10, CalmSame DEF Quiet, Sound
<1> QED BY <1>5, <1>10, <1>11 DEF Quiet

-----------------------------------------------------------------------------
(***************************************************************************)
(* Operations: a reference is removed.                                     *)
(***************************************************************************)
LEMMA PutRuns ==
    ASSUME NEW s, NEW m, Fine(s, m), NEW b \in Blocks, NEW o \in Contents,
           NEW t, t = Written(s, Obj(b, o)), Fine(t, m), NEW z
    PROVE  Runs(s, <<Obj(b, o)>>, t, m, z)
<1>1. Obj(b, o) \in Writes /\ Obj(b, o).to # "size"
    BY WritesFacts DEF Obj
<1>2. Fits(s, Obj(b, o), m, z)
    BY <1>1 DEF Fits, Fine
<1> QED BY <1>1, <1>2, RunsOne

LEMMA RefsFacts ==
    ASSUME NEW s \in Disks, NEW b \in Blocks
    PROVE  /\ s.obj[b].refs \in Seq(0..block_count) /\ Len(s.obj[b].refs) \in Nat
           /\ DOMAIN s.obj[b].refs = 1..Len(s.obj[b].refs)
           /\ Range(s.obj[b].refs) = {s.obj[b].refs[i] : i \in 1..Len(s.obj[b].refs)}
           /\ Range(s.obj[b].refs) \subseteq 0..block_count
           /\ \A l \in Seq(0..block_count) :
                 Len(l) <= Len(s.obj[b].refs) => [s.obj[b] EXCEPT !.refs = l] \in Contents
<1>1. s.obj[b].refs \in Seq(0..block_count) /\ s.obj[b] \in Contents
    BY DiskFacts
<1> DEFINE o == s.obj[b]
<1>2. ASSUME NEW l \in Seq(0..block_count), Len(l) <= Len(o.refs)
      PROVE  [o EXCEPT !.refs = l] \in Contents
  <2>1. o \in Object
    BY <1>1 DEF Contents
  <2> HIDE DEF o
  <2>2. [o EXCEPT !.refs = l] \in Object /\ [o EXCEPT !.refs = l].kind = o.kind
        /\ [o EXCEPT !.refs = l].refs = l
    BY <2>1 DEF Object
  <2>3. /\ o.kind = "dir" => Len(o.refs) <= HeaderRefs
        /\ o.kind = "dext" => Len(o.refs) <= ExtentRefs
    BY <1>1 DEF Contents, o
  <2>4. Len(o.refs) \in Nat /\ Len(l) \in Nat
    BY <1>1 DEF o
  <2> DEFINE x == [o EXCEPT !.refs = l]
  <2> HIDE DEF x
  <2>5. /\ x.kind = "dir" => Len(x.refs) <= HeaderRefs
        /\ x.kind = "dext" => Len(x.refs) <= ExtentRefs
    BY <1>2, <2>2, <2>3, <2>4, BaseFSAssumption DEF x
  <2>6. x \in Object
    BY <2>2 DEF x
  <2>7. x \in Contents
    BY <2>5, <2>6 DEF Contents
  <2> QED BY <2>7 DEF x
<1>3. /\ DOMAIN o.refs = 1..Len(o.refs) /\ Len(o.refs) \in Nat
      /\ Range(o.refs) = {o.refs[i] : i \in 1..Len(o.refs)} /\ Range(o.refs) \subseteq 0..block_count
  <2>1. \A y \in Seq(0..block_count) :
           /\ DOMAIN y = 1..Len(y) /\ Len(y) \in Nat
           /\ Range(y) = {y[i] : i \in 1..Len(y)} /\ Range(y) \subseteq 0..block_count
    BY SeqFacts
  <2> QED BY <1>1, <2>1
<1> QED BY <1>1, <1>2, <1>3

(* A reference is held once.                                               *)
LEMMA OneHolder ==
    ASSUME NEW s, NEW c, Quiet(s, c), NEW p \in PartsIn(c), NEW r \in Range(s.obj[p].refs)
    PROVE  /\ r # FS_NULL /\ r \in DOMAIN c
           /\ \A x \in PartsIn(c) \ {p} : r \notin Range(s.obj[x].refs)
           /\ IsInjective(s.obj[p].refs)
<1>1. /\ s \in Disks /\ PartsIn(c) \subseteq Blocks /\ Referring(s, PartsIn(c), Known(s, c, {}))
      /\ Full(s, c)
    BY ShapeFacts DEF Quiet, Sound, Calm
<1>2. \A x \in PartsIn(c) : /\ Range(s.obj[x].refs) = {s.obj[x].refs[i] : i \in 1..Len(s.obj[x].refs)}
                            /\ DOMAIN s.obj[x].refs = 1..Len(s.obj[x].refs)
    BY <1>1, RefsFacts
<1>3. \A i \in 1..Len(s.obj[p].refs) : s.obj[p].refs[i] # FS_NULL /\ s.obj[p].refs[i] \in DOMAIN c
    BY <1>1 DEF Full, Referring, Known
<1>4. PICK i \in 1..Len(s.obj[p].refs) : r = s.obj[p].refs[i]
    BY <1>2
<1>5. r # FS_NULL /\ r \in DOMAIN c
    BY <1>3, <1>4
<1>6. ASSUME NEW x \in PartsIn(c), x # p, r \in Range(s.obj[x].refs) PROVE FALSE
  <2>1. PICK j \in 1..Len(s.obj[x].refs) : r = s.obj[x].refs[j]
    BY <1>2, <1>6
  <2>2. p \in PartsIn(c) /\ x \in PartsIn(c)
    BY <1>6
  <2>3. s.obj[p].refs[i] = s.obj[x].refs[j] /\ s.obj[p].refs[i] # FS_NULL => p = x
    BY ONLY <1>1, <1>4, <2>1, <2>2 DEF Referring
  <2> QED BY <1>4, <1>5, <1>6, <2>1, <2>3
<1>7. IsInjective(s.obj[p].refs)
  <2>1. ASSUME NEW a \in 1..Len(s.obj[p].refs), NEW b \in 1..Len(s.obj[p].refs),
               s.obj[p].refs[a] = s.obj[p].refs[b]
        PROVE  a = b
    BY <1>1, <1>3, <2>1 DEF Referring
  <2> QED BY <1>2, <2>1 DEF IsInjective
<1> QED BY <1>5, <1>6, <1>7

(* Header h has lost the reference r.                                      *)
Less(s, c, t, k, h, r) ==
    /\ Quiet(t, k) /\ DOMAIN k = DOMAIN c /\ PartsIn(k) \subseteq PartsIn(c)
    /\ \A x \in DOMAIN c \ {h} : k[x] = c[x]
    /\ \A x \in DOMAIN c : t.obj[x].kind = s.obj[x].kind /\ t.obj[x].parent = s.obj[x].parent
    /\ \A x \in DOMAIN c : RefsIn(t, k[x]) = RefsIn(s, c[x]) \ {r}
    /\ SameSizes(s, t, k)

LEMMA EntryRemoved ==
    ASSUME NEW s, NEW c, Quiet(s, c), NEW h \in DOMAIN c, NEW p \in Range(c[h]),
           NEW r \in Range(s.obj[p].refs), p = h \/ Len(s.obj[p].refs) > 1,
           NEW o, o = [s.obj[p] EXCEPT !.refs = RemoveFirst(s.obj[p].refs, r)],
           NEW t, t = Written(s, Obj(p, o)), NEW z
    PROVE  Runs(s, <<Obj(p, o)>>, t, {}, z) /\ Less(s, c, t, c, h, r)
<1> DEFINE l == RemoveFirst(s.obj[p].refs, r)
<1>0. Sound(s, c, {}) /\ Shape(c) /\ s \in Disks /\ Calm(s, c)
    BY DEF Quiet, Sound
<1>1. p \in PartsIn(c) /\ p \in Blocks /\ h \in Blocks /\ PartsIn(c) \subseteq Blocks
      /\ DOMAIN c \subseteq PartsIn(c)
    BY <1>0, ShapeFacts, ChainFacts
<1>2. /\ r # FS_NULL /\ \A x \in PartsIn(c) \ {p} : r \notin Range(s.obj[x].refs)
      /\ IsInjective(s.obj[p].refs)
    BY <1>1, OneHolder
<1>3. /\ l \in Seq(0..block_count) /\ Len(l) = Len(s.obj[p].refs) - 1 /\ IsInjective(l)
      /\ Range(l) = Range(s.obj[p].refs) \ {r} /\ Len(s.obj[p].refs) \in Nat
  <2>1. s.obj[p].refs \in Seq(0..block_count) /\ Len(s.obj[p].refs) \in Nat
    BY <1>0, <1>1, RefsFacts
  <2> QED BY <1>2, <2>1, RemoveFirstFacts
<1> HIDE DEF l
<1>4. o \in Contents /\ o = [s.obj[p] EXCEPT !.refs = l]
    BY <1>0, <1>1, <1>3, RefsFacts DEF l
<1>5. s.obj[p] \in Object
    BY <1>0, <1>1, DiskFacts
<1>6. /\ o.refs = l /\ o.kind = s.obj[p].kind /\ o.next = s.obj[p].next
      /\ o.prev = s.obj[p].prev /\ o.parent = s.obj[p].parent
    BY <1>4, <1>5 DEF Object
<1>7. /\ t \in Disks /\ t.bits = s.bits /\ t.size = s.size /\ t.obj[p] = o
      /\ \A x \in Blocks \ {p} : t.obj[x] = s.obj[x]
  <2>1. s \in Disks /\ p \in Blocks /\ o \in Contents /\ t = Written(s, Obj(p, o))
    BY <1>0, <1>1, <1>4
  <2> QED BY ONLY <2>1, PutFacts
<1>8. Range(l) = {l[i] : i \in 1..Len(l)} /\ DOMAIN l = 1..Len(l) /\ Len(l) \in Nat
    BY <1>3, SeqFacts
<1>9. \A i \in 1..Len(l) : l[i] # FS_NULL /\ l[i] \in Range(s.obj[p].refs)
  <2>1. Range(s.obj[p].refs) = {s.obj[p].refs[i] : i \in 1..Len(s.obj[p].refs)}
    BY <1>0, <1>1, RefsFacts
  <2> QED BY <1>0, <1>1, <1>3, <1>8, <2>1 DEF Calm, Full
<1>10. Referring(t, PartsIn(c), Known(s, c, {}))
  <2>1. Referring(s, PartsIn(c), Known(s, c, {})) /\ t.obj[p].refs = l
    BY <1>0, <1>6, <1>7 DEF Sound
  <2>2. \A x \in PartsIn(c) \ {p} : t.obj[x].refs = s.obj[x].refs
    BY <1>1, <1>7
  <2>3. \A i \in 1..Len(l) : l[i] \in Known(s, c, {}) \cup {FS_NULL}
    BY <1>1, <1>9, OneHolder DEF Known
  <2>4. \A i, j \in 1..Len(l) : l[i] = l[j] /\ l[i] # FS_NULL => i = j
    BY <1>3, <1>8 DEF IsInjective
  <2>5. ASSUME NEW x \in PartsIn(c) \ {p}, NEW i \in 1..Len(s.obj[x].refs), NEW j \in 1..Len(l),
               s.obj[x].refs[i] = l[j]
        PROVE  l[j] = FS_NULL
    <3>0. x \in Blocks
      BY <1>1
    <3>3. Range(s.obj[x].refs) = {s.obj[x].refs[a] : a \in 1..Len(s.obj[x].refs)}
      BY <1>0, <3>0, RefsFacts
    <3>1. s.obj[x].refs[i] \in Range(s.obj[x].refs)
      BY <3>3
    <3>2. l[j] \in Range(s.obj[p].refs)
      BY <1>9
    <3> QED BY <1>1, <2>5, <3>1, <3>2, OneHolder
  <2>6. Rereferred(s, t, PartsIn(c), Known(s, c, {}), p, l)
    BY <2>1, <2>2, <2>3, <2>4, <2>5 DEF Rereferred
  <2> QED BY ONLY <1>1, <2>1, <2>6, ReferringPut
<1>11. Sound(t, c, {})
    BY <1>0, <1>1, <1>4, <1>6, <1>10, PutOK
<1>12. Calm(t, c)
  <2>1. \A x \in PartsIn(c) : t.obj[x].next = s.obj[x].next /\ t.obj[x].prev = s.obj[x].prev
    BY <1>1, <1>6, <1>7
  <2>2. ASSUME NEW x \in PartsIn(c)
        PROVE  /\ \A i \in 1..Len(t.obj[x].refs) : t.obj[x].refs[i] # FS_NULL
               /\ t.obj[x].kind = "dext" => t.obj[x].refs # <<>>
    <3>1. CASE x # p
      BY <1>0, <1>1, <1>7, <3>1 DEF Calm, Full
    <3>2. CASE x = p
      <4>1. p = h => s.obj[p].kind # "dext"
        BY <1>0, ChainFacts
      <4>2. Len(s.obj[p].refs) > 1 => l # <<>>
        BY <1>3
      <4> QED BY <1>6, <1>7, <1>9, <3>2, <4>1, <4>2
    <3> QED BY <3>1, <3>2
  <2>3. \A x \in DOMAIN c : t.obj[x].kind = s.obj[x].kind /\ t.obj[x].parent = s.obj[x].parent
    BY <1>1, <1>6, <1>7
  <2> QED BY ONLY <1>0, <2>1, <2>2, <2>3, CalmPut
<1>13. ASSUME NEW x \in DOMAIN c PROVE RefsIn(t, c[x]) = RefsIn(s, c[x]) \ {r}
  <2>1. c[x] \in Seq(Blocks) /\ Range(c[x]) \subseteq PartsIn(c)
    BY <1>0, ChainFacts
  <2>2. ASSUME NEW y \in Range(c[x]) PROVE Range(t.obj[y].refs) = Range(s.obj[y].refs) \ {r}
    <3>1. CASE y = p
      BY <1>3, <1>6, <1>7, <3>1
    <3>2. CASE y # p
      <4>1. y \in Blocks /\ r \notin Range(s.obj[y].refs) /\ t.obj[y] = s.obj[y]
        BY <1>1, <1>2, <1>7, <2>1, <3>2
      <4> QED BY <4>1
    <3> QED BY <3>1, <3>2
  <2>3. Range(c[x]) \subseteq Range(c[x]) /\ \A y \in Range(c[x]) \ Range(c[x]) :
           Range(s.obj[y].refs) \subseteq {r}
    OBVIOUS
  <2>4. Without(s, t, r, Range(c[x]), Range(c[x]))
    BY <2>2, <2>3 DEF Without
  <2> QED BY ONLY <2>1, <2>3, <2>4, RefsRemoved
<1>14. \A x \in DOMAIN c : t.obj[x].kind = s.obj[x].kind /\ t.obj[x].parent = s.obj[x].parent
    BY <1>1, <1>6, <1>7
<1>15. Runs(s, <<Obj(p, o)>>, t, {}, z)
    BY <1>0, <1>1, <1>4, <1>11, PutRuns DEF Fine
<1> QED BY <1>7, <1>11, <1>12, <1>13, <1>14, <1>15 DEF Less, Quiet, SameSizes

(* An extent with no other reference goes with it.                         *)
LEMMA ExtentRemoved ==
    ASSUME NEW c, Quiet(disk, c), NEW h \in DOMAIN c, NEW i \in 2..Len(c[h]), NEW p, p = c[h][i],
           NEW r, disk.obj[p].refs = <<r>>, NEW z, NEW k, k = [c EXCEPT ![h] = Skip(c[h], i)]
    PROVE  \E t : /\ Runs(disk, <<Obj(p, [disk.obj[p] EXCEPT !.refs = <<FS_NULL>>])>> \o
                                Unlinked(h, p) \o fs_free(p), t, {}, z)
                  /\ Less(disk, c, t, k, h, r)
<1> DEFINE l == c[h]
           n == Len(l)
           o == disk.obj[p]
           o1 == [o EXCEPT !.refs = <<FS_NULL>>]
           t1 == Written(disk, Obj(p, o1))
           a == l[i - 1]
           q == Skip(l, i)
<1>0. Sound(disk, c, {}) /\ Shape(c) /\ disk \in Disks /\ Calm(disk, c)
    BY DEF Quiet, Sound
<1>1. /\ l \in Seq(Blocks) /\ n \in Nat /\ n > 0 /\ IsInjective(l) /\ l[1] = h /\ DOMAIN l = 1..n
      /\ \A j \in 1..n : l[j] \in Blocks /\ l[j] \in PartsIn(c)
      /\ \A j \in 1..(n - 1) : disk.obj[l[j]].next = l[j + 1]
      /\ Range(l) \subseteq PartsIn(c)
      /\ \A j \in 2..n : disk.obj[l[j]].kind # "dir" /\ disk.obj[l[j]].kind # "file"
    BY <1>0, ChainFacts
<1> HIDE DEF l
<1>2. /\ i \in 1..n /\ i - 1 \in 1..n /\ i - 1 \in 1..(n - 1) /\ 1 \in 1..n /\ n \in 1..n
      /\ (i - 1) + 1 = i /\ i \in Nat /\ i >= 2 /\ i <= n /\ i # 1 /\ i \in 2..n
    BY <1>1 DEF l
<1> HIDE DEF n
<1>3. p = l[i] /\ p \in Blocks /\ p \in PartsIn(c) /\ a \in Blocks /\ a \in PartsIn(c) /\ a # p
      /\ h \in Blocks /\ PartsIn(c) \subseteq Blocks /\ p # h
  <2>1. p = l[i]
    BY DEF l
  <2>2. \A x, y \in 1..n : l[x] = l[y] => x = y
    BY <1>1 DEF IsInjective
  <2>3. p # l[i - 1] /\ p # l[1]
    BY <1>2, <2>1, <2>2
  <2>4. l[i] \in Blocks /\ l[i] \in PartsIn(c) /\ l[i - 1] \in Blocks /\ l[i - 1] \in PartsIn(c)
        /\ l[1] \in Blocks
    BY <1>1, <1>2
  <2>5. PartsIn(c) \subseteq Blocks
    BY <1>0, ShapeFacts
  <2> HIDE DEF n
  <2> QED BY <1>1, <2>1, <2>3, <2>4, <2>5
<1>4. o \in Object /\ o \in Contents /\ o.next \in 0..block_count
    BY <1>0, <1>3, DiskFacts
<1>5. /\ \A x, y \in 1..n : l[x] = l[y] => x = y
      /\ Range(l) = {l[x] : x \in 1..n}
    BY <1>1 DEF IsInjective, Range
<1>6. a = o.prev
  <2>1. disk.obj[c[h][i]].prev = c[h][i - 1]
    BY <1>0 DEF Calm, Prevs
  <2> QED BY <2>1 DEF l
<1>7. (i < n => o.next = l[i + 1]) /\ (i = n => o.next = FS_NULL)
  <2>1. i < n => i \in 1..(n - 1)
    BY <1>1, <1>2
  <2>2. disk.obj[c[h][Len(c[h])]].next = FS_NULL
    BY <1>0 DEF Calm, Ends
  <2> QED BY <1>1, <1>3, <2>1, <2>2 DEF l, n
<1>8. Live(o.next) <=> i < n
  <2>1. ~Live(FS_NULL)
    BY DEF Live, Blocks, FS_NULL
  <2>2. i < n => i + 1 \in 1..n
    BY <1>1, <1>2
  <2>3. i < n => Live(l[i + 1])
    BY <1>0, <1>1, <2>2 DEF Sound, Room, Here, LiveOn, Live
  <2>4. i < n \/ i = n
    BY <1>1, <1>2
  <2> QED BY <1>1, <1>7, <2>1, <2>3, <2>4
<1> HIDE DEF a, o
<1>9. o1 \in Contents /\ o1.refs = <<FS_NULL>> /\ o1.kind = o.kind /\ o1.next = o.next
      /\ o1.prev = o.prev /\ o1.parent = o.parent
  <2> DEFINE e == <<FS_NULL>>
  <2>1. e \in Seq(0..block_count)
    BY BaseFSAssumption DEF FS_NULL
  <2>2. Len(e) <= Len(disk.obj[p].refs)
    BY DEF o
  <2> HIDE DEF e
  <2>3. [disk.obj[p] EXCEPT !.refs = e] \in Contents
    BY <1>0, <1>3, <2>1, <2>2, RefsFacts
  <2>4. o1 = [disk.obj[p] EXCEPT !.refs = e]
    BY DEF o, e
  <2> QED BY <1>4, <2>3, <2>4 DEF Object, e
<1> HIDE DEF o1
<1>10. /\ t1 \in Disks /\ t1.bits = disk.bits /\ t1.size = disk.size /\ t1.obj[p] = o1
       /\ \A x \in Blocks \ {p} : t1.obj[x] = disk.obj[x]
  <2>1. disk \in Disks /\ p \in Blocks /\ o1 \in Contents /\ t1 = Written(disk, Obj(p, o1))
    BY <1>0, <1>3, <1>9
  <2> QED BY ONLY <2>1, PutFacts
<1>11. t1 = Written(disk, Obj(p, o1))
    OBVIOUS
<1> HIDE DEF t1
<1>12. Sound(t1, c, {})
  <2> DEFINE e == <<FS_NULL>>
  <2>0. Len(e) = 1 /\ e[1] = FS_NULL
    OBVIOUS
  <2> HIDE DEF e
  <2>1. Referring(disk, PartsIn(c), Known(disk, c, {})) /\ t1.obj[p].refs = e
    BY <1>0, <1>9, <1>10 DEF Sound, e
  <2>2. \A x \in PartsIn(c) \ {p} : t1.obj[x].refs = disk.obj[x].refs
    BY <1>3, <1>10
  <2>3. \A x \in 1..Len(e) : x = 1 /\ e[x] = FS_NULL
    BY <2>0
  <2>4. /\ \A x \in 1..Len(e) : e[x] \in Known(disk, c, {}) \cup {FS_NULL}
        /\ \A x, y \in 1..Len(e) : e[x] = e[y] /\ e[x] # FS_NULL => x = y
        /\ \A x \in PartsIn(c) \ {p} : \A y \in 1..Len(disk.obj[x].refs), j \in 1..Len(e) :
              disk.obj[x].refs[y] = e[j] => e[j] = FS_NULL
    BY <2>3
  <2>5. p \in PartsIn(c)
    BY <1>3
  <2>6. Referring(t1, PartsIn(c), Known(disk, c, {}))
    <3>1. Rereferred(disk, t1, PartsIn(c), Known(disk, c, {}), p, e)
      BY <2>1, <2>2, <2>4 DEF Rereferred
    <3> QED BY ONLY <2>1, <2>5, <3>1, ReferringPut
  <2>7. /\ Sound(disk, c, {}) /\ p \in PartsIn(c) /\ o1 \in Contents /\ o1.kind = disk.obj[p].kind
        /\ o1.next = disk.obj[p].next
    BY <1>0, <1>3, <1>9 DEF o
  <2> QED BY ONLY <1>11, <2>6, <2>7, PutOK
<1> DEFINE oa == [disk.obj[a] EXCEPT !.next = o.next]
           t2 == Written(t1, Obj(a, oa))
<1>13. t1.obj[a] = disk.obj[a] /\ t1.obj[p].next = o.next
    BY <1>3, <1>9, <1>10
<1>14. /\ Sound(t2, k, {}) /\ t2 \in Disks /\ t2.bits = t1.bits /\ t2.size = t1.size
       /\ t2.obj[a].next = o.next
       /\ t2.obj[a].kind = t1.obj[a].kind /\ t2.obj[a].refs = t1.obj[a].refs
       /\ t2.obj[a].prev = t1.obj[a].prev /\ t2.obj[a].parent = t1.obj[a].parent
       /\ \A x \in Blocks \ {a} : t2.obj[x] = t1.obj[x]
       /\ q \in Seq(Blocks) /\ Len(q) = n - 1 /\ Len(q) > 0 /\ IsInjective(q) /\ q[1] = h
       /\ \A j \in 1..Len(q) : q[j] = IF j < i THEN l[j] ELSE l[j + 1]
       /\ Range(q) = Range(l) \ {p}
  <2>0. /\ a = c[h][i - 1] /\ p = c[h][i] /\ q = Skip(c[h], i) /\ k = [c EXCEPT ![h] = q]
        /\ t2 = Written(t1, Obj(a, [t1.obj[a] EXCEPT !.next = t1.obj[p].next]))
    BY <1>13 DEF a, l
  <2>1. /\ Sound(t1, c, {}) /\ h \in DOMAIN c /\ i \in 2..Len(c[h])
        /\ Unlinking(t1, t2, c, k, h, i, a, p, q)
    BY <1>12, <2>0 DEF Unlinking, l
  <2> HIDE DEF t2, q, oa
  <2>2. /\ Sound(t2, k, {}) /\ t2 \in Disks /\ t2.bits = t1.bits /\ t2.size = t1.size
        /\ t2.obj[a].next = t1.obj[p].next
        /\ t2.obj[a].kind = t1.obj[a].kind /\ t2.obj[a].refs = t1.obj[a].refs
        /\ t2.obj[a].prev = t1.obj[a].prev /\ t2.obj[a].parent = t1.obj[a].parent
        /\ \A x \in Blocks \ {a} : t2.obj[x] = t1.obj[x]
        /\ q \in Seq(Blocks) /\ Len(q) = Len(c[h]) - 1 /\ Len(q) > 0 /\ IsInjective(q) /\ q[1] = h
        /\ \A j \in 1..Len(q) : q[j] = IF j < i THEN c[h][j] ELSE c[h][j + 1]
        /\ Range(q) = Range(c[h]) \ {p}
    BY ONLY <2>1, SkippedOK
  <2> QED BY <1>13, <2>2 DEF l, n
<1>15. t2 = Written(t1, Obj(a, oa)) /\ oa \in Contents
    BY <1>0, <1>3, <1>4, DiskFacts, ContentsFacts, BaseFSAssumption
<1> HIDE DEF t2, q, oa
<1>16. PICK t3 : /\ Runs(t2, (IF Live(o.next)
                              THEN <<Obj(o.next, [disk.obj[o.next] EXCEPT !.prev = o.prev])>>
                              ELSE <<>>), t3, {}, z)
                 /\ Sound(t3, k, {}) /\ t3.size = t2.size
                 /\ \A x \in Blocks : t3.obj[x] = t2.obj[x] \/
                       (i < n /\ x = l[i + 1] /\ t3.obj[x] = [t2.obj[x] EXCEPT !.prev = a])
                 /\ i < n => t3.obj[l[i + 1]].prev = a
  <2>1. CASE ~(i < n)
    <3>1. Runs(t2, <<>>, t2, {}, z)
      BY <1>14, RunsNil DEF Fine
    <3>2. (IF Live(o.next) THEN <<Obj(o.next, [disk.obj[o.next] EXCEPT !.prev = o.prev])>>
           ELSE <<>>) = <<>>
      BY <1>8, <2>1
    <3> QED BY <1>14, <2>1, <3>1, <3>2
  <2>2. CASE i < n
    <3> DEFINE b == l[i + 1]
               ob == [disk.obj[b] EXCEPT !.prev = a]
               u == Written(t2, Obj(b, ob))
    <3>1. i + 1 \in 1..n /\ i + 1 # i /\ i + 1 # i - 1 /\ i \in 1..Len(q) /\ ~(i < i)
      BY <1>1, <1>2, <1>14, <2>2
    <3>2. b \in Blocks /\ b # a /\ b # p /\ b = q[i]
      BY <1>1, <1>2, <1>3, <1>5, <1>14, <3>1 DEF a
    <3> HIDE DEF b
    <3>3. t2.obj[b] = disk.obj[b] /\ t2.obj[b] \in Contents /\ t2.obj[b] \in Object
      BY <1>10, <1>14, <3>2, DiskFacts
    <3>4. ob \in Contents
      <4>1. a \in 0..block_count
        BY <1>3, BaseFSAssumption DEF Blocks
      <4>2. 0 \in 0..MaxSize
        BY BaseFSAssumption
      <4> QED BY <3>3, <4>1, <4>2, ContentsFacts
    <3>5. ob.kind = t2.obj[b].kind /\ ob.next = t2.obj[b].next /\ ob.refs = t2.obj[b].refs
          /\ ob.prev = a /\ ob = [t2.obj[b] EXCEPT !.prev = a]
      BY <3>3 DEF Object
    <3> HIDE DEF ob
    <3>6. /\ u \in Disks /\ u.bits = t2.bits /\ u.size = t2.size /\ u.obj[b] = ob
          /\ \A x \in Blocks \ {b} : u.obj[x] = t2.obj[x]
      <4>1. t2 \in Disks /\ b \in Blocks /\ ob \in Contents /\ u = Written(t2, Obj(b, ob))
        BY <1>14, <3>2, <3>4
      <4> QED BY ONLY <4>1, PutFacts
    <3>7. u = Written(t2, Obj(b, ob))
      OBVIOUS
    <3> HIDE DEF u
    <3>8. b \in PartsIn(k) /\ PartsIn(k) \subseteq Blocks
      <4>1. Shape(k) /\ h \in DOMAIN k /\ k[h] = q
        BY <1>14 DEF Sound, Shape, q, l
      <4> QED BY <3>1, <3>2, <4>1, InChain, ShapeFacts
    <3>9. Referring(u, PartsIn(k), Known(t2, k, {}))
      <4>1. Referring(t2, PartsIn(k), Known(t2, k, {}))
        BY <1>14 DEF Sound
      <4>2. \A x \in PartsIn(k) : \/ x \in PartsIn(k) /\ u.obj[x].refs = t2.obj[x].refs
                                  \/ u.obj[x].refs = <<>>
        BY <3>5, <3>6, <3>8
      <4>3. Known(t2, k, {}) \subseteq Known(t2, k, {})
        OBVIOUS
      <4> QED BY ONLY <4>1, <4>2, <4>3, ReferringStays
    <3>10. Sound(u, k, {})
      <4>1. Sound(t2, k, {}) /\ b \in PartsIn(k) /\ ob \in Contents /\ ob.kind = t2.obj[b].kind
            /\ ob.next = t2.obj[b].next
        BY <1>14, <3>4, <3>5, <3>8
      <4> QED BY ONLY <3>7, <3>9, <4>1, PutOK
    <3>11. Runs(t2, <<Obj(b, ob)>>, u, {}, z)
      BY <1>14, <3>2, <3>4, <3>7, <3>10, PutRuns DEF Fine
    <3>12. (IF Live(o.next) THEN <<Obj(o.next, [disk.obj[o.next] EXCEPT !.prev = o.prev])>>
            ELSE <<>>) = <<Obj(b, ob)>>
      BY <1>6, <1>7, <1>8, <2>2 DEF b, ob
    <3>13. \A x \in Blocks : u.obj[x] = t2.obj[x] \/
                       (i < n /\ x = l[i + 1] /\ u.obj[x] = [t2.obj[x] EXCEPT !.prev = a])
      BY <2>2, <3>5, <3>6 DEF b
    <3>14. u.obj[l[i + 1]].prev = a
      BY <3>5, <3>6 DEF b
    <3> QED BY <3>6, <3>10, <3>11, <3>12, <3>13, <3>14
  <2> QED BY <2>1, <2>2
<1> HIDE DEF a, o, o1, t1, t2, oa, q
<1>17. Shape(k) /\ h \in DOMAIN k /\ k[h] = q /\ DOMAIN k = DOMAIN c
       /\ (\A x \in DOMAIN c \ {h} : k[x] = c[x]) /\ PartsIn(k) \subseteq PartsIn(c) \ {p}
       /\ PartsIn(k) \subseteq Blocks
  <2>0. Shape(k)
    BY <1>14 DEF Sound
  <2>1. DOMAIN k = DOMAIN c /\ k[h] = q /\ (\A x \in DOMAIN c \ {h} : k[x] = c[x])
    BY <1>0 DEF Shape, q, l
  <2>2. \A x \in DOMAIN c : Range(k[x]) \subseteq Range(c[x]) \ {p}
    <3>1. Range(k[h]) \subseteq Range(c[h]) \ {p}
      BY <1>14, <2>1 DEF l
    <3>2. p \in Range(c[h])
      BY <1>2, <1>3, <1>5 DEF l
    <3>3. ASSUME NEW x \in DOMAIN c, x # h PROVE Range(k[x]) \subseteq Range(c[x]) \ {p}
      <4>1. Range(c[h]) \cap Range(c[x]) = {}
        BY <1>0, <3>3 DEF Shape
      <4> QED BY <2>1, <3>2, <3>3, <4>1
    <3> QED BY <3>1, <3>3
  <2>3. PartsIn(k) \subseteq PartsIn(c) \ {p}
    BY <2>1, <2>2 DEF PartsIn
  <2> QED BY <1>3, <2>0, <2>1, <2>3
<1>18. PICK t : /\ Runs(t3, fs_free(p), t, {}, z) /\ Sound(t, k, {}) /\ t.obj = t3.obj
                /\ SameSizes(t, t3, k)
  <2>1. fs_free(p) \in Seq(Harmless(disk, k))
    <3>1. \A x \in PartsIn(k) : Run(x, disk.size[x]) \cap Run(p, disk.size[p]) = {}
      BY <1>0, <1>3, <1>17 DEF Sound, Room
    <3>2. p \in Blocks /\ disk \in Disks /\ p \notin PartsIn(k)
      BY <1>0, <1>3, <1>17
    <3> QED BY ONLY <3>1, <3>2, FreeHarmless
  <2>2. SameSizes(disk, t3, k) /\ Sound(t3, k, {})
    BY <1>10, <1>14, <1>16 DEF SameSizes
  <2> QED BY ONLY <2>1, <2>2, HarmlessRuns
<1>19. /\ \A x \in Blocks : x # p /\ x # a =>
             \/ t.obj[x] = disk.obj[x]
             \/ i < n /\ x = l[i + 1] /\ t.obj[x] = [disk.obj[x] EXCEPT !.prev = a]
       /\ t.obj[a].next = o.next /\ t.obj[a].kind = disk.obj[a].kind /\ t.obj[a].refs = disk.obj[a].refs
       /\ t.obj[a].prev = disk.obj[a].prev /\ t.obj[a].parent = disk.obj[a].parent
       /\ i < n => t.obj[l[i + 1]].prev = a
  <2>1. ASSUME i < n PROVE l[i + 1] # a
    <3>1. i + 1 \in 1..n /\ i + 1 # i - 1
      BY <1>1, <1>2, <2>1
    <3> QED BY <1>2, <1>5, <3>1 DEF a
  <2>2. t3.obj[a] = t2.obj[a]
    BY <1>3, <1>16, <2>1
  <2> QED BY <1>3, <1>10, <1>13, <1>14, <1>16, <1>18, <2>2
<1>20. \A x \in Blocks : x # p =>
          /\ t.obj[x].kind = disk.obj[x].kind /\ t.obj[x].refs = disk.obj[x].refs
          /\ t.obj[x].parent = disk.obj[x].parent
          /\ x # a => t.obj[x].next = disk.obj[x].next
          /\ ~(i < n /\ x = l[i + 1]) => t.obj[x].prev = disk.obj[x].prev
  <2>1. \A x \in Blocks : disk.obj[x] \in Object
    BY <1>0, DiskFacts
  <2> QED
    <3>1. ASSUME NEW x \in Blocks, x # p, x # a
          PROVE  /\ t.obj[x].kind = disk.obj[x].kind /\ t.obj[x].refs = disk.obj[x].refs
                 /\ t.obj[x].parent = disk.obj[x].parent /\ t.obj[x].next = disk.obj[x].next
                 /\ ~(i < n /\ x = l[i + 1]) => t.obj[x].prev = disk.obj[x].prev
      <4>1. CASE t.obj[x] = disk.obj[x]
        BY <4>1
      <4>2. CASE i < n /\ x = l[i + 1] /\ t.obj[x] = [disk.obj[x] EXCEPT !.prev = a]
        <5>1. disk.obj[x] \in Object
          BY <2>1
        <5> QED BY <4>2, <5>1 DEF Object
      <4> QED BY <1>19, <3>1, <4>1, <4>2
    <3> QED BY <1>3, <1>19, <3>1
<1>21. \A j \in 1..(n - 1) : q[j] = IF j < i THEN l[j] ELSE l[j + 1]
    BY <1>14
<1>22. \A j \in 1..(n - 1) : q[j] \in Blocks /\ q[j] # p /\ q[j] \in PartsIn(c)
  <2>1. ASSUME NEW j \in 1..(n - 1) PROVE q[j] \in Blocks /\ q[j] # p /\ q[j] \in PartsIn(c)
    <3>1. CASE j < i
      <4>1. j \in 1..n /\ j # i
        BY <1>1, <3>1
      <4> QED BY <1>1, <1>2, <1>3, <1>5, <1>21, <3>1, <4>1
    <3>2. CASE ~(j < i)
      <4>1. j + 1 \in 1..n /\ j + 1 # i
        BY <1>1, <1>2, <3>2
      <4> QED BY <1>1, <1>2, <1>3, <1>5, <1>21, <3>2, <4>1
    <3> QED BY <3>1, <3>2
  <2> QED BY <2>1
<1>23. t.obj[q[Len(q)]].next = FS_NULL
  <2>1. n - 1 \in 1..(n - 1) /\ Len(q) = n - 1
    BY <1>1, <1>2, <1>14
  <2>2. CASE i = n
    <3>1. q[n - 1] = a
      BY <1>1, <1>2, <1>21, <2>1, <2>2 DEF a
    <3> QED BY <1>7, <1>19, <2>1, <2>2, <3>1
  <2>3. CASE i < n
    <3>1. ~(n - 1 < i) /\ (n - 1) + 1 = n /\ n # i - 1
      BY <1>1, <1>2, <2>3
    <3>2. q[n - 1] = l[n] /\ l[n] # a /\ l[n] # p
      BY <1>1, <1>2, <1>5, <1>21, <1>22, <2>1, <3>1 DEF a
    <3>3. disk.obj[c[h][Len(c[h])]].next = FS_NULL
      BY <1>0 DEF Calm, Ends
    <3>4. disk.obj[l[n]].next = FS_NULL
      BY <3>3 DEF l, n
    <3> QED BY <1>20, <1>22, <2>1, <3>2, <3>4
  <2> QED BY <1>1, <1>2, <2>2, <2>3
<1>24. ASSUME NEW j \in 2..Len(q) PROVE t.obj[q[j]].prev = q[j - 1]
  <2>0. j \in 1..(n - 1) /\ j - 1 \in 1..(n - 1) /\ j \in 2..n /\ j + 1 \in 2..n /\ (j + 1) - 1 = j /\ j >= 2
        /\ j \in 1..n /\ j - 1 \in 1..n /\ j + 1 \in 1..n
    <3>1. Len(q) = n - 1 /\ n \in Nat
      BY <1>1, <1>14
    <3>2. j \in 2..(n - 1)
      BY <3>1
    <3> QED BY ONLY <3>1, <3>2
  <2>1. \A x \in 2..n : disk.obj[l[x]].prev = l[x - 1]
    BY <1>0 DEF Calm, Prevs, l, n
  <2>2. CASE j < i
    <3>1. q[j] = l[j] /\ q[j - 1] = l[j - 1] /\ j - 1 < i
      BY <1>2, <1>21, <2>0, <2>2
    <3>2. i < n => l[j] # l[i + 1]
      <4>1. i < n => i + 1 \in 1..n /\ i + 1 # j
        BY <1>1, <1>2, <2>2
      <4> QED BY <1>5, <2>0, <4>1
    <3>3. t.obj[l[j]].prev = disk.obj[l[j]].prev
      BY <1>20, <1>22, <2>0, <3>1, <3>2
    <3> QED BY <2>0, <2>1, <3>1, <3>3
  <2>3. CASE j = i
    <3>1. q[j] = l[i + 1] /\ q[j - 1] = a
      BY <1>2, <1>21, <2>0, <2>3 DEF a
    <3>2. i < n
      BY <1>1, <2>0, <2>3
    <3> QED BY <1>19, <3>1, <3>2
  <2>4. CASE j > i
    <3>1. q[j] = l[j + 1] /\ q[j - 1] = l[j] /\ l[j + 1] # l[i + 1]
      <4>1. ~(j < i) /\ ~(j - 1 < i) /\ (j - 1) + 1 = j /\ j + 1 # i + 1 /\ i + 1 \in 1..n
        <5>1. n \in Nat /\ i \in Nat /\ i >= 2 /\ j \in 1..(n - 1) /\ j > i
          BY <1>1, <1>2, <2>0, <2>4
        <5> QED BY ONLY <5>1
      <4> QED BY <1>5, <1>21, <2>0, <4>1
    <3>2. t.obj[l[j + 1]].prev = disk.obj[l[j + 1]].prev
      BY <1>20, <1>22, <2>0, <3>1
    <3> QED BY <2>0, <2>1, <3>1, <3>2
  <2> QED BY <1>2, <2>0, <2>2, <2>3, <2>4
<1>25. \A y \in Range(q) : y \in PartsIn(c) /\ y \in Blocks /\ y # p
  <2>1. Range(q) = {q[j] : j \in 1..(n - 1)}
    BY <1>14, SeqFacts
  <2> QED BY <1>22, <2>1
<1>26. Calm(t, k)
  <2>1. \A y \in Range(q) : /\ \A j \in 1..Len(t.obj[y].refs) : t.obj[y].refs[j] # FS_NULL
                            /\ t.obj[y].kind = "dext" => t.obj[y].refs # <<>>
    BY <1>0, <1>20, <1>25 DEF Calm, Full
  <2>2. \A y \in PartsIn(c) \ Range(c[h]) : t.obj[y] = disk.obj[y]
    <3>1. p \in Range(l) /\ a \in Range(l) /\ (i < n => l[i + 1] \in Range(l))
      <4>1. i < n => i + 1 \in 1..n
        BY <1>1, <1>2
      <4> QED BY <1>2, <1>3, <1>5, <4>1 DEF a
    <3> QED BY <1>3, <1>19, <3>1 DEF l
  <2>3. t.obj[h].kind = disk.obj[h].kind /\ t.obj[h].parent = disk.obj[h].parent
    BY <1>3, <1>20
  <2>4. Range(q) \cap PartsIn(c) \subseteq Range(c[h])
    BY <1>14 DEF l
  <2>5. k = [c EXCEPT ![h] = q]
    BY DEF q, l
  <2>6. /\ Shape(c) /\ Calm(disk, c) /\ h \in DOMAIN c /\ q \in Seq(Blocks) /\ Len(q) > 0
        /\ q[1] = h /\ IsInjective(q)
    BY <1>0, <1>14
  <2>7. Relinked(c, k, h, q, disk, t)
    BY <1>23, <1>24, <2>1, <2>2, <2>3, <2>4, <2>5, <2>6 DEF Relinked
  <2> QED BY ONLY <2>6, <2>7, CalmRelinked
<1>27. ASSUME NEW x \in DOMAIN c PROVE RefsIn(t, k[x]) = RefsIn(disk, c[x]) \ {r}
  <2>0. \A y \in PartsIn(c) : y # p => r \notin Range(disk.obj[y].refs)
    <3>1. r \in Range(disk.obj[p].refs)
      BY DEF Range
    <3> QED BY <1>3, <3>1, OneHolder
  <2>1. k[x] \in Seq(Blocks) /\ c[x] \in Seq(Blocks) /\ Range(k[x]) \subseteq PartsIn(k)
        /\ Range(c[x]) \subseteq PartsIn(c)
    BY <1>0, <1>17 DEF Shape, PartsIn
  <2>2. Range(k[x]) \subseteq Range(c[x]) /\ \A y \in Range(c[x]) \ Range(k[x]) : y = p
    BY <1>14, <1>17 DEF l
  <2>3. \A y \in Range(k[x]) : y \in Blocks /\ y # p /\ y \in PartsIn(c)
    BY <1>17, <2>1
  <2>4. \A y \in Range(k[x]) : Range(t.obj[y].refs) = Range(disk.obj[y].refs) \ {r}
    BY <1>20, <2>0, <2>3
  <2>5. Range(disk.obj[p].refs) \subseteq {r}
    BY DEF Range
  <2>6. Without(disk, t, r, Range(c[x]), Range(k[x]))
    BY <2>2, <2>4, <2>5 DEF Without
  <2> QED BY ONLY <2>1, <2>2, <2>6, RefsRemoved
<1>28. \A x \in DOMAIN c : t.obj[x].kind = disk.obj[x].kind /\ t.obj[x].parent = disk.obj[x].parent
  <2>1. DOMAIN c \subseteq PartsIn(k) /\ DOMAIN c \subseteq Blocks
    BY <1>0, <1>3, <1>17, ShapeFacts
  <2> QED BY <1>17, <1>20, <2>1
<1>29. SameSizes(disk, t, k)
  <2>1. t3.size = disk.size
    BY <1>10, <1>14, <1>16
  <2> QED BY <1>18, <2>1 DEF SameSizes
<1>30. Less(disk, c, t, k, h, r)
    BY <1>17, <1>18, <1>26, <1>27, <1>28, <1>29 DEF Less, Quiet
<1>31. Runs(disk, <<Obj(p, [disk.obj[p] EXCEPT !.refs = <<FS_NULL>>])>> \o
                  Unlinked(h, p) \o fs_free(p), t, {}, z)
  <2> DEFINE w1 == <<Obj(p, o1)>>
             w2 == <<Obj(a, oa)>>
             w3 == IF Live(o.next) THEN <<Obj(o.next, [disk.obj[o.next] EXCEPT !.prev = o.prev])>>
                   ELSE <<>>
             w4 == fs_free(p)
  <2>1. Runs(disk, w1, t1, {}, z)
    BY <1>0, <1>3, <1>9, <1>11, <1>12, PutRuns DEF Fine
  <2>2. Runs(t1, w2, t2, {}, z)
    BY <1>3, <1>12, <1>14, <1>15, PutRuns DEF Fine
  <2>3. Runs(t2, w3, t3, {}, z)
    BY <1>16
  <2>4. Runs(t3, w4, t, {}, z)
    BY <1>18
  <2>5. Unlinked(h, p) = w2 \o w3
    BY <1>6 DEF Unlinked, oa, o
  <2>6. <<Obj(p, [disk.obj[p] EXCEPT !.refs = <<FS_NULL>>])>> = w1
    BY DEF o1, o
  <2> HIDE DEF w1, w2, w3, w4
  <2>7. Runs(t1, w2 \o w3, t3, {}, z)
    BY <2>2, <2>3, RunsConcat
  <2>8. Runs(disk, w1 \o (w2 \o w3), t3, {}, z)
    BY <2>1, <2>7, RunsConcat
  <2>9. Runs(disk, (w1 \o (w2 \o w3)) \o w4, t, {}, z)
    BY <2>4, <2>8, RunsConcat
  <2> QED BY <2>5, <2>6, <2>9 DEF w4
<1> QED BY <1>30, <1>31

LEMMA Removal ==
    ASSUME NEW c, Quiet(disk, c), NEW h \in DOMAIN c, NEW r \in RefsIn(disk, c[h]), NEW z
    PROVE  \E t, k : /\ Runs(disk, fs_directory_remove_reference(h, r), t, {}, z)
                     /\ Less(disk, c, t, k, h, r)
<1> DEFINE l == c[h]
           holds == {i \in DOMAIN l : Contains(disk.obj[l[i]].refs, r)}
           i == Min(holds)
           p == l[i]
           o == disk.obj[p]
<1>0. Sound(disk, c, {}) /\ disk \in Disks /\ Shape(c)
    BY DEF Quiet, Sound
<1>1. /\ l \in Seq(Blocks) /\ Len(l) \in Nat /\ DOMAIN l = 1..Len(l) /\ l[1] = h
      /\ \A j \in 1..Len(l) : l[j] \in Blocks /\ l[j] \in PartsIn(c)
    BY <1>0, ChainFacts
<1>2. Parts(h) = l
    BY <1>0, PartsOnDisk
<1>3. holds # {} /\ holds \subseteq Nat
  <2>1. PICK j \in 1..Len(l) : r \in Range(disk.obj[l[j]].refs)
    BY DEF RefsIn
  <2>2. Range(disk.obj[l[j]].refs) = {disk.obj[l[j]].refs[a] : a \in 1..Len(disk.obj[l[j]].refs)}
    BY <1>0, <1>1, RefsFacts
  <2>3. j \in holds
    BY <1>1, <2>1, <2>2 DEF Contains
  <2>4. holds \subseteq Nat
    BY <1>1
  <2> QED BY <2>3, <2>4
<1>4. i \in holds
  <2> HIDE DEF holds
  <2> QED BY <1>3, MinExists
<1>5. /\ i \in 1..Len(l) /\ p \in Blocks /\ p \in PartsIn(c) /\ Contains(o.refs, r)
      /\ p \in Range(c[h])
    BY <1>0, <1>1, <1>4, InChain
<1>6. o.refs \in Seq(0..block_count) /\ Len(o.refs) \in Nat /\ DOMAIN o.refs = 1..Len(o.refs)
      /\ r \in Range(o.refs)
  <2> HIDE DEF p
  <2>1. o.refs \in Seq(0..block_count) /\ Len(o.refs) \in Nat /\ DOMAIN o.refs = 1..Len(o.refs)
    BY <1>0, <1>5, RefsFacts
  <2> QED BY <1>5, <2>1 DEF Contains, Range
<1>7. r # FS_NULL
    BY <1>5, <1>6, OneHolder
<1>8. fs_directory_remove_reference(h, r) =
        IF p = h \/ Len(o.refs) > 1
        THEN <<Obj(p, [o EXCEPT !.refs = RemoveFirst(o.refs, r)])>>
        ELSE <<Obj(p, [o EXCEPT !.refs = <<FS_NULL>>])>> \o Unlinked(h, p) \o fs_free(p)
  <2> HIDE DEF l
  <2>1. fs_directory_remove_reference(h, r) =
          IF r = FS_NULL \/ holds = {} THEN <<>>
          ELSE IF p = h \/ Len(o.refs) > 1
               THEN <<Obj(p, [o EXCEPT !.refs = RemoveFirst(o.refs, r)])>>
          ELSE <<Obj(p, [o EXCEPT !.refs = <<FS_NULL>>])>> \o Unlinked(h, p) \o fs_free(p)
    BY <1>2 DEF fs_directory_remove_reference
  <2> QED BY <1>3, <1>7, <2>1
<1> HIDE DEF holds, i, l
<1>9. CASE p = h \/ Len(o.refs) > 1
  <2> DEFINE u == [disk.obj[p] EXCEPT !.refs = RemoveFirst(disk.obj[p].refs, r)]
             t == Written(disk, Obj(p, u))
  <2>1. Runs(disk, <<Obj(p, u)>>, t, {}, z) /\ Less(disk, c, t, c, h, r)
    BY <1>5, <1>6, <1>9, EntryRemoved
  <2>2. fs_directory_remove_reference(h, r) = <<Obj(p, u)>>
    BY <1>8, <1>9
  <2> QED BY <2>1, <2>2
<1>10. CASE ~(p = h \/ Len(o.refs) > 1)
  <2>1. i # 1
    BY <1>1, <1>10
  <2>2. i \in 2..Len(c[h]) /\ p = c[h][i]
    BY <1>1, <1>5, <2>1 DEF l
  <2>3. disk.obj[p].refs = <<r>>
    <3>1. Len(o.refs) # 0
      BY <1>6 DEF Range
    <3>4. \A n \in Nat : n # 0 /\ ~(n > 1) => n = 1
      OBVIOUS
    <3>2. Len(o.refs) = 1
      BY <1>6, <1>10, <3>1, <3>4
    <3>3. o.refs[1] = r
      BY <1>6, <3>2 DEF Range
    <3> QED BY <1>6, <3>2, <3>3
  <2> HIDE DEF p
  <2> DEFINE ws == <<Obj(p, [disk.obj[p] EXCEPT !.refs = <<FS_NULL>>])>> \o Unlinked(h, p) \o fs_free(p)
             k == [c EXCEPT ![h] = Skip(c[h], i)]
  <2>4. \E t : Runs(disk, ws, t, {}, z) /\ Less(disk, c, t, k, h, r)
    BY <2>2, <2>3, ExtentRemoved
  <2>5. fs_directory_remove_reference(h, r) = ws
    BY <1>8, <1>10
  <2> HIDE DEF ws, k
  <2> QED BY <2>4, <2>5
<1> QED BY <1>9, <1>10

(* Nothing is left of header f, and no reference to it.                    *)
Gone(s, c, t, g, f) ==
    /\ Quiet(t, g) /\ DOMAIN g = DOMAIN c \ {f}
    /\ \A x \in DOMAIN g : t.obj[x].kind = s.obj[x].kind /\ t.obj[x].parent = s.obj[x].parent
    /\ \A x \in DOMAIN g : RefsIn(t, g[x]) = RefsIn(s, c[x]) \ {f}

LEMMA ObjectDeleted ==
    ASSUME NEW c, Quiet(disk, c), NEW h \in DOMAIN c, NEW f \in RefsIn(disk, c[h]),
           f # Root, f # h, disk.obj[f].kind = "dir" => RefsIn(disk, c[f]) = {}, NEW z
    PROVE  \E t, g : /\ Runs(disk, fs_directory_remove_reference(h, f) \o FreeAll(Append(Chain(f), f)),
                             t, {}, z)
                     /\ Gone(disk, c, t, g, f)
<1>0. Sound(disk, c, {}) /\ disk \in Disks /\ Shape(c)
    BY DEF Quiet, Sound
<1>1. f \in DOMAIN c
  <2>1. PICK i \in 1..Len(c[h]) : f \in Range(disk.obj[c[h][i]].refs)
    BY DEF RefsIn
  <2>2. c[h][i] \in PartsIn(c)
    BY <1>0, InChain
  <2> QED BY <2>1, <2>2, OneHolder
<1>2. PICK t, k : /\ Runs(disk, fs_directory_remove_reference(h, f), t, {}, z)
                  /\ Less(disk, c, t, k, h, f)
    BY Removal
<1>3. /\ Quiet(t, k) /\ DOMAIN k = DOMAIN c /\ PartsIn(k) \subseteq PartsIn(c)
      /\ \A x \in DOMAIN c \ {h} : k[x] = c[x]
      /\ \A x \in DOMAIN c : t.obj[x].kind = disk.obj[x].kind /\ t.obj[x].parent = disk.obj[x].parent
      /\ \A x \in DOMAIN c : RefsIn(t, k[x]) = RefsIn(disk, c[x]) \ {f}
      /\ \A p \in PartsIn(k) : t.size[p] = disk.size[p]
    BY <1>2 DEF Less, SameSizes
<1>4. k[f] = c[f] /\ \A x \in DOMAIN k : f \notin RefsIn(t, k[x])
    BY <1>1, <1>3
<1>5. t.obj[f].kind = "dir" => t.obj[f].refs = <<>> /\ t.obj[f].next = FS_NULL
    BY <1>1, <1>3, EmptyDirectory
<1> DEFINE g == [x \in DOMAIN c \ {f} |-> k[x]]
           ws == FreeAll(Append(Chain(f), f))
<1>6. PICK u : /\ Runs(t, FreeAll(Append(Chain(f), f)), u, {}, z) /\ Quiet(u, g)
               /\ u.obj = t.obj
  <2>1. Unlinkable(c, t, k, f, g)
    BY <1>3, <1>4, <1>5 DEF Unlinkable, SameSizes
  <2>2. Quiet(disk, c) /\ Quiet(t, k)
    BY <1>3
  <2> HIDE DEF g
  <2> QED BY ONLY <1>1, <2>1, <2>2, FreedOK
<1>7. Runs(disk, fs_directory_remove_reference(h, f) \o ws, u, {}, z)
  <2>1. Runs(t, ws, u, {}, z)
    BY <1>6
  <2> HIDE DEF ws
  <2> QED BY <1>2, <2>1, RunsConcat
<1>8. Gone(disk, c, u, g, f)
  <2>1. DOMAIN g = DOMAIN c \ {f} /\ \A x \in DOMAIN g : g[x] = k[x]
    OBVIOUS
  <2> HIDE DEF g
  <2>2. \A x \in DOMAIN g : RefsIn(u, g[x]) = RefsIn(t, k[x])
    BY <1>6, <2>1 DEF RefsIn
  <2> QED BY <1>3, <1>6, <2>1, <2>2 DEF Gone
<1> QED BY <1>7, <1>8

(* A directory that nothing refers to, once it is empty.                   *)
LEMMA EmptyDeleted ==
    ASSUME NEW c, Quiet(disk, c), NEW f \in DOMAIN c, f # Root, disk.obj[f].kind = "dir",
           RefsIn(disk, c[f]) = {}, \A x \in DOMAIN c : f \notin RefsIn(disk, c[x]), NEW z
    PROVE  \E t, g : Runs(disk, FreeAll(Append(Chain(f), f)), t, {}, z) /\ Quiet(t, g)
<1>1. disk.obj[f].refs = <<>> /\ disk.obj[f].next = FS_NULL
    BY EmptyDirectory
<1> DEFINE g == [x \in DOMAIN c \ {f} |-> c[x]]
<1>2. \E u : Runs(disk, FreeAll(Append(Chain(f), f)), u, {}, z) /\ Quiet(u, g) /\ u.obj = disk.obj
  <2>1. Unlinkable(c, disk, c, f, g)
    BY <1>1 DEF Unlinkable, SameSizes
  <2> QED BY <2>1, FreedOK
<1> QED BY <1>2

-----------------------------------------------------------------------------
(***************************************************************************)
(* Operations: blocks are allocated, and a reference is added.             *)
(***************************************************************************)
LEMMA FirstFitFacts ==
    ASSUME NEW n \in Nat, NEW taken, NEW b, b = FirstFit(n, taken), b # FS_NULL
    PROVE  b \in Blocks /\ Free(b, n, taken)
<1> DEFINE starts == {x \in Blocks : Free(x, n, taken)}
<1>1. b = IF starts = {} THEN FS_NULL ELSE CHOOSE x \in starts : \A y \in starts : x <= y
    BY DEF FirstFit
<1>2. starts \subseteq Blocks /\ starts \subseteq Nat /\ \A x \in starts : Free(x, n, taken)
    BY DEF Blocks
<1> HIDE DEF starts
<1>3. starts # {}
    BY <1>1
<1>4. \E x \in starts : \A y \in starts : x <= y
    BY <1>2, <1>3, NatMin
<1>5. b \in starts
    BY <1>1, <1>3, <1>4
<1> QED BY <1>2, <1>5

(* Free blocks are not part of anything.                                   *)
LEMMA FreeIsOutside ==
    ASSUME NEW s, NEW P, Room(s, P), s \in Disks, P \subseteq Blocks, NEW b \in Blocks,
           NEW n \in Nat \ {0}, Run(b, n) \cap s.bits = {}
    PROVE  b \notin P /\ \A x \in P : Run(b, n) \cap Run(x, s.size[x]) = {}
<1>1. b \in Run(b, n)
    BY DEF Run, Blocks
<1>2. ASSUME b \in P PROVE FALSE
  <2>1. s.size[b] \in Nat /\ s.size[b] > 0 /\ Run(b, s.size[b]) \subseteq s.bits
    BY <1>2, DiskFacts DEF Room, Here, LiveOn
  <2>2. b \in Run(b, s.size[b])
    BY <2>1 DEF Run, Blocks
  <2> QED BY <1>1, <2>1, <2>2
<1>3. \A x \in P : Run(x, s.size[x]) \subseteq s.bits
    BY DEF Room, Here
<1> QED BY <1>2, <1>3

(* The n blocks from b are allocated on t.                                 *)
Allocated(s, t, c, m, b, n) ==
    /\ Sound(t, c, m) /\ Here(t, b) /\ t.obj = s.obj /\ t.size[b] = n
    /\ t.bits = s.bits \cup Run(b, n) /\ \A x \in Blocks \ {b} : t.size[x] = s.size[x]

LEMMA AllocOK ==
    ASSUME NEW s, NEW c, NEW m, Sound(s, c, m), Ends(s, c), NEW b \in Blocks,
           NEW n \in 1..block_count, Run(b, n) \subseteq Blocks, Run(b, n) \cap s.bits = {}, NEW z
    PROVE  \E t : Runs(s, fs_alloc(b, n), t, m, z) /\ Allocated(s, t, c, m, b, n)
<1> DEFINE u == Written(s, Take(b, n))
           t == Written(u, Size(b, n))
<1>0. s \in Disks /\ Room(s, PartsIn(c)) /\ PartsIn(c) \subseteq Blocks /\ n \in Nat /\ n # 0
    BY BaseFSAssumption, ShapeFacts DEF Sound
<1>1. u \in Disks /\ u.bits = s.bits \cup Run(b, n) /\ u.size = s.size /\ u.obj = s.obj
    BY <1>0, TakenFacts
<1>2. Sound(u, c, m)
    BY <1>0, TakeOK
<1>3. b \notin PartsIn(c)
    BY <1>0, FreeIsOutside
<1>4. u = Written(s, Take(b, n))
    OBVIOUS
<1> HIDE DEF u
<1>5. Ends(u, c)
    BY <1>1 DEF Ends
<1>6. Sound(t, c, m) /\ Here(t, b)
  <2>1. b \in Blocks \ PartsIn(c) /\ Run(b, n) \subseteq u.bits
    BY <1>1, <1>3
  <2> QED BY <1>2, <1>5, <2>1, SizeOK
<1>7. /\ t \in Disks /\ t.bits = u.bits /\ t.obj = u.obj
      /\ t.size[b] = n /\ \A x \in Blocks \ {b} : t.size[x] = u.size[x]
  <2>1. n \in 0..block_count
    BY BaseFSAssumption
  <2> QED BY <1>1, <2>1, SizedFacts
<1>8. t = Written(u, Size(b, n))
    OBVIOUS
<1> HIDE DEF t
<1>9. Runs(s, <<Take(b, n)>>, u, m, z)
  <2>1. Take(b, n) \in Writes /\ Take(b, n).to # "size"
    BY <1>0, WritesFacts DEF Take
  <2>2. Fits(s, Take(b, n), m, z) /\ Fine(u, m)
    BY <1>2, <2>1 DEF Fits, Fine
  <2> QED BY <1>4, <2>1, <2>2, RunsOne
<1>10. Runs(u, <<Size(b, n)>>, t, m, z)
  <2>1. Size(b, n) \in Writes /\ Size(b, n).at = b
    BY <1>0, WritesFacts DEF Size
  <2>2. Fits(u, Size(b, n), m, z) /\ Fine(t, m)
    BY <1>2, <1>3, <1>6, <2>1 DEF Fits, Fine
  <2> QED BY <1>8, <2>1, <2>2, RunsOne
<1>11. fs_alloc(b, n) = <<Take(b, n)>> \o <<Size(b, n)>>
    BY DEF fs_alloc
<1>12. Runs(s, fs_alloc(b, n), t, m, z)
    BY <1>9, <1>10, <1>11, RunsConcat
<1> QED BY <1>1, <1>6, <1>7, <1>12 DEF Allocated

LEMMA MakingOK ==
    ASSUME NEW s, NEW c, Sound(s, c, {}), NEW b \in Blocks \ PartsIn(c)
    PROVE  Sound(s, c, {b})
<1>1. Known(s, c, {}) \subseteq Known(s, c, {b})
    BY DEF Known
<1>2. Referring(s, PartsIn(c), Known(s, c, {b}))
  <2>1. Referring(s, PartsIn(c), Known(s, c, {}))
    BY DEF Sound
  <2>2. \A p \in PartsIn(c) : \/ p \in PartsIn(c) /\ s.obj[p].refs = s.obj[p].refs
                              \/ s.obj[p].refs = <<>>
    OBVIOUS
  <2> QED BY ONLY <1>1, <2>1, <2>2, ReferringStays
<1> QED BY <1>2 DEF Sound

(* The block b is ready for its header; nothing refers to it yet.          *)
Ready(s, c, b) ==
    /\ Sound(s, c, {b}) /\ Calm(s, c) /\ Here(s, b) /\ b \notin PartsIn(c)
    /\ \A x \in PartsIn(c) : Run(b, s.size[b]) \cap Run(x, s.size[x]) = {}

Unheld(s, P, b) == \A p \in P : b \notin Range(s.obj[p].refs)

LEMMA EntryPut ==
    ASSUME NEW s, NEW c, NEW b, Sound(s, c, {b}), Here(s, b), NEW p \in PartsIn(c),
           Unheld(s, PartsIn(c), b), NEW o \in Contents,
           o = [s.obj[p] EXCEPT !.refs = Append(s.obj[p].refs, b)], NEW t, t = Written(s, Obj(p, o))
    PROVE  Sound(t, c, {b})
<1> DEFINE r == s.obj[p].refs
           n == Len(r)
           l == Append(r, b)
<1>0. s \in Disks /\ PartsIn(c) \subseteq Blocks /\ p \in Blocks /\ b \in Blocks
      /\ Referring(s, PartsIn(c), Known(s, c, {b}))
    BY ShapeFacts DEF Sound
<1>1. r \in Seq(0..block_count) /\ n \in Nat /\ Range(r) = {r[i] : i \in 1..n} /\ s.obj[p] \in Object
    BY <1>0, RefsFacts, DiskFacts
<1>2. o.refs = l /\ o.kind = s.obj[p].kind /\ o.next = s.obj[p].next
    BY <1>1 DEF Object
<1>3. b \in 0..block_count
    BY <1>0, BaseFSAssumption DEF Blocks
<1> HIDE DEF r, n
<1>4. Len(l) = n + 1 /\ (\A i \in 1..n : l[i] = r[i]) /\ l[n + 1] = b
    BY <1>1, <1>3 DEF n
<1> HIDE DEF l
<1>5. /\ t \in Disks /\ t.bits = s.bits /\ t.size = s.size /\ t.obj[p] = o
      /\ \A x \in Blocks \ {p} : t.obj[x] = s.obj[x]
  <2>1. s \in Disks /\ p \in Blocks /\ o \in Contents /\ t = Written(s, Obj(p, o))
    BY <1>0
  <2> QED BY ONLY <2>1, PutFacts
<1>6. \A i \in 1..Len(l) : i \in 1..n \/ (i = n + 1 /\ l[i] = b)
    BY <1>1, <1>4
<1>7. \A i \in 1..n : r[i] \in Known(s, c, {b}) \cup {FS_NULL} /\ r[i] # b
    BY <1>0, <1>1 DEF Referring, Unheld, r, n
<1>8. b \in Known(s, c, {b})
    BY DEF Known
<1>9. Referring(t, PartsIn(c), Known(s, c, {b}))
  <2>1. t.obj[p].refs = l
    BY <1>2, <1>5
  <2>2. \A x \in PartsIn(c) \ {p} : t.obj[x].refs = s.obj[x].refs
    BY <1>0, <1>5
  <2>3. \A i \in 1..Len(l) : l[i] \in Known(s, c, {b}) \cup {FS_NULL}
    BY <1>4, <1>6, <1>7, <1>8
  <2>4. ASSUME NEW i \in 1..Len(l), NEW j \in 1..Len(l), l[i] = l[j], l[i] # FS_NULL PROVE i = j
    <3>1. \A a, d \in 1..n : r[a] = r[d] /\ r[a] # FS_NULL => a = d
      BY <1>0 DEF Referring, r, n
    <3> QED BY <1>4, <1>6, <1>7, <2>4, <3>1
  <2>5. ASSUME NEW x \in PartsIn(c) \ {p}, NEW i \in 1..Len(s.obj[x].refs), NEW j \in 1..Len(l),
               s.obj[x].refs[i] = l[j]
        PROVE  l[j] = FS_NULL
    <3>0. x \in PartsIn(c) /\ x \in Blocks /\ x # p
      BY <1>0
    <3>1. CASE j \in 1..n
      <4>1. s.obj[x].refs[i] = s.obj[p].refs[j] /\ j \in 1..Len(s.obj[p].refs)
        BY <1>4, <2>5, <3>1 DEF r, n
      <4>2. s.obj[x].refs[i] # FS_NULL => x = p
        BY <1>0, <3>0, <4>1 DEF Referring
      <4> QED BY <2>5, <3>0, <4>2
    <3>2. CASE l[j] = b
      <4>1. Range(s.obj[x].refs) = {s.obj[x].refs[a] : a \in 1..Len(s.obj[x].refs)}
        BY <1>0, <3>0, RefsFacts
      <4>2. b \notin Range(s.obj[x].refs)
        BY <3>0 DEF Unheld
      <4> QED BY <2>5, <3>2, <4>1, <4>2
    <3> QED BY <1>6, <3>1, <3>2
  <2>6. Referring(s, PartsIn(c), Known(s, c, {b})) /\ p \in PartsIn(c)
    BY <1>0
  <2>7. /\ \A i, j \in 1..Len(l) : l[i] = l[j] /\ l[i] # FS_NULL => i = j
        /\ \A x \in PartsIn(c) \ {p} : \A i \in 1..Len(s.obj[x].refs), j \in 1..Len(l) :
              s.obj[x].refs[i] = l[j] => l[j] = FS_NULL
    BY <2>4, <2>5
  <2>8. Rereferred(s, t, PartsIn(c), Known(s, c, {b}), p, l)
    BY <2>1, <2>2, <2>3, <2>7 DEF Rereferred
  <2> QED BY ONLY <2>6, <2>8, ReferringPut
<1> QED BY <1>2, <1>9, PutOK

(* The entry b goes into part p, which has room.                           *)
LEMMA EntryAdded ==
    ASSUME NEW s, NEW c, NEW b, Ready(s, c, b), b # FS_NULL, NEW p \in PartsIn(c),
           Unheld(s, PartsIn(c), b), NEW o \in Contents,
           o = [s.obj[p] EXCEPT !.refs = Append(s.obj[p].refs, b)], NEW t, t = Written(s, Obj(p, o)),
           NEW z
    PROVE  Runs(s, <<Obj(p, o)>>, t, {b}, z) /\ Ready(t, c, b)
<1>0. Sound(s, c, {b}) /\ Calm(s, c) /\ Here(s, b) /\ s \in Disks /\ Shape(c) /\ PartsIn(c) \subseteq Blocks
      /\ p \in Blocks /\ DOMAIN c \subseteq PartsIn(c)
    BY ShapeFacts DEF Ready, Sound
<1>1. /\ t \in Disks /\ t.bits = s.bits /\ t.size = s.size /\ t.obj[p] = o
      /\ \A x \in Blocks \ {p} : t.obj[x] = s.obj[x]
  <2>1. s \in Disks /\ p \in Blocks /\ o \in Contents /\ t = Written(s, Obj(p, o))
    BY <1>0
  <2> QED BY ONLY <2>1, PutFacts
<1>2. Sound(t, c, {b})
    BY <1>0, EntryPut
<1>3. Runs(s, <<Obj(p, o)>>, t, {b}, z)
  <2>1. Fine(s, {b}) /\ Fine(t, {b}) /\ p \in Blocks /\ o \in Contents /\ t = Written(s, Obj(p, o))
    BY <1>0, <1>2 DEF Fine
  <2> QED BY ONLY <2>1, PutRuns
<1>4. /\ o.kind = s.obj[p].kind /\ o.next = s.obj[p].next /\ o.prev = s.obj[p].prev
      /\ o.parent = s.obj[p].parent /\ o.refs = Append(s.obj[p].refs, b)
  <2>1. s.obj[p] \in Object
    BY <1>0, DiskFacts
  <2> QED BY <2>1 DEF Object
<1>5. Calm(t, c)
  <2>1. \A x \in PartsIn(c) : t.obj[x].next = s.obj[x].next /\ t.obj[x].prev = s.obj[x].prev
    BY <1>0, <1>1, <1>4
  <2>2. \A x \in DOMAIN c : t.obj[x].kind = s.obj[x].kind /\ t.obj[x].parent = s.obj[x].parent
    BY <1>0, <1>1, <1>4
  <2>3. ASSUME NEW x \in PartsIn(c)
        PROVE  /\ \A i \in 1..Len(t.obj[x].refs) : t.obj[x].refs[i] # FS_NULL
               /\ t.obj[x].kind = "dext" => t.obj[x].refs # <<>>
    <3>1. CASE x # p
      <4>1. t.obj[x] = s.obj[x]
        BY <1>0, <1>1, <3>1
      <4> QED BY <1>0, <4>1 DEF Calm, Full
    <3>2. CASE x = p
      <4>1. s.obj[p].refs \in Seq(0..block_count)
        BY <1>0, RefsFacts
      <4> DEFINE r == s.obj[p].refs
                 l == Append(r, b)
      <4>2. \A i \in 1..Len(r) : r[i] # FS_NULL
        BY <1>0 DEF Calm, Full
      <4>3. r \in Seq(0..block_count) /\ b \in 0..block_count
        BY <1>0, <4>1, BaseFSAssumption DEF Here, LiveOn, Blocks
      <4> HIDE DEF r
      <4>4. l # <<>> /\ \A i \in 1..Len(l) : l[i] # FS_NULL
        <5>1. Len(l) = Len(r) + 1 /\ Len(r) \in Nat /\ l[Len(r) + 1] = b
              /\ \A i \in 1..Len(r) : l[i] = r[i]
          BY <4>3
        <5>2. \A i \in 1..Len(l) : i \in 1..Len(r) \/ i = Len(r) + 1
          BY <5>1
        <5>3. l \in Seq(0..block_count) /\ Len(l) # 0
          BY <4>3, <5>1
        <5> QED BY <4>2, <5>1, <5>2, <5>3
      <4>5. t.obj[x].refs = l
        BY <1>1, <1>4, <3>2 DEF r
      <4> HIDE DEF l
      <4> QED BY <4>4, <4>5
    <3> QED BY <3>1, <3>2
  <2> QED BY ONLY <1>0, <2>1, <2>2, <2>3, CalmPut
<1>6. Here(t, b)
    BY <1>0, <1>1 DEF Here, LiveOn
<1> QED BY <1>1, <1>2, <1>3, <1>5, <1>6 DEF Ready

LEMMA NewObjects ==
    ASSUME NEW p \in 0..block_count
    PROVE  /\ DirectoryExtent(p) \in Contents /\ DirectoryExtent(p).kind = "dext"
           /\ DirectoryExtent(p).refs = <<>> /\ DirectoryExtent(p).next = FS_NULL
           /\ DirectoryExtent(p).prev = p
           /\ Directory(p) \in Contents /\ Directory(p).kind = "dir"
           /\ Directory(p).refs = <<>> /\ Directory(p).next = FS_NULL
           /\ File \in Contents /\ File.kind = "file" /\ File.refs = <<>> /\ File.next = FS_NULL
           /\ \A n \in 0..MaxSize :
                /\ FileExtent(p, n) \in Contents /\ FileExtent(p, n).kind = "fext"
                /\ FileExtent(p, n).refs = <<>> /\ FileExtent(p, n).next = FS_NULL
                /\ FileExtent(p, n).prev = p
<1> DEFINE none == <<>>
<1>1. 0 \in 0..block_count /\ 0 \in 0..MaxSize /\ none \in Seq(0..block_count) /\ Len(none) = 0
    BY BaseFSAssumption
<1>2. 0 <= HeaderRefs /\ 0 <= ExtentRefs
    BY BaseFSAssumption
<1> HIDE DEF none
<1>3. Zeros = [kind |-> "zeros", parent |-> 0, next |-> 0, prev |-> 0, refs |-> none, len |-> 0]
    BY DEF Zeros, none
<1>4. ASSUME NEW o \in Object, o.refs = none PROVE o \in Contents
    BY <1>1, <1>2, <1>4 DEF Contents
<1>5. /\ DirectoryExtent(p) \in Object /\ DirectoryExtent(p).kind = "dext"
      /\ DirectoryExtent(p).refs = none /\ DirectoryExtent(p).next = FS_NULL
      /\ DirectoryExtent(p).prev = p
    BY <1>1, <1>3 DEF DirectoryExtent, Object, FS_NULL
<1>6. /\ Directory(p) \in Object /\ Directory(p).kind = "dir"
      /\ Directory(p).refs = none /\ Directory(p).next = FS_NULL
    BY <1>1, <1>3 DEF Directory, Object, FS_NULL
<1>7. File \in Object /\ File.kind = "file" /\ File.refs = none /\ File.next = FS_NULL
    BY <1>1, <1>3 DEF File, Object, FS_NULL
<1>8. ASSUME NEW n \in 0..MaxSize
      PROVE  /\ FileExtent(p, n) \in Object /\ FileExtent(p, n).kind = "fext"
             /\ FileExtent(p, n).refs = none /\ FileExtent(p, n).next = FS_NULL
             /\ FileExtent(p, n).prev = p
    BY <1>1, <1>3 DEF FileExtent, Object, FS_NULL
<1> QED BY <1>4, <1>5, <1>6, <1>7, <1>8 DEF none

(* The entry b goes into a new extent e behind the last part p.            *)
LEMMA ExtentAdded ==
    ASSUME NEW s, NEW c, NEW b, Ready(s, c, b), b # FS_NULL, s.obj = disk.obj, NEW h \in DOMAIN c,
           s.obj[h].kind = "dir", NEW p, p = c[h][Len(c[h])], Unheld(s, PartsIn(c), b),
           NEW e \in Blocks, e # b, Run(e, 1) \subseteq Blocks, Run(e, 1) \cap s.bits = {}, NEW z
    PROVE  \E t, k : Runs(s, AddExtent(p, b, e), t, {b}, z) /\ Ready(t, k, b)
<1> DEFINE ext == DirectoryExtent(p)
           q == Append(c[h], e)
           k == [c EXCEPT ![h] = q]
           last1 == [ext EXCEPT !.refs = <<b>>]
<1>0. /\ Sound(s, c, {b}) /\ Calm(s, c) /\ Here(s, b) /\ b \notin PartsIn(c) /\ b \in Blocks
      /\ s \in Disks /\ Shape(c) /\ PartsIn(c) \subseteq Blocks /\ Ends(s, c) /\ Room(s, PartsIn(c))
      /\ \A x \in PartsIn(c) : Run(b, s.size[b]) \cap Run(x, s.size[x]) = {}
    BY ShapeFacts DEF Ready, Sound, Calm
<1>1. /\ p \in PartsIn(c) /\ p \in Blocks /\ p \in 0..block_count /\ p \in Range(c[h]) /\ h \in PartsIn(c)
      /\ h \in Blocks
  <2>1. p \in PartsIn(c) /\ p \in Blocks
    BY <1>0, LastFacts
  <2>2. p \in Range(c[h])
    BY <1>0, InChain, ShapeFacts
  <2>3. h \in PartsIn(c) /\ h \in Blocks
    BY <1>0, ShapeFacts
  <2> QED BY <2>1, <2>2, <2>3, BaseFSAssumption DEF Blocks
<1>2. /\ ext \in Contents /\ ext.kind = "dext" /\ ext.refs = <<>> /\ ext.next = FS_NULL
      /\ ext.prev = p
    BY <1>1, NewObjects
<1>3. e \notin PartsIn(c) /\ \A x \in PartsIn(c) : Run(e, 1) \cap Run(x, s.size[x]) = {}
  <2>1. 1 \in Nat \ {0}
    OBVIOUS
  <2> QED BY <1>0, <2>1, FreeIsOutside
<1>4. PICK u1 : /\ Runs(s, fs_alloc(e, 1), u1, {b}, z) /\ Sound(u1, c, {b}) /\ Here(u1, e)
                /\ u1.obj = s.obj /\ u1.size[e] = 1 /\ u1.bits = s.bits \cup Run(e, 1)
                /\ \A x \in Blocks \ {e} : u1.size[x] = s.size[x]
  <2>1. 1 \in 1..block_count
    BY BaseFSAssumption
  <2>2. /\ Sound(s, c, {b}) /\ Ends(s, c) /\ e \in Blocks /\ Run(e, 1) \subseteq Blocks
        /\ Run(e, 1) \cap s.bits = {}
    BY <1>0
  <2>3. \E u1 : Runs(s, fs_alloc(e, 1), u1, {b}, z) /\ Allocated(s, u1, c, {b}, e, 1)
    BY ONLY <2>1, <2>2, AllocOK
  <2> QED BY <2>3 DEF Allocated
<1>5. Here(u1, b) /\ Run(b, u1.size[b]) \cap Run(e, 1) = {}
    BY <1>0, <1>4 DEF Here, LiveOn
<1> DEFINE u2 == Written(u1, Obj(e, ext))
<1>6. /\ u2 \in Disks /\ u2.bits = u1.bits /\ u2.size = u1.size /\ u2.obj[e] = ext
      /\ \A x \in Blocks \ {e} : u2.obj[x] = u1.obj[x]
  <2>1. u1 \in Disks /\ e \in Blocks /\ ext \in Contents /\ u2 = Written(u1, Obj(e, ext))
    BY <1>2, <1>4 DEF Sound
  <2> QED BY ONLY <2>1, PutFacts
<1>7. Sound(u2, c, {b}) /\ Runs(u1, <<Obj(e, ext)>>, u2, {b}, z)
  <2>1. /\ Sound(u1, c, {b}) /\ e \in Blocks \ PartsIn(c) /\ ext \in Contents
        /\ ext.kind = "dir" => ext.refs = <<>> /\ ext.next = FS_NULL
        /\ u2 = Written(u1, Obj(e, ext))
    BY <1>2, <1>3, <1>4
  <2> HIDE DEF u2, ext
  <2>2. Sound(u2, c, {b})
    BY ONLY <2>1, PutOutsideOK
  <2>3. Fine(u1, {b}) /\ Fine(u2, {b}) /\ e \in Blocks
    BY <2>1, <2>2 DEF Fine
  <2> QED BY ONLY <2>1, <2>2, <2>3, PutRuns
<1> HIDE DEF u2, ext
<1>8. p # e /\ u2.obj[p] = disk.obj[p] /\ Here(u2, e) /\ Here(u2, b) /\ h # e
  <2>1. p # e /\ h # e
    BY <1>1, <1>3
  <2> QED BY <1>1, <1>4, <1>5, <1>6, <2>1 DEF Here, LiveOn
<1> DEFINE op3 == [disk.obj[p] EXCEPT !.next = e]
           u3 == Written(u2, Obj(p, op3))
<1>9. /\ Sound(u3, k, {b}) /\ u3 \in Disks /\ u3.bits = u2.bits /\ u3.size = u2.size
      /\ u3.obj[p] = op3
      /\ \A x \in Blocks \ {p} : u3.obj[x] = u2.obj[x]
      /\ q \in Seq(Blocks) /\ Len(q) = Len(c[h]) + 1 /\ IsInjective(q)
      /\ \A i \in 1..Len(c[h]) : q[i] = c[h][i]
      /\ q[Len(q)] = e /\ Range(q) = Range(c[h]) \cup {e}
  <2>1. \A x \in PartsIn(c) : Run(e, u2.size[e]) \cap Run(x, u2.size[x]) = {}
    <3>1. \A x \in PartsIn(c) : x \in Blocks \ {e}
      BY <1>0, <1>3
    <3>2. u2.size[e] = 1 /\ \A x \in PartsIn(c) : u2.size[x] = s.size[x]
      BY <1>4, <1>6, <3>1
    <3> QED BY <1>3, <3>2
  <2>2. u2.obj[e].next = FS_NULL /\ u2.obj[e].refs = <<>>
        /\ u2.obj[e].kind = IF u2.obj[h].kind = "dir" THEN "dext" ELSE "fext"
    <3>1. u2.obj[h] = s.obj[h]
      BY <1>1, <1>4, <1>6, <1>8
    <3> QED BY <1>2, <1>6, <3>1
  <2>3. /\ Sound(u2, c, {b}) /\ h \in DOMAIN c /\ p = c[h][Len(c[h])] /\ e \in Blocks
        /\ e \notin PartsIn(c) /\ e \notin {b} /\ Here(u2, e)
    BY <1>3, <1>7, <1>8
  <2>4. /\ u3 = Written(u2, Obj(p, [u2.obj[p] EXCEPT !.next = e])) /\ q = Append(c[h], e)
        /\ k = [c EXCEPT ![h] = q]
    BY <1>8
  <2>5. Appending(u2, u3, c, k, h, p, e, q)
    BY <2>1, <2>2, <2>3, <2>4 DEF Appending
  <2> HIDE DEF u3, k, q, op3
  <2>6. /\ Sound(u3, k, {b}) /\ u3 \in Disks /\ u3.bits = u2.bits /\ u3.size = u2.size
        /\ u3.obj[p] = [u2.obj[p] EXCEPT !.next = e]
        /\ \A x \in Blocks \ {p} : u3.obj[x] = u2.obj[x]
        /\ q \in Seq(Blocks) /\ Len(q) = Len(c[h]) + 1 /\ IsInjective(q)
        /\ \A i \in 1..Len(c[h]) : q[i] = c[h][i]
        /\ q[Len(q)] = e /\ Range(q) = Range(c[h]) \cup {e}
    BY ONLY <2>3, <2>5, AppendedOK
  <2> QED BY <1>8, <2>6 DEF op3
<1>10. u3 = Written(u2, Obj(p, op3)) /\ k = [c EXCEPT ![h] = q] /\ op3 \in Contents
  <2>1. disk.obj[p] \in Contents /\ e \in 0..block_count /\ 0 \in 0..MaxSize
    BY <1>0, <1>1, DiskFacts, BaseFSAssumption DEF Blocks
  <2> QED BY <2>1, ContentsFacts
<1>11. /\ op3.kind = s.obj[p].kind /\ op3.refs = s.obj[p].refs /\ op3.prev = s.obj[p].prev
       /\ op3.parent = s.obj[p].parent /\ op3.next = e
  <2>1. disk.obj[p] \in Object
    BY <1>0, <1>1, DiskFacts
  <2> QED BY <2>1 DEF Object
<1> HIDE DEF u3, k, op3
<1>12. Runs(u2, <<Obj(p, op3)>>, u3, {b}, z)
  <2>1. Fine(u2, {b}) /\ Fine(u3, {b}) /\ p \in Blocks /\ op3 \in Contents
        /\ u3 = Written(u2, Obj(p, op3))
    BY <1>1, <1>7, <1>9, <1>10 DEF Fine
  <2> QED BY ONLY <2>1, PutRuns
<1>13. /\ Shape(k) /\ DOMAIN k = DOMAIN c /\ k[h] = q /\ \A x \in DOMAIN c \ {h} : k[x] = c[x]
       /\ PartsIn(k) \subseteq PartsIn(c) \cup {e} /\ e \in PartsIn(k)
  <2>1. Shape(k)
    BY <1>9 DEF Sound
  <2>2. DOMAIN k = DOMAIN c /\ k[h] = q /\ \A x \in DOMAIN c \ {h} : k[x] = c[x]
    BY <1>0, <1>10 DEF Shape
  <2>3. PartsIn(k) \subseteq PartsIn(c) \cup {e} /\ e \in PartsIn(k)
    <3>1. Range(q) = Range(c[h]) \cup {e}
      BY <1>9
    <3> HIDE DEF q
    <3>2. e \in PartsIn(k)
      BY <2>2, <3>1 DEF PartsIn
    <3>3. ASSUME NEW x \in PartsIn(k), x # e PROVE x \in PartsIn(c)
      <4>1. PICK g \in DOMAIN c : x \in Range(k[g])
        BY <2>2, <3>3 DEF PartsIn
      <4>2. x \in Range(c[g])
        BY <2>2, <3>1, <3>3, <4>1
      <4> QED BY <4>2 DEF PartsIn
    <3> QED BY <3>2, <3>3
  <2> QED BY <2>1, <2>2, <2>3
<1> HIDE DEF q
<1>14. /\ \A x \in Blocks : x # e /\ x # p => u3.obj[x] = s.obj[x]
       /\ u3.obj[p] = op3 /\ u3.obj[e] = ext
    BY <1>1, <1>4, <1>6, <1>8, <1>9
<1>15. Unheld(u3, PartsIn(k), b)
  <2>1. ASSUME NEW x \in PartsIn(c) PROVE b \notin Range(u3.obj[x].refs)
    <3>1. u3.obj[x].refs = s.obj[x].refs
      BY <1>0, <1>3, <1>11, <1>14
    <3> QED BY <3>1 DEF Unheld
  <2>2. b \notin Range(u3.obj[e].refs)
    BY <1>2, <1>14 DEF Range
  <2> QED BY <1>13, <2>1, <2>2 DEF Unheld
<1>16. last1 \in Contents /\ last1.refs = <<b>> /\ last1.kind = "dext" /\ last1.next = FS_NULL
       /\ last1.prev = p
  <2> DEFINE v == <<b>>
  <2>1. v \in Seq(0..block_count) /\ Len(v) = 1 /\ 1 <= ExtentRefs
    BY <1>0, BaseFSAssumption DEF Blocks
  <2> HIDE DEF v
  <2>2. ext \in Object
    BY <1>2 DEF Contents
  <2>3. last1 = [ext EXCEPT !.refs = v]
    BY DEF v
  <2>4. last1 \in Object /\ last1.refs = v /\ last1.kind = "dext" /\ last1.next = FS_NULL
        /\ last1.prev = p
    BY <1>2, <2>1, <2>2, <2>3 DEF Object
  <2> HIDE DEF last1
  <2>5. last1 \in Contents
    BY <2>1, <2>4 DEF Contents
  <2> QED BY <2>4, <2>5 DEF v
<1>17. last1 = [u3.obj[e] EXCEPT !.refs = Append(u3.obj[e].refs, b)]
    BY <1>2, <1>14
<1> HIDE DEF last1
<1> DEFINE u4 == Written(u3, Obj(e, last1))
<1>18. /\ u4 \in Disks /\ u4.bits = u3.bits /\ u4.size = u3.size /\ u4.obj[e] = last1
       /\ \A x \in Blocks \ {e} : u4.obj[x] = u3.obj[x]
  <2>1. u3 \in Disks /\ e \in Blocks /\ last1 \in Contents /\ u4 = Written(u3, Obj(e, last1))
    BY <1>9, <1>16
  <2> QED BY ONLY <2>1, PutFacts
<1>19. Here(u3, b) /\ Here(u4, b)
    BY <1>8, <1>9, <1>18 DEF Here, LiveOn
<1>20. Sound(u4, k, {b}) /\ Runs(u3, <<Obj(e, last1)>>, u4, {b}, z)
  <2>1. /\ Sound(u3, k, {b}) /\ Here(u3, b) /\ e \in PartsIn(k) /\ Unheld(u3, PartsIn(k), b)
        /\ last1 \in Contents /\ last1 = [u3.obj[e] EXCEPT !.refs = Append(u3.obj[e].refs, b)]
        /\ u4 = Written(u3, Obj(e, last1)) /\ e \in Blocks
    BY <1>9, <1>13, <1>15, <1>16, <1>17, <1>19
  <2> HIDE DEF u4
  <2>2. Sound(u4, k, {b})
    BY ONLY <2>1, EntryPut
  <2>3. Fine(u3, {b}) /\ Fine(u4, {b})
    BY <2>1, <2>2 DEF Fine
  <2> QED BY ONLY <2>1, <2>2, <2>3, PutRuns
<1> HIDE DEF u4
<1>21. /\ \A x \in Blocks : x # e => /\ u4.obj[x].kind = s.obj[x].kind /\ u4.obj[x].prev = s.obj[x].prev
                                     /\ u4.obj[x].parent = s.obj[x].parent /\ u4.obj[x].refs = s.obj[x].refs
       /\ \A x \in Blocks : x # e /\ x # p => u4.obj[x] = s.obj[x]
    BY <1>11, <1>14, <1>18
<1>22. Calm(u4, k)
  <2>1. \A x \in PartsIn(c) \ Range(c[h]) : u4.obj[x] = s.obj[x]
    BY <1>0, <1>1, <1>3, <1>21
  <2>2. u4.obj[h].kind = s.obj[h].kind /\ u4.obj[h].parent = s.obj[h].parent
    BY <1>1, <1>8, <1>21
  <2>3. u4.obj[q[Len(q)]].next = FS_NULL
    BY <1>9, <1>16, <1>18
  <2>4. ASSUME NEW i \in 2..Len(q) PROVE u4.obj[q[i]].prev = q[i - 1]
    <3>0. Len(c[h]) \in Nat /\ Len(q) = Len(c[h]) + 1 /\ Len(c[h]) > 0
      BY <1>0, <1>9, ChainFacts
    <3>1. CASE i = Len(q)
      <4>1. q[i] = e /\ i - 1 = Len(c[h]) /\ Len(c[h]) \in 1..Len(c[h])
        BY <1>9, <3>0, <3>1
      <4>2. q[i - 1] = p
        BY <1>9, <4>1
      <4> QED BY <1>16, <1>18, <4>1, <4>2
    <3>2. CASE i # Len(q)
      <4>1. i \in 2..Len(c[h]) /\ i \in 1..Len(c[h]) /\ i - 1 \in 1..Len(c[h])
        BY <2>4, <3>0, <3>2
      <4>2. q[i] = c[h][i] /\ q[i - 1] = c[h][i - 1] /\ c[h][i] \in PartsIn(c)
        BY <1>0, <1>9, <4>1, InChain
      <4>3. s.obj[c[h][i]].prev = c[h][i - 1]
        BY <1>0, <4>1 DEF Calm, Prevs
      <4>4. u4.obj[c[h][i]].prev = s.obj[c[h][i]].prev
        BY <1>0, <1>3, <1>21, <4>2
      <4> QED BY <4>2, <4>3, <4>4
    <3> QED BY <3>1, <3>2
  <2>5. ASSUME NEW x \in Range(q)
        PROVE  /\ \A i \in 1..Len(u4.obj[x].refs) : u4.obj[x].refs[i] # FS_NULL
               /\ u4.obj[x].kind = "dext" => u4.obj[x].refs # <<>>
    <3>1. CASE x = e
      <4> DEFINE v == <<b>>
      <4>1. v # <<>> /\ \A i \in 1..Len(v) : v[i] # FS_NULL
        OBVIOUS
      <4>2. u4.obj[x].refs = v
        BY <1>16, <1>18, <3>1
      <4> HIDE DEF v
      <4> QED BY <4>1, <4>2
    <3>2. CASE x # e
      <4>1. x \in Range(c[h])
        BY <1>9, <3>2
      <4>2. x \in PartsIn(c)
        BY <4>1 DEF PartsIn
      <4>3. u4.obj[x].refs = s.obj[x].refs /\ u4.obj[x].kind = s.obj[x].kind
        BY <1>0, <1>21, <3>2, <4>2
      <4> QED BY <1>0, <4>2, <4>3 DEF Calm, Full
    <3> QED BY <3>1, <3>2
  <2>6. q \in Seq(Blocks) /\ Len(q) > 0 /\ q[1] = h /\ IsInjective(q)
        /\ Range(q) \cap PartsIn(c) \subseteq Range(c[h])
    <3>1. 1 \in 1..Len(c[h]) /\ c[h][1] = h /\ Len(c[h]) \in Nat
      BY <1>0, ShapeFacts
    <3> QED BY <1>3, <1>9, <3>1
  <2>7. Relinked(c, k, h, q, s, u4)
    BY <1>10, <2>1, <2>2, <2>3, <2>4, <2>5, <2>6 DEF Relinked
  <2> QED BY <1>0, <2>7, CalmRelinked
<1>23. Ready(u4, k, b)
  <2>1. b \notin PartsIn(k)
    BY <1>0, <1>13
  <2>2. ASSUME NEW x \in PartsIn(k) PROVE Run(b, u4.size[b]) \cap Run(x, u4.size[x]) = {}
    <3>1. u4.size = u1.size
      BY <1>6, <1>9, <1>18
    <3>2. CASE x = e
      BY <1>4, <1>5, <3>1, <3>2
    <3>3. CASE x # e
      <4>1. x \in PartsIn(c) /\ x \in Blocks
        BY <1>0, <1>13, <3>3
      <4>2. u4.size[x] = s.size[x] /\ u4.size[b] = s.size[b]
        BY <1>0, <1>4, <3>1, <3>3, <4>1
      <4> QED BY <1>0, <4>1, <4>2
    <3> QED BY <3>2, <3>3
  <2> QED BY <1>19, <1>20, <1>22, <2>1, <2>2 DEF Ready
<1>24. Runs(s, AddExtent(p, b, e), u4, {b}, z)
  <2> DEFINE w1 == fs_alloc(e, 1)
             w2 == <<Obj(e, ext)>>
             w3 == <<Obj(p, op3)>>
             w4 == <<Obj(e, last1)>>
  <2>1. AddExtent(p, b, e) = w1 \o <<Obj(e, ext), Obj(p, op3), Obj(e, last1)>>
    BY DEF AddExtent, ext, op3, last1
  <2>2. <<Obj(e, ext), Obj(p, op3), Obj(e, last1)>> = w2 \o (w3 \o w4)
    OBVIOUS
  <2>3. /\ Runs(s, w1, u1, {b}, z) /\ Runs(u1, w2, u2, {b}, z) /\ Runs(u2, w3, u3, {b}, z)
        /\ Runs(u3, w4, u4, {b}, z)
    BY <1>4, <1>7, <1>12, <1>20
  <2> HIDE DEF w1, w2, w3, w4
  <2>4. Runs(u2, w3 \o w4, u4, {b}, z)
    BY <2>3, RunsConcat
  <2>5. Runs(u1, w2 \o (w3 \o w4), u4, {b}, z)
    BY <2>3, <2>4, RunsConcat
  <2>6. Runs(s, w1 \o (w2 \o (w3 \o w4)), u4, {b}, z)
    BY <2>3, <2>5, RunsConcat
  <2> QED BY <2>1, <2>2, <2>6
<1> QED BY <1>23, <1>24

LEMMA RunOfOne ==
    ASSUME NEW b \in Blocks
    PROVE  Run(b, 1) = {b} /\ Run(b, 1) \subseteq Blocks
<1>1. b \in Int /\ b + 1 - 1 = b
    BY DEF Blocks
<1> QED BY <1>1 DEF Run

LEMMA ReferenceAdded ==
    ASSUME NEW c, Quiet(disk, c), NEW d \in DOMAIN c, disk.obj[d].kind = "dir", NEW b \in Blocks,
           b \notin PartsIn(c), NEW s, Ready(s, c, b), s.obj = disk.obj,
           s.bits = disk.bits \cup Run(b, 1), NEW z
    PROVE  \E t, k : Runs(s, fs_directory_add_reference(d, b), t, {b}, z) /\ Ready(t, k, b)
<1> DEFINE l == c[d]
           holds(p) == Contains(disk.obj[p].refs, b)
           stops == {i \in DOMAIN l : holds(l[i]) \/ HasRoom(l[i])}
           p == l[Min(stops)]
           e == FirstFit(1, {b})
<1>0. /\ Sound(disk, c, {}) /\ disk \in Disks /\ Shape(c) /\ s \in Disks /\ b # FS_NULL
      /\ PartsIn(c) \subseteq Blocks /\ DOMAIN c \subseteq PartsIn(c)
    BY ShapeFacts DEF Quiet, Ready, Sound, Blocks, FS_NULL
<1>1. /\ l \in Seq(Blocks) /\ Len(l) \in Nat /\ Len(l) > 0 /\ DOMAIN l = 1..Len(l)
      /\ \A j \in 1..Len(l) : l[j] \in Blocks /\ l[j] \in PartsIn(c)
    BY <1>0, ChainFacts
<1>2. Parts(d) = l
    BY <1>0, PartsOnDisk
<1> HIDE DEF l
<1>3. Unheld(disk, PartsIn(c), b) /\ Unheld(s, PartsIn(c), b)
  <2>1. ASSUME NEW x \in PartsIn(c), b \in Range(disk.obj[x].refs) PROVE FALSE
    BY <1>0, <2>1, OneHolder
  <2> QED BY <2>1 DEF Unheld
<1>4. \A x \in PartsIn(c) : ~holds(x)
  <2>1. ASSUME NEW x \in PartsIn(c) PROVE ~holds(x)
    <3>1. Range(disk.obj[x].refs) = {disk.obj[x].refs[i] : i \in 1..Len(disk.obj[x].refs)}
      BY <1>0, RefsFacts
    <3>2. b \notin Range(disk.obj[x].refs)
      BY <1>3 DEF Unheld
    <3> QED BY <3>1, <3>2 DEF Contains
  <2> QED BY <2>1
<1>5. stops \subseteq Nat /\ \A i \in stops : i \in 1..Len(l) /\ HasRoom(l[i])
    BY <1>1, <1>4
<1>6. fs_directory_add_reference(d, b) =
        IF stops # {}
        THEN IF holds(p) THEN <<>>
             ELSE <<Obj(p, [disk.obj[p] EXCEPT !.refs = Append(disk.obj[p].refs, b)])>>
        ELSE IF e = FS_NULL THEN <<>>
        ELSE AddExtent(Last(l), b, e)
    BY <1>2 DEF fs_directory_add_reference
<1> HIDE DEF stops
<1>7. CASE stops # {}
  <2>1. Min(stops) \in stops
    BY <1>5, <1>7, MinExists
  <2>2. p \in PartsIn(c) /\ p \in Blocks /\ HasRoom(p) /\ ~holds(p)
    BY <1>1, <1>4, <1>5, <2>1
  <2> HIDE DEF p
  <2> DEFINE o == [disk.obj[p] EXCEPT !.refs = Append(disk.obj[p].refs, b)]
             t == Written(s, Obj(p, o))
  <2>3. o \in Contents
    <3> DEFINE r == disk.obj[p].refs
               v == Append(r, b)
    <3>1. r \in Seq(0..block_count) /\ Len(r) \in Nat /\ b \in 0..block_count /\ disk.obj[p] \in Object
      BY <1>0, <2>2, RefsFacts, DiskFacts, BaseFSAssumption DEF Blocks
    <3>2. Len(r) < MaxRefs(p)
      BY <2>2 DEF HasRoom
    <3> HIDE DEF r
    <3>3. v \in Seq(0..block_count) /\ Len(v) = Len(r) + 1
      BY <3>1
    <3>4. o = [disk.obj[p] EXCEPT !.refs = v]
      BY DEF r
    <3> HIDE DEF v
    <3>5. o \in Object /\ o.refs = v /\ o.kind = disk.obj[p].kind
      BY <3>1, <3>3, <3>4 DEF Object
    <3> HIDE DEF o
    <3>6. (o.kind = "dir" => Len(v) <= HeaderRefs) /\ (o.kind = "dext" => Len(v) <= ExtentRefs)
      BY <3>1, <3>2, <3>3, <3>5, BaseFSAssumption DEF MaxRefs
    <3> QED BY <3>5, <3>6 DEF Contents
  <2>4. fs_directory_add_reference(d, b) = <<Obj(p, o)>>
    BY <1>6, <1>7, <2>2 DEF p
  <2>5. /\ Ready(s, c, b) /\ b # FS_NULL /\ p \in PartsIn(c) /\ Unheld(s, PartsIn(c), b)
        /\ o \in Contents /\ o = [s.obj[p] EXCEPT !.refs = Append(s.obj[p].refs, b)]
        /\ t = Written(s, Obj(p, o))
    BY <1>0, <1>3, <2>2, <2>3
  <2> HIDE DEF t, o
  <2>6. Runs(s, <<Obj(p, o)>>, t, {b}, z) /\ Ready(t, c, b)
    BY ONLY <2>5, EntryAdded
  <2> QED BY <2>4, <2>6
<1>8. CASE stops = {} /\ e = FS_NULL
  <2>1. Runs(s, <<>>, s, {b}, z)
    BY RunsNil DEF Fine, Ready
  <2> QED BY <1>6, <1>8, <2>1
<1>9. CASE stops = {} /\ e # FS_NULL
  <2>1. e \in Blocks /\ Free(e, 1, {b})
    <3>1. 1 \in Nat
      OBVIOUS
    <3> QED BY <1>9, <3>1, FirstFitFacts
  <2> HIDE DEF e
  <2>2. Run(e, 1) = {e} /\ Run(b, 1) = {b} /\ Run(e, 1) \subseteq Blocks
    BY <2>1, RunOfOne
  <2>3. e # b /\ Run(e, 1) \cap s.bits = {}
    BY <2>1, <2>2 DEF Free
  <2> DEFINE q == Last(l)
  <2>4. q = c[d][Len(c[d])]
    BY DEF Last, l
  <2>5. /\ Ready(s, c, b) /\ b # FS_NULL /\ s.obj = disk.obj /\ d \in DOMAIN c /\ s.obj[d].kind = "dir"
        /\ Unheld(s, PartsIn(c), b)
    BY <1>0, <1>3
  <2>6. fs_directory_add_reference(d, b) = AddExtent(q, b, e)
    BY <1>6, <1>9 DEF e
  <2> HIDE DEF q
  <2>7. \E t, k : Runs(s, AddExtent(q, b, e), t, {b}, z) /\ Ready(t, k, b)
    BY ONLY <2>1, <2>2, <2>3, <2>4, <2>5, ExtentAdded
  <2> QED BY <2>6, <2>7
<1> QED BY <1>7, <1>8, <1>9

(* A header is made.                                                       *)
LEMMA CreatedOK ==
    ASSUME NEW c, Quiet(disk, c), NEW d \in DOMAIN c, disk.obj[d].kind = "dir",
           NEW b, b = FirstFit(1, {}), b # FS_NULL,
           NEW o \in Contents, o.refs = <<>>, o.next = FS_NULL, o.kind \in {"dir", "file"}, NEW z
    PROVE  /\ b \in Blocks
           /\ \E t, k : Runs(disk, Created(d, b, o), t, {b}, z) /\ Quiet(t, k)
<1>0. /\ Sound(disk, c, {}) /\ disk \in Disks /\ Shape(c) /\ Ends(disk, c) /\ Calm(disk, c)
      /\ PartsIn(c) \subseteq Blocks /\ Room(disk, PartsIn(c))
    BY ShapeFacts DEF Quiet, Sound, Calm
<1>1. b \in Blocks /\ Free(b, 1, {})
  <2>1. 1 \in Nat
    OBVIOUS
  <2> QED BY <2>1, FirstFitFacts
<1>2. Run(b, 1) \subseteq Blocks /\ Run(b, 1) \cap disk.bits = {}
    BY <1>1 DEF Free
<1>3. b \notin PartsIn(c) /\ \A x \in PartsIn(c) : Run(b, 1) \cap Run(x, disk.size[x]) = {}
  <2>1. 1 \in Nat \ {0}
    OBVIOUS
  <2> QED BY <1>0, <1>1, <1>2, <2>1, FreeIsOutside
<1>4. Sound(disk, c, {b})
    BY <1>0, <1>1, <1>3, MakingOK
<1>5. PICK s : Runs(disk, fs_alloc(b, 1), s, {b}, z) /\ Allocated(disk, s, c, {b}, b, 1)
  <2>1. 1 \in 1..block_count
    BY BaseFSAssumption
  <2> QED BY ONLY <1>0, <1>1, <1>2, <1>4, <2>1, AllocOK
<1>6. /\ Sound(s, c, {b}) /\ Here(s, b) /\ s.obj = disk.obj /\ s.size[b] = 1
      /\ s.bits = disk.bits \cup Run(b, 1) /\ \A x \in Blocks \ {b} : s.size[x] = disk.size[x]
    BY <1>5 DEF Allocated
<1>7. Ready(s, c, b)
  <2>1. Calm(s, c)
    BY <1>0, <1>6, CalmSame
  <2>2. \A x \in PartsIn(c) : s.size[x] = disk.size[x]
    BY <1>0, <1>3, <1>6
  <2> QED BY <1>3, <1>6, <2>1, <2>2 DEF Ready
<1>8. PICK t, k : Runs(s, fs_directory_add_reference(d, b), t, {b}, z) /\ Ready(t, k, b)
    BY <1>1, <1>3, <1>6, <1>7, ReferenceAdded
<1> DEFINE u == Written(t, Obj(b, o))
           g == [x \in DOMAIN k \cup {b} |-> IF x = b THEN <<b>> ELSE k[x]]
<1>9. Sound(u, g, {b}) /\ Sound(u, g, {}) /\ Calm(u, g)
  <2>1. /\ Sound(t, k, {b}) /\ b \notin PartsIn(k) /\ Here(t, b) /\ Calm(t, k)
        /\ \A x \in PartsIn(k) : Run(b, t.size[b]) \cap Run(x, t.size[x]) = {}
    BY <1>8 DEF Ready
  <2>2. HeaderMade(t, u, k, g, b, o)
    BY <2>1 DEF HeaderMade
  <2> QED BY ONLY <2>1, <2>2, NewHeaderOK
<1>10. Runs(t, <<Obj(b, o)>>, u, {b}, z)
  <2>1. Fine(t, {b}) /\ Fine(u, {b}) /\ b \in Blocks /\ o \in Contents /\ u = Written(t, Obj(b, o))
    BY <1>1, <1>8, <1>9 DEF Fine, Ready
  <2> QED BY ONLY <2>1, PutRuns
<1> HIDE DEF u, g
<1>11. Runs(disk, Created(d, b, o), u, {b}, z)
  <2> DEFINE w1 == fs_alloc(b, 1)
             w2 == fs_directory_add_reference(d, b)
             w3 == <<Obj(b, o)>>
  <2>1. Created(d, b, o) = (w1 \o w2) \o w3
    BY DEF Created
  <2>2. Runs(disk, w1, s, {b}, z) /\ Runs(s, w2, t, {b}, z) /\ Runs(t, w3, u, {b}, z)
    BY <1>5, <1>8, <1>10
  <2> HIDE DEF w1, w2, w3
  <2>3. Runs(disk, w1 \o w2, t, {b}, z)
    BY <2>2, RunsConcat
  <2> QED BY <2>1, <2>2, <2>3, RunsConcat
<1> QED BY <1>1, <1>9, <1>11 DEF Quiet

-----------------------------------------------------------------------------
(***************************************************************************)
(* Operations: a file becomes smaller.                                     *)
(***************************************************************************)
(* upto of Capacity, for the first n extents.                              *)
IsUpto(chain, g, n) ==
    g = [i \in 0..n |-> IF i = 0 THEN 0 ELSE g[i - 1] + disk.obj[chain[i]].len]

LEMMA UptoExists ==
    ASSUME NEW chain, NEW n \in Nat
    PROVE  \E g : IsUpto(chain, g, n)
<1> DEFINE T == {m \in Nat : ~ \E g : IsUpto(chain, g, m)}
<1>1. SUFFICES ASSUME T # {} PROVE FALSE
    OBVIOUS
<1>2. PICK m \in T : \A k \in T : m <= k
    BY <1>1, NatMin
<1>3. m # 0
  <2> DEFINE g == [i \in 0..0 |-> 0]
  <2>1. g = [i \in 0..0 |-> IF i = 0 THEN 0 ELSE g[i - 1] + disk.obj[chain[i]].len]
    OBVIOUS
  <2> HIDE DEF g
  <2>2. IsUpto(chain, g, 0)
    BY <2>1 DEF IsUpto
  <2> QED BY <2>2
<1>4. m - 1 \in Nat /\ m - 1 \notin T
    BY <1>2, <1>3
<1>5. PICK g : IsUpto(chain, g, m - 1)
    BY <1>4
<1> DEFINE val(f, i) == IF i = 0 THEN 0 ELSE f[i - 1] + disk.obj[chain[i]].len
           h == [i \in 0..m |-> IF i = m THEN val(g, m) ELSE g[i]]
<1>6. \A i \in 0..m : h[i] = val(h, i)
  <2> TAKE i \in 0..m
  <2>1. \A j \in 0..(m - 1) : h[j] = g[j] /\ j \in 0..m
    BY <1>2, <1>4
  <2>2. h[i] = val(g, i)
    <3>1. CASE i = m
      BY <3>1
    <3>2. CASE i # m
      <4>1. i \in 0..(m - 1)
        BY <1>2, <3>2
      <4> QED BY <1>5, <2>1, <4>1 DEF IsUpto
    <3> QED BY <3>1, <3>2
  <2>3. i # 0 => i - 1 \in 0..(m - 1)
    BY <1>2
  <2>4. i # 0 => h[i - 1] = g[i - 1]
    BY <2>1, <2>3
  <2> HIDE DEF h
  <2> QED BY <2>2, <2>4
<1>7. h = [i \in 0..m |-> h[i]]
    OBVIOUS
<1> HIDE DEF h
<1>8. IsUpto(chain, h, m)
    BY <1>6, <1>7 DEF IsUpto
<1> QED BY <1>2, <1>8

LEMMA CapacityFacts ==
    ASSUME disk \in Disks, NEW chain \in Seq(Blocks), NEW i \in 0..Len(chain)
    PROVE  Capacity(chain)[i] \in Nat /\ Capacity(chain)[0] = 0
<1> DEFINE n == Len(chain)
           g == CHOOSE g : IsUpto(chain, g, n)
<1>1. n \in Nat
    OBVIOUS
<1>2. IsUpto(chain, g, n)
    BY <1>1, UptoExists
<1>3. Capacity(chain) = g
    BY DEF Capacity, IsUpto
<1> HIDE DEF g
<1>4. \A k \in 0..n : g[k] = IF k = 0 THEN 0 ELSE g[k - 1] + disk.obj[chain[k]].len
    BY <1>2 DEF IsUpto
<1>5. \A k \in 1..n : disk.obj[chain[k]].len \in Nat
  <2>1. ASSUME NEW k \in 1..n PROVE disk.obj[chain[k]].len \in Nat
    <3>1. chain[k] \in Blocks
      OBVIOUS
    <3> QED BY <3>1, DiskFacts, BaseFSAssumption
  <2> QED BY <2>1
<1> HIDE DEF n
<1> DEFINE T == {m \in Nat : m <= n /\ g[m] \notin Nat}
<1>6. T = {}
  <2>1. SUFFICES ASSUME T # {} PROVE FALSE
    OBVIOUS
  <2>2. PICK m \in T : \A k \in T : m <= k
    BY <2>1, NatMin
  <2>3. m # 0
    BY <1>1, <1>4, <2>2
  <2>4. m - 1 \in Nat /\ m - 1 <= n /\ m - 1 \notin T
    BY <1>1, <2>2, <2>3
  <2>5. g[m - 1] \in Nat
    BY <2>4
  <2>6. m \in 0..n /\ m \in 1..n
    BY <1>1, <2>2, <2>3
  <2> QED BY <1>4, <1>5, <2>2, <2>3, <2>5, <2>6
<1>7. g[0] = 0
    BY <1>1, <1>4
<1> QED BY <1>1, <1>3, <1>6, <1>7 DEF n

(* The chain of f ends with its part j from now on, k has the rest of c.   *)
Cut(c, k, f, j, q) ==
    f \in DOMAIN c /\ j \in 1..Len(c[f]) /\ q = SubSeq(c[f], 1, j) /\ k = [c EXCEPT ![f] = q]

LEMMA CutFacts ==
    ASSUME NEW c, Shape(c), NEW k, NEW f, NEW j, NEW q, Cut(c, k, f, j, q)
    PROVE  /\ f \in DOMAIN c /\ j \in 1..Len(c[f]) /\ j \in Nat /\ j > 0
           /\ Shape(k) /\ DOMAIN k = DOMAIN c /\ k[f] = q /\ \A x \in DOMAIN c \ {f} : k[x] = c[x]
           /\ q \in Seq(Blocks) /\ Len(q) = j /\ \A i \in 1..j : q[i] = c[f][i]
           /\ PartsIn(k) \subseteq PartsIn(c)
           /\ \A i \in (j + 1)..Len(c[f]) : c[f][i] \notin PartsIn(k)
           /\ \A x \in PartsIn(k) : x \in Range(q) \/ x \notin Range(c[f])
<1>0. f \in DOMAIN c /\ j \in 1..Len(c[f]) /\ q = SubSeq(c[f], 1, j) /\ k = [c EXCEPT ![f] = q]
    BY DEF Cut
<1>1. c[f] \in Seq(Blocks) /\ IsInjective(c[f]) /\ c[f][1] = f /\ Len(c[f]) \in Nat /\ j \in Nat /\ j > 0
    BY <1>0, ShapeFacts DEF Shape
<1>2. /\ q \in Seq(Blocks) /\ Len(q) = j /\ \A i \in 1..j : q[i] = c[f][i]
      /\ IsInjective(q) /\ Range(q) \subseteq Range(c[f])
  <2> DEFINE l == c[f]
  <2>1. l \in Seq(Blocks) /\ IsInjective(l) /\ j \in 1..Len(l) /\ q = SubSeq(l, 1, j)
    BY <1>0, <1>1
  <2> HIDE DEF l
  <2>2. /\ q \in Seq(Blocks) /\ Len(q) = j /\ \A i \in 1..j : q[i] = l[i]
        /\ IsInjective(q) /\ Range(q) \subseteq Range(l)
    BY ONLY <2>1, PrefixFacts
  <2> QED BY <2>2 DEF l
<1>3. Range(c[f]) \subseteq PartsIn(c)
    BY <1>0 DEF PartsIn
<1>4. Len(q) > 0 /\ q[1] = f /\ Range(q) \cap PartsIn(c) \subseteq Range(c[f])
    BY <1>1, <1>2
<1>5. /\ Shape(k) /\ DOMAIN k = DOMAIN c /\ k[f] = q
      /\ \A x \in DOMAIN c \ {f} : k[x] = c[x] /\ Range(c[x]) \cap Range(q) = {}
      /\ PartsIn(k) \subseteq PartsIn(c) \cup Range(q) /\ Range(q) \subseteq PartsIn(k)
      /\ \A p \in PartsIn(k) : p \in Range(q) \/ p \notin Range(c[f])
  <2>1. Shape(c) /\ f \in DOMAIN c /\ q \in Seq(Blocks) /\ IsInjective(q)
    BY <1>0, <1>2
  <2>2. Len(q) > 0 /\ q[1] = f /\ Range(q) \cap PartsIn(c) \subseteq Range(c[f])
    BY <1>4
  <2>3. k = [c EXCEPT ![f] = q]
    BY <1>0
  <2>4. Shape(k) /\ DOMAIN k = DOMAIN c /\ k[f] = q
    BY <2>1, <2>2, <2>3, RelinkedShape
  <2>5. \A x \in DOMAIN c \ {f} : k[x] = c[x] /\ Range(c[x]) \cap Range(q) = {}
    BY <2>1, <2>2, <2>3, RelinkedShape
  <2>6. ASSUME NEW p \in PartsIn(k) PROVE p \in PartsIn(c) \cup Range(q)
    <3>1. PICK x \in DOMAIN c : p \in Range(k[x])
      BY <2>4 DEF PartsIn
    <3>2. CASE x = f
      BY <2>4, <3>1, <3>2
    <3>3. CASE x # f
      BY <2>5, <3>1, <3>3 DEF PartsIn
    <3> QED BY <3>2, <3>3
  <2>7. Range(q) \subseteq PartsIn(k)
    BY <2>1, <2>4 DEF PartsIn
  <2>8. ASSUME NEW p \in PartsIn(k) PROVE p \in Range(q) \/ p \notin Range(c[f])
    <3>1. PICK x \in DOMAIN c : p \in Range(k[x])
      BY <2>4 DEF PartsIn
    <3>2. CASE x = f
      BY <2>4, <3>1, <3>2
    <3>3. CASE x # f
      BY <2>1, <2>5, <3>1, <3>3 DEF Shape
    <3> QED BY <3>2, <3>3
  <2> QED BY <2>4, <2>5, <2>6, <2>7, <2>8
<1>6. ASSUME NEW i \in (j + 1)..Len(c[f]) PROVE c[f][i] \notin PartsIn(k)
  <2>1. i \in 1..Len(c[f]) /\ \A x \in 1..j : x # i /\ x \in 1..Len(c[f])
    BY <1>0, <1>1
  <2>2. c[f][i] \in Range(c[f])
    BY <1>0, <2>1, InChain
  <2>3. \A x \in 1..j : q[x] # c[f][i]
    BY <1>0, <1>2, <2>1, ShapeFacts
  <2>4. Range(q) = {q[x] : x \in 1..j}
    BY <1>2, SeqFacts
  <2> QED BY <1>5, <2>2, <2>3, <2>4
<1> QED BY <1>0, <1>1, <1>2, <1>3, <1>5, <1>6

(* The last part of f that stays leads nowhere.                            *)
CutOn(s, t, c, k, f, j, q, p) ==
    /\ Cut(c, k, f, j, q) /\ p = c[f][j]
    /\ \A x \in Blocks \ {p} : t.obj[x] = s.obj[x]
    /\ t.obj[p].kind = s.obj[p].kind /\ t.obj[p].refs = s.obj[p].refs
    /\ t.obj[p].prev = s.obj[p].prev /\ t.obj[p].parent = s.obj[p].parent
    /\ t.obj[p].next = FS_NULL

LEMMA CutCalm ==
    ASSUME NEW s, NEW c, Shape(c), Calm(s, c), NEW t, NEW k, NEW f, NEW j, NEW q, NEW p,
           CutOn(s, t, c, k, f, j, q, p)
    PROVE  Calm(t, k)
<1>0. /\ Cut(c, k, f, j, q) /\ p = c[f][j]
      /\ \A x \in Blocks \ {p} : t.obj[x] = s.obj[x]
      /\ t.obj[p].kind = s.obj[p].kind /\ t.obj[p].refs = s.obj[p].refs
      /\ t.obj[p].prev = s.obj[p].prev /\ t.obj[p].parent = s.obj[p].parent
      /\ t.obj[p].next = FS_NULL
    BY DEF CutOn
<1>1. /\ f \in DOMAIN c /\ j \in 1..Len(c[f]) /\ j \in Nat /\ j > 0
      /\ Shape(k) /\ DOMAIN k = DOMAIN c /\ k[f] = q /\ \A x \in DOMAIN c \ {f} : k[x] = c[x]
      /\ q \in Seq(Blocks) /\ Len(q) = j /\ \A i \in 1..j : q[i] = c[f][i]
      /\ PartsIn(k) \subseteq PartsIn(c)
    BY <1>0, CutFacts
<1>2. PartsIn(c) \subseteq Blocks /\ DOMAIN c \subseteq Blocks /\ Root \in DOMAIN c
    BY ShapeFacts DEF Shape
<1>3. \A x \in Blocks : /\ t.obj[x].kind = s.obj[x].kind /\ t.obj[x].refs = s.obj[x].refs
                        /\ t.obj[x].prev = s.obj[x].prev /\ t.obj[x].parent = s.obj[x].parent
    BY <1>0
<1>4. Ends(t, k)
  <2>1. ASSUME NEW h \in DOMAIN k PROVE t.obj[k[h][Len(k[h])]].next = FS_NULL
    <3>1. CASE h = f
      BY <1>0, <1>1, <3>1
    <3>2. CASE h # f
      <4>1. h \in DOMAIN c /\ k[h] = c[h] /\ Len(c[h]) \in 1..Len(c[h])
        BY <1>1, <3>2, ShapeFacts
      <4>2. c[h][Len(c[h])] \in Blocks
        BY <4>1, LastFacts
      <4>3. c[h][Len(c[h])] # p
        <5>1. \A i \in 1..Len(c[h]), x \in 1..Len(c[f]) : c[h][i] = c[f][x] => h = f /\ i = x
          BY <1>1, <4>1, ShapeFacts
        <5> QED BY <1>0, <1>1, <3>2, <4>1, <5>1
      <4> QED BY <1>0, <4>1, <4>2, <4>3 DEF Calm, Ends
    <3> QED BY <3>1, <3>2
  <2> QED BY <2>1 DEF Ends
<1>5. Prevs(t, k)
  <2>1. ASSUME NEW h \in DOMAIN k, NEW i \in 2..Len(k[h])
        PROVE  t.obj[k[h][i]].prev = k[h][i - 1]
    <3>1. i \in 2..Len(c[h]) /\ k[h][i] = c[h][i] /\ k[h][i - 1] = c[h][i - 1]
      <4>1. CASE h = f
        <5>1. i \in 1..j /\ i - 1 \in 1..j /\ i \in 2..Len(c[f])
          BY <1>1, <2>1, <4>1
        <5> QED BY <1>1, <4>1, <5>1
      <4>2. CASE h # f
        BY <1>1, <2>1, <4>2
      <4> QED BY <4>1, <4>2
    <3>2. c[h][i] \in Blocks
      <4>1. h \in DOMAIN c /\ i \in 1..Len(c[h])
        BY <1>1, <3>1
      <4> QED BY <1>2, <4>1, InChain
    <3> QED BY <1>1, <1>3, <3>1, <3>2 DEF Calm, Prevs
  <2> QED BY <2>1 DEF Prevs
<1>6. Full(t, k)
    BY <1>1, <1>2, <1>3 DEF Calm, Full
<1>7. RootOK(t)
    BY <1>2, <1>3 DEF Calm, RootOK
<1> QED BY <1>4, <1>5, <1>6, <1>7 DEF Calm

(* What the frees after a cut are of.                                      *)
Cutting(c, k, f, j, q, p, o, bs) ==
    /\ Cut(c, k, f, j, q) /\ p = c[f][j]
    /\ o.kind = disk.obj[p].kind /\ o.refs = disk.obj[p].refs
    /\ o.prev = disk.obj[p].prev /\ o.parent = disk.obj[p].parent /\ o.next = FS_NULL
    /\ \A i \in 1..Len(bs) : \E x \in (j + 1)..Len(c[f]) : bs[i] = c[f][x]

LEMMA TailFree ==
    ASSUME NEW c, Quiet(disk, c), NEW k, NEW f, NEW j, NEW q, Cut(c, k, f, j, q), NEW bs \in Seq(Blocks),
           \A i \in 1..Len(bs) : \E x \in (j + 1)..Len(c[f]) : bs[i] = c[f][x]
    PROVE  /\ FreeAll(bs) \in Seq(Harmless(disk, k))
           /\ Len(bs) > 0 => FreeAll(bs) # <<>> /\ FreeAll(bs)[1] = Size(bs[1], 0)
<1>0. Sound(disk, c, {}) /\ disk \in Disks /\ Shape(c)
    BY DEF Quiet, Sound
<1>1. /\ f \in DOMAIN c /\ j \in Nat /\ PartsIn(k) \subseteq PartsIn(c)
      /\ \A i \in (j + 1)..Len(c[f]) : c[f][i] \notin PartsIn(k)
    BY <1>0, CutFacts
<1>2. ASSUME NEW i \in 1..Len(bs)
      PROVE  /\ bs[i] \notin PartsIn(k)
             /\ \A p \in PartsIn(k) : Run(p, disk.size[p]) \cap Run(bs[i], disk.size[bs[i]]) = {}
  <2>1. PICK x \in (j + 1)..Len(c[f]) : bs[i] = c[f][x]
    OBVIOUS
  <2>2. x \in 1..Len(c[f])
    BY <1>0, <1>1, ShapeFacts
  <2>3. bs[i] \in PartsIn(c) /\ bs[i] \notin PartsIn(k)
    BY <1>0, <1>1, <2>1, <2>2, InChain
  <2>4. \A p \in PartsIn(k) : p \in PartsIn(c) /\ p # bs[i]
    BY <1>1, <2>3
  <2> QED BY <1>0, <2>3, <2>4 DEF Sound, Room
<1> QED BY <1>0, <1>2, FreeAllHarmless

CutDone(t, k, p, o) ==
    Quiet(t, k) /\ t.obj[p] = o /\ \A x \in Blocks \ {p} : t.obj[x] = disk.obj[x]

LEMMA CutTail ==
    ASSUME NEW c, Quiet(disk, c), NEW k, NEW f, NEW j, NEW q, NEW p, NEW o \in Contents,
           NEW bs \in Seq(Blocks), Cutting(c, k, f, j, q, p, o, bs), NEW z
    PROVE  \E t : Runs(disk, <<Obj(p, o)>> \o FreeAll(bs), t, {}, z) /\ CutDone(t, k, p, o)
<1>0. /\ Cut(c, k, f, j, q) /\ p = c[f][j]
      /\ o.kind = disk.obj[p].kind /\ o.refs = disk.obj[p].refs
      /\ o.prev = disk.obj[p].prev /\ o.parent = disk.obj[p].parent /\ o.next = FS_NULL
      /\ \A i \in 1..Len(bs) : \E x \in (j + 1)..Len(c[f]) : bs[i] = c[f][x]
    BY DEF Cutting
<1>1. Sound(disk, c, {}) /\ disk \in Disks /\ Shape(c) /\ Calm(disk, c)
    BY DEF Quiet, Sound
<1>2. /\ f \in DOMAIN c /\ j \in 1..Len(c[f]) /\ DOMAIN k = DOMAIN c
      /\ PartsIn(k) \subseteq PartsIn(c) /\ q = SubSeq(c[f], 1, j) /\ k = [c EXCEPT ![f] = q] /\ Shape(k)
  <2>1. /\ f \in DOMAIN c /\ j \in 1..Len(c[f]) /\ DOMAIN k = DOMAIN c
        /\ PartsIn(k) \subseteq PartsIn(c) /\ Shape(k)
    BY <1>0, <1>1, CutFacts
  <2>2. q = SubSeq(c[f], 1, j) /\ k = [c EXCEPT ![f] = q]
    BY <1>0 DEF Cut
  <2> QED BY <2>1, <2>2
<1>3. p \in Blocks /\ p \in PartsIn(c)
    BY <1>0, <1>1, <1>2, ShapeFacts
<1> DEFINE s == Written(disk, Obj(p, o))
<1>4. /\ s \in Disks /\ s.bits = disk.bits /\ s.size = disk.size
      /\ s.obj[p] = o /\ \A x \in Blocks \ {p} : s.obj[x] = disk.obj[x]
    BY <1>1, <1>3, PutFacts
<1> HIDE DEF s
<1>5. Sound(s, k, {})
  <2>1. ~LiveOn(s, s.obj[c[f][j]].next)
    BY <1>0, <1>4 DEF LiveOn, Blocks, FS_NULL
  <2>2. s.obj[c[f][j]].kind = disk.obj[c[f][j]].kind /\ s.obj[c[f][j]].refs = disk.obj[c[f][j]].refs
    BY <1>0, <1>4
  <2>3. \A x \in Blocks : s.size[x] = disk.size[x] \/ (s.size[x] = 0 /\ x \notin PartsIn(k) \cup {})
    BY <1>4
  <2>4. \A x \in Blocks \ {c[f][j]} : s.obj[x] = disk.obj[x]
    BY <1>0, <1>4
  <2>5. s \in Disks /\ s.bits = disk.bits
    BY <1>4
  <2>6. CutTo(disk, s, c, k, {}, f, j)
    BY <1>2, <2>1, <2>2, <2>3, <2>4, <2>5 DEF CutTo
  <2> QED BY ONLY <1>1, <1>2, <2>5, <2>6, CutShape
<1>6. CutOn(disk, s, c, k, f, j, q, p)
    BY <1>0, <1>4 DEF CutOn
<1>7. Calm(s, k)
    BY ONLY <1>1, <1>6, CutCalm
<1>8. Runs(disk, <<Obj(p, o)>>, s, {}, z)
  <2>1. Fine(disk, {}) /\ Fine(s, {}) /\ p \in Blocks /\ o \in Contents /\ s = Written(disk, Obj(p, o))
    BY <1>1, <1>3, <1>5 DEF Fine, s
  <2> QED BY ONLY <2>1, PutRuns
<1>9. FreeAll(bs) \in Seq(Harmless(disk, k)) /\ SameSizes(disk, s, k)
    BY <1>0, <1>4, TailFree DEF SameSizes
<1>10. PICK t : Runs(s, FreeAll(bs), t, {}, z) /\ Sound(t, k, {}) /\ t.obj = s.obj /\ SameSizes(t, s, k)
    BY ONLY <1>5, <1>9, HarmlessRuns
<1>11. Calm(t, k)
    BY <1>2, <1>7, <1>10, CalmSame
<1>12. Runs(disk, <<Obj(p, o)>> \o FreeAll(bs), t, {}, z)
  <2> DEFINE w1 == <<Obj(p, o)>>
             w2 == FreeAll(bs)
  <2>1. Runs(disk, w1, s, {}, z) /\ Runs(s, w2, t, {}, z)
    BY <1>8, <1>10
  <2> HIDE DEF w1, w2
  <2>2. Runs(disk, w1 \o w2, t, {}, z)
    BY <2>1, RunsConcat
  <2> QED BY <2>2 DEF w1, w2
<1> QED BY <1>4, <1>10, <1>11, <1>12 DEF Quiet, CutDone

(* The header of a file gets its new length.                               *)
LEMMA LenPut ==
    ASSUME NEW s, NEW c, Quiet(s, c), NEW f \in DOMAIN c, NEW n \in 0..MaxSize,
           NEW o, o = [s.obj[f] EXCEPT !.len = n], NEW t, t = Written(s, Obj(f, o)), NEW z
    PROVE  Quiet(t, c) /\ Runs(s, <<Obj(f, o)>>, t, {}, z)
<1>0. Sound(s, c, {}) /\ s \in Disks /\ Shape(c) /\ Calm(s, c)
    BY DEF Quiet, Sound
<1>1. f \in PartsIn(c) /\ PartsIn(c) \subseteq Blocks /\ DOMAIN c \subseteq PartsIn(c)
    BY <1>0, ShapeFacts
<1>2. f \in Blocks /\ s.obj[f] \in Contents /\ s.obj[f] \in Object
    BY <1>0, <1>1, DiskFacts
<1>3. o \in Contents
  <2>1. FS_NULL \in 0..block_count
    BY BaseFSAssumption DEF FS_NULL
  <2> QED BY <1>2, <2>1, ContentsFacts
<1>4. /\ o.kind = s.obj[f].kind /\ o.refs = s.obj[f].refs /\ o.prev = s.obj[f].prev
      /\ o.parent = s.obj[f].parent /\ o.next = s.obj[f].next
    BY <1>2 DEF Object
<1>5. /\ t \in Disks /\ t.bits = s.bits /\ t.size = s.size
      /\ t.obj[f] = o /\ \A x \in Blocks \ {f} : t.obj[x] = s.obj[x]
  <2>1. s \in Disks /\ f \in Blocks /\ o \in Contents /\ t = Written(s, Obj(f, o))
    BY <1>0, <1>2, <1>3
  <2> QED BY ONLY <2>1, PutFacts
<1>6. \A x \in Blocks : /\ t.obj[x].kind = s.obj[x].kind /\ t.obj[x].refs = s.obj[x].refs
                        /\ t.obj[x].prev = s.obj[x].prev /\ t.obj[x].parent = s.obj[x].parent
                        /\ t.obj[x].next = s.obj[x].next
    BY <1>4, <1>5
<1>7. Sound(t, c, {})
  <2>1. Referring(s, PartsIn(c), Known(s, c, {}))
    BY <1>0 DEF Sound
  <2>2. \A x \in PartsIn(c) : \/ x \in PartsIn(c) /\ t.obj[x].refs = s.obj[x].refs
                              \/ t.obj[x].refs = <<>>
    BY <1>1, <1>6
  <2>3. Known(s, c, {}) \subseteq Known(s, c, {})
    OBVIOUS
  <2>4. Referring(t, PartsIn(c), Known(s, c, {}))
    BY ONLY <2>1, <2>2, <2>3, ReferringStays
  <2> QED BY <1>0, <1>1, <1>3, <1>4, <2>4, PutOK
<1>8. Calm(t, c)
  <2>1. \A x \in PartsIn(c) : t.obj[x].next = s.obj[x].next /\ t.obj[x].prev = s.obj[x].prev
    BY <1>1, <1>6
  <2>2. \A x \in PartsIn(c) : /\ \A i \in 1..Len(t.obj[x].refs) : t.obj[x].refs[i] # FS_NULL
                              /\ t.obj[x].kind = "dext" => t.obj[x].refs # <<>>
    BY <1>0, <1>1, <1>6 DEF Calm, Full
  <2>3. \A x \in DOMAIN c : t.obj[x].kind = s.obj[x].kind /\ t.obj[x].parent = s.obj[x].parent
    BY <1>1, <1>6
  <2> QED BY ONLY <1>0, <2>1, <2>2, <2>3, CalmPut
<1>9. Runs(s, <<Obj(f, o)>>, t, {}, z)
  <2>1. Fine(s, {}) /\ Fine(t, {}) /\ f \in Blocks
    BY <1>0, <1>2, <1>7 DEF Fine
  <2> QED BY <1>3, <2>1, PutRuns
<1> QED BY <1>7, <1>8, <1>9 DEF Quiet

(* All the extents go: their first write ends the chain at the header.     *)
LEMMA CutAll ==
    ASSUME NEW c, Quiet(disk, c), NEW f \in DOMAIN c, NEW bs, bs = Tail(c[f]), bs # <<>>,
           NEW n \in 0..MaxSize, NEW o, o = [disk.obj[f] EXCEPT !.len = n, !.next = FS_NULL],
           NEW z, z = TRUE
    PROVE  /\ \E t, k : Runs(disk, FreeAll(bs) \o <<Obj(f, o)>>, t, {}, z) /\ Quiet(t, k)
           /\ \E S : FreeAll(bs) \in Seq(S)
<1>0. Sound(disk, c, {}) /\ disk \in Disks /\ Shape(c) /\ Calm(disk, c)
    BY DEF Quiet, Sound
<1> DEFINE l == c[f]
           q == SubSeq(c[f], 1, 1)
           k == [c EXCEPT ![f] = q]
           b == c[f][2]
           ws == FreeAll(bs)
<1>1. /\ l \in Seq(Blocks) /\ Len(l) \in Nat /\ Len(l) > 0 /\ l[1] = f
      /\ \A i \in 1..Len(l) : l[i] \in Blocks /\ l[i] \in PartsIn(c)
      /\ \A i \in 1..(Len(l) - 1) : disk.obj[l[i]].next = l[i + 1]
    BY <1>0, ChainFacts
<1>2. bs = Tail(l) /\ l = c[f]
    OBVIOUS
<1> HIDE DEF l
<1>3. /\ bs \in Seq(Blocks) /\ Len(bs) = Len(l) - 1 /\ Len(bs) > 0
      /\ \A i \in 1..Len(bs) : bs[i] = l[i + 1]
    BY <1>1, <1>2
<1>4. Cut(c, k, f, 1, q)
    BY <1>1, <1>2 DEF Cut
<1>5. /\ Shape(k) /\ DOMAIN k = DOMAIN c /\ k[f] = q
      /\ q \in Seq(Blocks) /\ Len(q) = 1 /\ q[1] = l[1]
      /\ PartsIn(k) \subseteq PartsIn(c)
      /\ \A i \in 2..Len(l) : l[i] \notin PartsIn(k)
  <2> HIDE DEF k, q
  <2>1. PICK j : j = 1 /\ Cut(c, k, f, j, q)
    BY <1>4
  <2>2. /\ Shape(k) /\ DOMAIN k = DOMAIN c /\ k[f] = q
        /\ q \in Seq(Blocks) /\ Len(q) = j /\ \A i \in 1..j : q[i] = c[f][i]
        /\ PartsIn(k) \subseteq PartsIn(c)
        /\ \A i \in (j + 1)..Len(c[f]) : c[f][i] \notin PartsIn(k)
    <3>1. Cut(c, k, f, j, q) /\ Shape(c)
      BY <1>0, <2>1
    <3> QED BY ONLY <3>1, CutFacts
  <2> QED BY <1>2, <2>1, <2>2
<1>6. /\ b \in Blocks /\ b = l[2] /\ b \notin PartsIn(k) /\ bs[1] = b /\ disk.obj[f].next = b
  <2>1. 2 \in 1..Len(l) /\ 2 \in 2..Len(l) /\ 1 \in 1..Len(bs) /\ 1 \in 1..(Len(l) - 1)
    BY <1>1, <1>3
  <2> HIDE DEF k
  <2> QED BY <1>1, <1>2, <1>3, <1>5, <2>1
<1> HIDE DEF b
<1>7. ws \in Seq(Harmless(disk, k)) /\ ws # <<>> /\ ws[1] = Size(b, 0)
  <2>1. \A i \in 1..Len(bs) : \E x \in (1 + 1)..Len(c[f]) : bs[i] = c[f][x]
    <3>1. \A i \in 1..Len(bs) : i + 1 \in (1 + 1)..Len(c[f])
      BY <1>1, <1>2, <1>3
    <3> QED BY <1>2, <1>3, <3>1
  <2> HIDE DEF k, q
  <2>2. PICK j : j = 1
    OBVIOUS
  <2>3. /\ Cut(c, k, f, j, q) /\ bs \in Seq(Blocks) /\ Quiet(disk, c)
        /\ \A i \in 1..Len(bs) : \E x \in (j + 1)..Len(c[f]) : bs[i] = c[f][x]
    BY <1>3, <1>4, <2>1, <2>2
  <2>4. /\ FreeAll(bs) \in Seq(Harmless(disk, k))
        /\ Len(bs) > 0 => FreeAll(bs) # <<>> /\ FreeAll(bs)[1] = Size(bs[1], 0)
    BY ONLY <2>3, TailFree
  <2> QED BY <1>3, <1>6, <2>4
<1> HIDE DEF ws
<1> DEFINE s == Written(disk, Size(b, 0))
<1>8. /\ s \in Disks /\ s.bits = disk.bits /\ s.obj = disk.obj
      /\ s.size[b] = 0 /\ \A x \in Blocks \ {b} : s.size[x] = disk.size[x]
  <2>1. 0 \in 0..block_count
    BY BaseFSAssumption
  <2>2. disk \in Disks /\ b \in Blocks /\ s = Written(disk, Size(b, 0))
    BY <1>0, <1>6
  <2> HIDE DEF s
  <2> QED BY ONLY <2>1, <2>2, SizedFacts
<1> HIDE DEF s
<1>9. Sound(s, k, {})
  <2>1. 1 \in 1..Len(c[f]) /\ c[f][1] = f
    BY <1>1, <1>2
  <2>2. ~LiveOn(s, s.obj[f].next)
    BY <1>6, <1>8 DEF LiveOn
  <2>3. CutTo(disk, s, c, k, {}, f, 1)
    <3>1. \A x \in Blocks : s.size[x] = disk.size[x] \/ (s.size[x] = 0 /\ x \notin PartsIn(k) \cup {})
      BY <1>6, <1>8
    <3> QED BY <1>8, <2>1, <2>2, <3>1 DEF CutTo
  <2> HIDE DEF k
  <2> QED BY ONLY <1>0, <1>8, <2>1, <2>3, f \in DOMAIN c, CutShape
<1>10. Runs(disk, <<ws[1]>>, s, {}, z)
  <2>1. Size(b, 0) \in Writes
    BY <1>6, WritesFacts
  <2>2. Fits(disk, Size(b, 0), {}, z) /\ Fine(s, {}) /\ s = Written(disk, Size(b, 0))
    BY <1>0, <1>9 DEF Fits, Fine, s
  <2>3. Runs(disk, <<Size(b, 0)>>, s, {}, z)
    BY ONLY <2>1, <2>2, RunsOne
  <2> QED BY <1>7, <2>3
<1>11. SameSizes(disk, s, k)
    BY <1>0, <1>5, <1>6, <1>8, ShapeFacts DEF SameSizes
<1> HIDE DEF k
<1>12. Tail(ws) \in Seq(Harmless(disk, k)) /\ ws = <<ws[1]>> \o Tail(ws)
    BY <1>7
<1>13. PICK t : /\ Runs(s, Tail(ws), t, {}, z) /\ Sound(t, k, {}) /\ t.obj = s.obj
                /\ SameSizes(t, s, k)
    BY ONLY <1>9, <1>11, <1>12, HarmlessRuns
<1>14. t \in Disks /\ t.obj = disk.obj
    BY <1>8, <1>13 DEF Sound
<1>15. f \in Blocks /\ disk.obj[f] \in Contents /\ disk.obj[f] \in Object
    BY <1>0, <1>1, DiskFacts
<1>16. /\ o \in Contents /\ o.kind = disk.obj[f].kind /\ o.refs = disk.obj[f].refs
       /\ o.prev = disk.obj[f].prev /\ o.parent = disk.obj[f].parent /\ o.next = FS_NULL
  <2>1. FS_NULL \in 0..block_count
    BY BaseFSAssumption DEF FS_NULL
  <2> QED BY <1>15, <2>1, ContentsFacts DEF Object
<1> DEFINE u == Written(t, Obj(f, o))
<1>17. /\ u \in Disks /\ u.bits = t.bits /\ u.size = t.size
       /\ u.obj[f] = o /\ \A x \in Blocks \ {f} : u.obj[x] = t.obj[x]
    BY <1>14, <1>15, <1>16, PutFacts
<1> HIDE DEF u
<1>18. Sound(u, k, {})
  <2>1. SubSeq(q, 1, 1) = q
    BY <1>5
  <2>2. k = [k EXCEPT ![f] = SubSeq(k[f], 1, 1)]
    <3>1. k \in [DOMAIN c -> Seq(Blocks)]
      BY <1>5 DEF Shape
    <3> HIDE DEF q
    <3> QED BY <1>5, <2>1, <3>1
  <2>3. f \in DOMAIN k /\ 1 \in 1..Len(k[f]) /\ k[f][1] = f
    BY <1>1, <1>5
  <2>4. ~LiveOn(u, u.obj[f].next)
    BY <1>16, <1>17 DEF LiveOn, Blocks, FS_NULL
  <2>5. CutTo(t, u, k, k, {}, f, 1)
    BY <1>14, <1>16, <1>17, <2>2, <2>3, <2>4 DEF CutTo
  <2> QED BY ONLY <1>13, <1>17, <2>3, <2>5, CutShape
<1>19. Calm(u, k)
  <2>1. CutOn(disk, u, c, k, f, 1, q, f)
    BY <1>1, <1>2, <1>4, <1>14, <1>16, <1>17 DEF CutOn
  <2> QED BY ONLY <1>0, <2>1, CutCalm
<1>20. Runs(t, <<Obj(f, o)>>, u, {}, z)
  <2>1. Fine(t, {}) /\ Fine(u, {}) /\ u = Written(t, Obj(f, o)) /\ f \in Blocks /\ o \in Contents
    BY <1>13, <1>15, <1>16, <1>18 DEF Fine, u
  <2> QED BY ONLY <2>1, PutRuns
<1>21. Runs(disk, ws, t, {}, z)
  <2> DEFINE w1 == <<ws[1]>>
             w2 == Tail(ws)
  <2>1. Runs(disk, w1, s, {}, z) /\ Runs(s, w2, t, {}, z) /\ ws = w1 \o w2
    BY <1>10, <1>12, <1>13
  <2> HIDE DEF w1, w2
  <2>2. Runs(disk, w1 \o w2, t, {}, z)
    BY ONLY <2>1, RunsConcat
  <2> QED BY <2>1, <2>2
<1>22. Runs(disk, ws \o <<Obj(f, o)>>, u, {}, z)
  <2> DEFINE w == <<Obj(f, o)>>
  <2>1. Runs(t, w, u, {}, z)
    BY <1>20
  <2> HIDE DEF w
  <2>2. Runs(disk, ws \o w, u, {}, z)
    BY ONLY <1>21, <2>1, RunsConcat
  <2> QED BY <2>2 DEF w
<1> QED BY <1>7, <1>18, <1>19, <1>22 DEF Quiet, ws

LEMMA ShrinkTail ==
    ASSUME NEW c, Quiet(disk, c), NEW k, NEW f, NEW j, NEW q, NEW p, NEW o \in Contents,
           NEW bs \in Seq(Blocks), Cutting(c, k, f, j, q, p, o, bs), p # f, NEW n \in 0..MaxSize,
           NEW g, g = [disk.obj[f] EXCEPT !.len = n], NEW z
    PROVE  \E t : Runs(disk, (<<Obj(p, o)>> \o FreeAll(bs)) \o <<Obj(f, g)>>, t, {}, z) /\ Quiet(t, k)
<1>0. PICK s : Runs(disk, <<Obj(p, o)>> \o FreeAll(bs), s, {}, z) /\ CutDone(s, k, p, o)
    BY CutTail
<1>1. /\ Runs(disk, <<Obj(p, o)>> \o FreeAll(bs), s, {}, z) /\ Quiet(s, k)
      /\ s.obj[p] = o /\ \A x \in Blocks \ {p} : s.obj[x] = disk.obj[x]
    BY <1>0 DEF CutDone
<1>2. f \in DOMAIN c /\ DOMAIN k = DOMAIN c
  <2>1. Shape(c) /\ Cut(c, k, f, j, q)
    BY DEF Quiet, Sound, Cutting
  <2> QED BY ONLY <2>1, CutFacts
<1>3. f \in Blocks
    BY <1>2, ShapeFacts DEF Quiet, Sound
<1>4. g = [s.obj[f] EXCEPT !.len = n]
    BY <1>1, <1>3
<1> DEFINE t == Written(s, Obj(f, g))
           w1 == <<Obj(p, o)>> \o FreeAll(bs)
           w2 == <<Obj(f, g)>>
<1>5. Quiet(t, k) /\ Runs(s, <<Obj(f, g)>>, t, {}, z)
  <2>1. f \in DOMAIN k /\ t = Written(s, Obj(f, g)) /\ Quiet(s, k)
    BY <1>1, <1>2
  <2> HIDE DEF t
  <2> QED BY <1>4, <2>1, LenPut
<1> HIDE DEF t
<1>6. Runs(disk, w1, s, {}, z) /\ Runs(s, w2, t, {}, z)
    BY <1>1, <1>5
<1> HIDE DEF w1, w2
<1>7. Runs(disk, w1 \o w2, t, {}, z)
    BY ONLY <1>6, RunsConcat
<1> QED BY <1>5, <1>7 DEF w1, w2

(* fs_file_resize to a smaller size.                                       *)
LEMMA ShrinkOK ==
    ASSUME NEW c, Quiet(disk, c), NEW f \in DOMAIN c, NEW n \in 0..MaxSize, NEW z, z = TRUE
    PROVE  \E t, k : Runs(disk, Shrink(f, n), t, {}, z) /\ Quiet(t, k)
<1>0. Sound(disk, c, {}) /\ disk \in Disks /\ Shape(c)
    BY DEF Quiet, Sound
<1> DEFINE l == c[f]
           chain == Chain(f)
           upto == Capacity(chain)
           over == {i \in DOMAIN chain : upto[i] > n}
           i == Min(over)
           keep == n - upto[i - 1]
           g == [disk.obj[f] EXCEPT !.len = n]
<1>1. /\ l \in Seq(Blocks) /\ Len(l) \in Nat /\ Len(l) > 0 /\ l[1] = f /\ IsInjective(l)
      /\ DOMAIN l = 1..Len(l) /\ \A x \in 1..Len(l) : l[x] \in Blocks /\ l[x] \in PartsIn(c)
    BY <1>0, ChainFacts
<1>2. chain = Tail(l) /\ l = c[f]
    BY <1>0, PartsOnDisk DEF Chain
<1>3. /\ chain \in Seq(Blocks) /\ Len(chain) = Len(l) - 1 /\ DOMAIN chain = 1..(Len(l) - 1)
      /\ \A x \in 1..(Len(l) - 1) : chain[x] = l[x + 1]
  <2> HIDE DEF l, chain
  <2> QED BY <1>1, <1>2
<1>4. f \in Blocks /\ disk.obj[f] \in Contents /\ disk.obj[f] \in Object
    BY <1>0, <1>1, DiskFacts
<1>5. g = [disk.obj[f] EXCEPT !.len = n, !.next = disk.obj[f].next]
    BY <1>4 DEF Object
<1>6. CASE over = {}
  <2>1. Shrink(f, n) = <<Obj(f, g)>>
    BY <1>6 DEF Shrink
  <2> DEFINE t == Written(disk, Obj(f, g))
  <2>2. Quiet(t, c) /\ Runs(disk, <<Obj(f, g)>>, t, {}, z)
    <3>1. t = Written(disk, Obj(f, g)) /\ g = [disk.obj[f] EXCEPT !.len = n]
      OBVIOUS
    <3> HIDE DEF t, g
    <3> QED BY <3>1, LenPut
  <2> QED BY <2>1, <2>2
<1>7. CASE over # {}
  <2>1. i \in over
    <3>1. over \subseteq Nat
      BY <1>3
    <3> HIDE DEF over
    <3> QED BY <1>7, <3>1, MinExists
  <2>2. i \in 1..(Len(l) - 1) /\ i \in Nat /\ i > 0
    <3>1. i \in 1..(Len(l) - 1)
      BY <1>3, <2>1
    <3> HIDE DEF i, l
    <3> QED BY <1>1, <3>1
  <2>3. upto[i - 1] \in Nat /\ upto[0] = 0
    <3>1. i - 1 \in 0..Len(chain)
      <4> HIDE DEF i, l, chain
      <4> QED BY <1>1, <1>3, <2>2
    <3> HIDE DEF i, chain
    <3> QED BY <1>0, <1>3, <3>1, CapacityFacts
  <2>4. keep \in Int /\ keep <= n
    <3> HIDE DEF upto, i
    <3> QED BY <2>2, <2>3, BaseFSAssumption
  <2>5. CASE keep > 0
    <3> DEFINE p == chain[i]
               o == [disk.obj[p] EXCEPT !.len = keep, !.next = FS_NULL]
               gone == SubSeq(chain, i + 1, Len(chain))
               q == SubSeq(l, 1, i + 1)
               k == [c EXCEPT ![f] = q]
    <3>1. ~(keep = 0)
      <4> HIDE DEF keep
      <4> QED BY <2>4, <2>5
    <3>2. Shrink(f, n) = (<<Obj(p, o)>> \o FreeAll(gone)) \o
                         <<Obj(f, [disk.obj[f] EXCEPT !.len = n, !.next = disk.obj[f].next])>>
      BY <1>7, <2>5, <3>1 DEF Shrink
    <3>3. Shrink(f, n) = (<<Obj(p, o)>> \o FreeAll(gone)) \o <<Obj(f, g)>>
      BY <1>5, <3>2
    <3>4. keep \in 0..MaxSize
      <4> HIDE DEF keep
      <4> QED BY <2>4, <2>5, BaseFSAssumption
    <3> HIDE DEF keep, over, upto, i, chain
    <3>5. p = l[i + 1] /\ i + 1 \in 1..Len(l) /\ p # f /\ p \in Blocks
      <4> HIDE DEF l
      <4>1. p = l[i + 1] /\ i + 1 \in 1..Len(l) /\ 1 \in 1..Len(l)
        BY <1>1, <1>3, <2>2
      <4>2. l[i + 1] # l[1]
        BY <1>1, <2>2, <4>1 DEF IsInjective
      <4> QED BY <1>1, <4>1, <4>2
    <3>6. o \in Contents /\ o.kind = disk.obj[p].kind /\ o.refs = disk.obj[p].refs
          /\ o.prev = disk.obj[p].prev /\ o.parent = disk.obj[p].parent /\ o.next = FS_NULL
      <4>1. FS_NULL \in 0..block_count
        BY BaseFSAssumption DEF FS_NULL
      <4>2. disk.obj[p] \in Contents /\ disk.obj[p] \in Object
        BY <1>0, <3>5, DiskFacts
      <4> HIDE DEF p
      <4> QED BY <3>4, <4>1, <4>2, ContentsFacts DEF Object
    <3>7. gone \in Seq(Blocks) /\ \A x \in 1..Len(gone) : \E y \in ((i + 1) + 1)..Len(l) : gone[x] = l[y]
      <4> HIDE DEF l
      <4>1. /\ gone \in Seq(Blocks)
            /\ \A x \in 1..Len(gone) : i + x \in 1..(Len(l) - 1) /\ gone[x] = chain[i + x]
        BY <1>1, <1>3, <2>2
      <4>2. \A x \in 1..Len(gone) : gone[x] = l[i + x + 1] /\ i + x + 1 \in ((i + 1) + 1)..Len(l)
        BY <1>1, <1>3, <2>2, <4>1
      <4> QED BY <4>1, <4>2
    <3>8. PICK j : j = i + 1
      OBVIOUS
    <3>9. Cutting(c, k, f, j, q, p, o, gone)
      <4>1. Cut(c, k, f, j, q)
        BY <3>5, <3>8 DEF Cut
      <4> HIDE DEF o, p, gone, k, q
      <4> QED BY <1>2, <3>5, <3>6, <3>7, <3>8, <4>1 DEF Cutting
    <3>10. o \in Contents /\ gone \in Seq(Blocks) /\ p # f /\ g = [disk.obj[f] EXCEPT !.len = n]
      BY <3>5, <3>6, <3>7
    <3> HIDE DEF o, p, gone, k, q, g
    <3>11. \E t : Runs(disk, (<<Obj(p, o)>> \o FreeAll(gone)) \o <<Obj(f, g)>>, t, {}, z) /\ Quiet(t, k)
      BY <3>9, <3>10, ShrinkTail
    <3> QED BY <3>3, <3>11
  <2>6. CASE ~(keep > 0) /\ i > 1
    <3> DEFINE p == chain[i - 1]
               o == [disk.obj[p] EXCEPT !.next = FS_NULL]
               gone == SubSeq(chain, i, Len(chain))
               q == SubSeq(l, 1, i)
               k == [c EXCEPT ![f] = q]
    <3>1. ~(i = 1)
      <4> HIDE DEF i
      <4> QED BY <2>2, <2>6
    <3>2. Shrink(f, n) = (<<Obj(p, o)>> \o FreeAll(gone)) \o
                         <<Obj(f, [disk.obj[f] EXCEPT !.len = n, !.next = disk.obj[f].next])>>
      BY <1>7, <2>6, <3>1 DEF Shrink
    <3>3. Shrink(f, n) = (<<Obj(p, o)>> \o FreeAll(gone)) \o <<Obj(f, g)>>
      BY <1>5, <3>2
    <3> HIDE DEF keep, over, upto, i, chain
    <3>5. p = l[i] /\ i \in 1..Len(l) /\ p # f /\ p \in Blocks
      <4> HIDE DEF l
      <4>1. p = l[i] /\ i \in 1..Len(l) /\ 1 \in 1..Len(l)
        BY <1>1, <1>3, <2>2, <2>6
      <4>2. l[i] # l[1]
        BY <1>1, <2>2, <2>6, <4>1 DEF IsInjective
      <4> QED BY <1>1, <4>1, <4>2
    <3>6. o \in Contents /\ o.kind = disk.obj[p].kind /\ o.refs = disk.obj[p].refs
          /\ o.prev = disk.obj[p].prev /\ o.parent = disk.obj[p].parent /\ o.next = FS_NULL
      <4>1. FS_NULL \in 0..block_count /\ 0 \in 0..MaxSize
        BY BaseFSAssumption DEF FS_NULL
      <4>2. disk.obj[p] \in Contents /\ disk.obj[p] \in Object
        BY <1>0, <3>5, DiskFacts
      <4> HIDE DEF p
      <4> QED BY <4>1, <4>2, ContentsFacts DEF Object
    <3>7. gone \in Seq(Blocks) /\ \A x \in 1..Len(gone) : \E y \in (i + 1)..Len(l) : gone[x] = l[y]
      <4> HIDE DEF l
      <4>1. /\ gone \in Seq(Blocks)
            /\ \A x \in 1..Len(gone) : i + x - 1 \in 1..(Len(l) - 1) /\ gone[x] = chain[i + x - 1]
        BY <1>1, <1>3, <2>2
      <4>2. \A x \in 1..Len(gone) : gone[x] = l[i + x] /\ i + x \in (i + 1)..Len(l)
        BY <1>1, <1>3, <2>2, <4>1
      <4> QED BY <4>1, <4>2
    <3>9. Cutting(c, k, f, i, q, p, o, gone)
      <4>1. Cut(c, k, f, i, q)
        BY <3>5 DEF Cut
      <4> HIDE DEF o, p, gone, k, q
      <4> QED BY <1>2, <3>5, <3>6, <3>7, <4>1 DEF Cutting
    <3>10. o \in Contents /\ gone \in Seq(Blocks) /\ p # f /\ g = [disk.obj[f] EXCEPT !.len = n]
      BY <3>5, <3>6, <3>7
    <3> HIDE DEF o, p, gone, k, q, g
    <3>11. \E t : Runs(disk, (<<Obj(p, o)>> \o FreeAll(gone)) \o <<Obj(f, g)>>, t, {}, z) /\ Quiet(t, k)
      BY <3>9, <3>10, ShrinkTail
    <3> QED BY <3>3, <3>11
  <2>7. CASE ~(keep > 0) /\ ~(i > 1)
    <3>1. i = 1 /\ keep = 0
      <4>1. i = 1
        <5> HIDE DEF i
        <5> QED BY <2>2, <2>7
      <4>2. keep = n
        <5> HIDE DEF upto, i
        <5> QED BY <2>3, <4>1
      <4> HIDE DEF keep, i
      <4> QED BY <2>7, <4>1, <4>2, BaseFSAssumption
    <3> DEFINE o == [disk.obj[f] EXCEPT !.len = n, !.next = FS_NULL]
               gone == SubSeq(chain, i, Len(chain))
    <3>2. Shrink(f, n) = (<<>> \o FreeAll(gone)) \o <<Obj(f, o)>>
      BY <1>7, <2>7, <3>1 DEF Shrink
    <3> HIDE DEF keep, over, upto, i, chain
    <3>3. gone = chain /\ chain # <<>>
      <4> HIDE DEF l
      <4> QED BY <1>1, <1>3, <2>2, <3>1
    <3>4. \E t, k : Runs(disk, FreeAll(chain) \o <<Obj(f, o)>>, t, {}, z) /\ Quiet(t, k)
      <4>1. chain = Tail(c[f]) /\ o = [disk.obj[f] EXCEPT !.len = n, !.next = FS_NULL]
        BY <1>2
      <4> HIDE DEF o
      <4> QED BY <3>3, <4>1, CutAll
    <3>5. <<>> \o FreeAll(chain) = FreeAll(chain)
      <4>1. chain = Tail(c[f]) /\ o = [disk.obj[f] EXCEPT !.len = n, !.next = FS_NULL]
        BY <1>2
      <4> HIDE DEF o
      <4>2. \E S : FreeAll(chain) \in Seq(S)
        BY <3>3, <4>1, CutAll
      <4> QED BY <4>2
    <3> QED BY <3>2, <3>3, <3>4, <3>5
  <2> QED BY <2>5, <2>6, <2>7
<1> QED BY <1>6, <1>7

-----------------------------------------------------------------------------
(***************************************************************************)
(* Operations: a file becomes larger.                                      *)
(***************************************************************************)
(* Disk t is v but for the link of header f, which leads nowhere yet.      *)
Hides(t, v, f) ==
    /\ t \in Disks /\ t.bits = v.bits /\ t.size = v.size
    /\ \A x \in Blocks \ {f} : t.obj[x] = v.obj[x]
    /\ t.obj[f] = [v.obj[f] EXCEPT !.next = FS_NULL]

Like(t, v, f) == t = v \/ Hides(t, v, f)

LEMMA LikeQuiet ==
    ASSUME NEW v, NEW k, Quiet(v, k), NEW f \in DOMAIN k, NEW t, Like(t, v, f)
    PROVE  \E g : Quiet(t, g)
<1>0. Sound(v, k, {}) /\ v \in Disks /\ Shape(k) /\ Calm(v, k)
    BY DEF Quiet, Sound
<1>1. SUFFICES ASSUME Hides(t, v, f) PROVE \E g : Quiet(t, g)
    BY DEF Like
<1>2. /\ t \in Disks /\ t.bits = v.bits /\ t.size = v.size
      /\ \A x \in Blocks \ {f} : t.obj[x] = v.obj[x]
      /\ t.obj[f] = [v.obj[f] EXCEPT !.next = FS_NULL]
    BY <1>1 DEF Hides
<1>3. f \in Blocks /\ Len(k[f]) \in Nat /\ Len(k[f]) > 0 /\ k[f][1] = f
    BY <1>0, ShapeFacts
<1>4. v.obj[f] \in Object
    BY <1>0, <1>3, DiskFacts
<1>5. /\ t.obj[f].kind = v.obj[f].kind /\ t.obj[f].refs = v.obj[f].refs
      /\ t.obj[f].prev = v.obj[f].prev /\ t.obj[f].parent = v.obj[f].parent
      /\ t.obj[f].next = FS_NULL
    BY <1>2, <1>4 DEF Object
<1> DEFINE q == SubSeq(k[f], 1, 1)
           g == [k EXCEPT ![f] = q]
<1>6. 1 \in 1..Len(k[f])
    BY <1>3
<1>7. Sound(t, g, {})
  <2>1. ~LiveOn(t, t.obj[f].next)
    BY <1>5 DEF LiveOn, Blocks, FS_NULL
  <2>2. CutTo(v, t, k, g, {}, f, 1)
    BY <1>2, <1>3, <1>5, <2>1 DEF CutTo
  <2>3. Sound(v, k, {}) /\ f \in DOMAIN k /\ t \in Disks
    BY <1>0, <1>2
  <2> HIDE DEF g
  <2> QED BY ONLY <1>6, <2>2, <2>3, CutShape
<1>8. Calm(t, g)
  <2>1. Cut(k, g, f, 1, q)
    BY <1>6 DEF Cut
  <2>2. CutOn(v, t, k, g, f, 1, q, f)
    BY <1>2, <1>3, <1>5, <2>1 DEF CutOn
  <2> HIDE DEF g, q
  <2> QED BY ONLY <1>0, <2>2, CutCalm
<1> QED BY <1>7, <1>8 DEF Quiet

(* File f grows: v is the disk its header will be right on.                *)
GrowsTo(t, v, k, f, p, i) ==
    /\ Quiet(v, k) /\ f \in DOMAIN k /\ v.obj[f].kind = "file" /\ v.obj[f].next = i
    /\ p = k[f][Len(k[f])] /\ Like(t, v, f)

Growing(t, f, p, i) == \E v, k : GrowsTo(t, v, k, f, p, i)

Alike(t, v, f) ==
    /\ t \in Disks /\ v \in Disks /\ t.bits = v.bits /\ t.size = v.size
    /\ \A x \in Blocks \ {f} : t.obj[x] = v.obj[x]
    /\ t.obj[f].kind = "file" /\ f \in Blocks
    /\ \/ t.obj[f] = v.obj[f]
       \/ t.obj[f] = [v.obj[f] EXCEPT !.next = FS_NULL]

LEMMA GrowsFacts ==
    ASSUME NEW t, NEW v, NEW k, NEW f, NEW p, NEW i, GrowsTo(t, v, k, f, p, i)
    PROVE  /\ Quiet(v, k) /\ f \in DOMAIN k /\ v.obj[f].kind = "file" /\ v.obj[f].next = i
           /\ p = k[f][Len(k[f])] /\ Like(t, v, f) /\ \E g : Quiet(t, g)
           /\ Alike(t, v, f) /\ p \in Blocks /\ p \in PartsIn(k)
           /\ p = f => Len(k[f]) = 1 /\ v.obj[f].next = FS_NULL /\ t.obj[f] = v.obj[f]
<1>1. /\ Quiet(v, k) /\ f \in DOMAIN k /\ v.obj[f].kind = "file" /\ v.obj[f].next = i
      /\ p = k[f][Len(k[f])] /\ Like(t, v, f)
    BY DEF GrowsTo
<1>2. \E g : Quiet(t, g)
    BY <1>1, LikeQuiet
<1>3. t \in Disks /\ v \in Disks /\ Shape(k)
    BY <1>1, <1>2 DEF Quiet, Sound
<1>4. /\ t.bits = v.bits /\ t.size = v.size
      /\ \A x \in Blocks \ {f} : t.obj[x] = v.obj[x]
      /\ \/ t.obj[f] = v.obj[f]
         \/ t.obj[f] = [v.obj[f] EXCEPT !.next = FS_NULL]
    BY <1>1 DEF Like, Hides
<1>5. f \in Blocks /\ p \in Blocks /\ p \in PartsIn(k)
    BY <1>1, <1>3, ShapeFacts, LastFacts
<1>6. v.obj[f] \in Object
    BY <1>3, <1>5, DiskFacts
<1>7. t.obj[f].kind = "file"
    BY <1>1, <1>4, <1>6 DEF Object
<1>8. ASSUME p = f PROVE Len(k[f]) = 1 /\ v.obj[f].next = FS_NULL /\ t.obj[f] = v.obj[f]
  <2>1. Len(k[f]) = 1
    <3>1. k[f][1] = f /\ 1 \in 1..Len(k[f]) /\ Len(k[f]) \in 1..Len(k[f])
      BY <1>1, <1>3, ShapeFacts
    <3>2. \A x, y \in 1..Len(k[f]) : k[f][x] = k[f][y] => x = y
      BY <1>1, <1>3, ShapeFacts
    <3> QED BY <1>1, <1>8, <3>1, <3>2
  <2>2. v.obj[f].next = FS_NULL
    BY <1>1, <1>8 DEF Quiet, Calm, Ends
  <2>3. [v.obj[f] EXCEPT !.next = FS_NULL] = v.obj[f]
    BY <1>6, <2>2 DEF Object
  <2> QED BY <1>4, <2>1, <2>2, <2>3
<1>9. Alike(t, v, f)
    BY <1>3, <1>4, <1>5, <1>7 DEF Alike
<1> QED BY <1>1, <1>2, <1>5, <1>8, <1>9

(* The header is written last.                                             *)
LEMMA GrownOK ==
    ASSUME NEW f, NEW p, NEW i, Growing(disk, f, p, i), NEW n \in 0..MaxSize,
           NEW o, o = [disk.obj[f] EXCEPT !.len = n, !.next = i], NEW z
    PROVE  \E t, k : Runs(disk, <<Obj(f, o)>>, t, {}, z) /\ Quiet(t, k)
<1>1. PICK v, k : GrowsTo(disk, v, k, f, p, i)
    BY DEF Growing
<1>2. /\ Quiet(v, k) /\ f \in DOMAIN k /\ v.obj[f].next = i
      /\ disk \in Disks /\ v \in Disks /\ disk.bits = v.bits /\ disk.size = v.size
      /\ \A x \in Blocks \ {f} : disk.obj[x] = v.obj[x]
      /\ f \in Blocks /\ \E g : Quiet(disk, g)
      /\ \/ disk.obj[f] = v.obj[f]
         \/ disk.obj[f] = [v.obj[f] EXCEPT !.next = FS_NULL]
  <2>1. Quiet(v, k) /\ f \in DOMAIN k /\ v.obj[f].next = i
    BY <1>1 DEF GrowsTo
  <2>2. Alike(disk, v, f) /\ \E g : Quiet(disk, g)
    BY ONLY <1>1, GrowsFacts
  <2> QED BY <2>1, <2>2 DEF Alike
<1>3. v.obj[f] \in Object /\ v.obj[f] \in Contents
    BY <1>2, DiskFacts
<1>4. o = [v.obj[f] EXCEPT !.len = n]
    BY <1>2, <1>3 DEF Object
<1> DEFINE t == Written(v, Obj(f, o))
           s == Written(disk, Obj(f, o))
<1>5. Quiet(t, k)
  <2>1. t = Written(v, Obj(f, o))
    OBVIOUS
  <2> HIDE DEF t
  <2> QED BY ONLY <1>2, <1>4, <2>1, n \in 0..MaxSize, LenPut
<1>6. o \in Contents
  <2>1. FS_NULL \in 0..block_count
    BY BaseFSAssumption DEF FS_NULL
  <2> QED BY <1>3, <1>4, <2>1, ContentsFacts
<1>7. s = t
  <2>1. /\ t \in Disks /\ t.bits = v.bits /\ t.size = v.size
        /\ t.obj[f] = o /\ \A x \in Blocks \ {f} : t.obj[x] = v.obj[x]
    BY <1>2, <1>6, PutFacts
  <2>2. /\ s \in Disks /\ s.bits = disk.bits /\ s.size = disk.size
        /\ s.obj[f] = o /\ \A x \in Blocks \ {f} : s.obj[x] = disk.obj[x]
    BY <1>2, <1>6, PutFacts
  <2> HIDE DEF s, t
  <2>3. s.obj = t.obj
    BY <1>2, <2>1, <2>2 DEF Disks
  <2> QED BY <1>2, <2>1, <2>2, <2>3 DEF Disks
<1>8. Runs(disk, <<Obj(f, o)>>, t, {}, z)
  <2>1. Fine(disk, {}) /\ Fine(t, {}) /\ f \in Blocks /\ o \in Contents
    BY <1>2, <1>5, <1>6 DEF Fine, Quiet
  <2>2. t = Written(disk, Obj(f, o))
    BY <1>7
  <2> HIDE DEF t
  <2> QED BY ONLY <2>1, <2>2, PutRuns
<1> QED BY <1>5, <1>8

LEMMA AlikeLike ==
    ASSUME NEW t, NEW v, NEW f, Alike(t, v, f)
    PROVE  Like(t, v, f)
<1>0. /\ t \in Disks /\ v \in Disks /\ t.bits = v.bits /\ t.size = v.size
      /\ \A x \in Blocks \ {f} : t.obj[x] = v.obj[x]
      /\ \/ t.obj[f] = v.obj[f]
         \/ t.obj[f] = [v.obj[f] EXCEPT !.next = FS_NULL]
    BY DEF Alike
<1>1. CASE t.obj[f] = v.obj[f]
  <2>1. \A x \in Blocks : t.obj[x] = v.obj[x]
    BY <1>0, <1>1
  <2>2. t.obj = v.obj
    BY <1>0, <2>1 DEF Disks
  <2> QED BY <1>0, <2>2 DEF Like, Disks
<1>2. CASE t.obj[f] = [v.obj[f] EXCEPT !.next = FS_NULL]
    BY <1>0, <1>2 DEF Like, Hides
<1> QED BY <1>0, <1>1, <1>2

(* The extent e is ready to be the last part of file f, behind p.          *)
Linking(v, k, f, p, e) ==
    /\ f \in DOMAIN k /\ v.obj[f].kind = "file" /\ p = k[f][Len(k[f])]
    /\ e \in Blocks \ PartsIn(k) /\ Here(v, e)
    /\ \A x \in PartsIn(k) : Run(e, v.size[e]) \cap Run(x, v.size[x]) = {}
    /\ v.obj[e].kind = "fext" /\ v.obj[e].refs = <<>>
    /\ v.obj[e].next = FS_NULL /\ v.obj[e].prev = p

LEMMA FileLinked ==
    ASSUME NEW v, NEW k, Quiet(v, k), NEW f, NEW p, NEW e, Linking(v, k, f, p, e),
           NEW t, t = Written(v, Obj(p, [v.obj[p] EXCEPT !.next = e]))
    PROVE  \E g : Quiet(t, g) /\ f \in DOMAIN g /\ e = g[f][Len(g[f])]
<1>0. /\ f \in DOMAIN k /\ v.obj[f].kind = "file" /\ p = k[f][Len(k[f])]
      /\ e \in Blocks /\ e \notin PartsIn(k) /\ Here(v, e)
      /\ \A x \in PartsIn(k) : Run(e, v.size[e]) \cap Run(x, v.size[x]) = {}
      /\ v.obj[e].kind = "fext" /\ v.obj[e].refs = <<>>
      /\ v.obj[e].next = FS_NULL /\ v.obj[e].prev = p
    BY DEF Linking
<1>1. Sound(v, k, {}) /\ v \in Disks /\ Shape(k) /\ Calm(v, k) /\ PartsIn(k) \subseteq Blocks
    BY ShapeFacts DEF Quiet, Sound
<1> DEFINE q == Append(k[f], e)
           g == [k EXCEPT ![f] = q]
<1>2. /\ Sound(t, g, {}) /\ t.obj[p] = [v.obj[p] EXCEPT !.next = e]
      /\ \A x \in Blocks \ {p} : t.obj[x] = v.obj[x]
      /\ p \in Range(k[f]) /\ p \in Blocks /\ p # e
      /\ q \in Seq(Blocks) /\ Len(q) = Len(k[f]) + 1 /\ IsInjective(q)
      /\ \A i \in 1..Len(k[f]) : q[i] = k[f][i]
      /\ q[Len(q)] = e /\ Range(q) = Range(k[f]) \cup {e}
  <2>1. Appending(v, t, k, g, f, p, e, q)
    BY <1>0 DEF Appending
  <2>2. PICK m : m = {}
    OBVIOUS
  <2>3. Sound(v, k, m) /\ f \in DOMAIN k /\ e \in Blocks /\ e \notin m /\ Here(v, e)
    BY <1>0, <1>1, <2>2
  <2> HIDE DEF g, q
  <2>4. /\ Sound(t, g, m) /\ t.obj[p] = [v.obj[p] EXCEPT !.next = e]
        /\ \A x \in Blocks \ {p} : t.obj[x] = v.obj[x]
        /\ p \in Range(k[f]) /\ p \in Blocks /\ p # e
        /\ q \in Seq(Blocks) /\ Len(q) = Len(k[f]) + 1 /\ IsInjective(q)
        /\ \A i \in 1..Len(k[f]) : q[i] = k[f][i]
        /\ q[Len(q)] = e /\ Range(q) = Range(k[f]) \cup {e}
    BY ONLY <2>1, <2>3, AppendedOK
  <2> QED BY <2>2, <2>4
<1>3. v.obj[p] \in Object
    BY <1>1, <1>2, DiskFacts
<1>4. /\ t.obj[p].kind = v.obj[p].kind /\ t.obj[p].refs = v.obj[p].refs /\ t.obj[p].prev = v.obj[p].prev
      /\ t.obj[p].parent = v.obj[p].parent
    BY <1>2, <1>3 DEF Object
<1>5. /\ k[f] \in Seq(Blocks) /\ Len(k[f]) \in Nat /\ Len(k[f]) > 0 /\ k[f][1] = f /\ f \in Blocks
      /\ Range(k[f]) \subseteq PartsIn(k)
  <2>1. k[f] \in Seq(Blocks) /\ Len(k[f]) \in Nat /\ Len(k[f]) > 0 /\ k[f][1] = f
        /\ Range(k[f]) \subseteq PartsIn(k)
    BY <1>0, <1>1, ChainFacts
  <2> QED BY <1>0, <1>1, <2>1, ShapeFacts
<1> HIDE DEF q
<1>6. \A x \in Blocks : x # e => /\ t.obj[x].kind = v.obj[x].kind /\ t.obj[x].refs = v.obj[x].refs
                                 /\ t.obj[x].prev = v.obj[x].prev /\ t.obj[x].parent = v.obj[x].parent
    BY <1>2, <1>4
<1>7. Relinked(k, g, f, q, v, t)
  <2>1. Len(q) > 0 /\ q[1] = f
    BY <1>2, <1>5
  <2>2. Range(q) \cap PartsIn(k) \subseteq Range(k[f])
    BY <1>0, <1>2
  <2>3. \A x \in PartsIn(k) \ Range(k[f]) : t.obj[x] = v.obj[x]
    BY <1>1, <1>2
  <2>4. t.obj[f].kind = v.obj[f].kind /\ t.obj[f].parent = v.obj[f].parent
    BY <1>0, <1>2, <1>4, <1>5
  <2>5. t.obj[e] = v.obj[e]
    BY <1>0, <1>2
  <2>6. ASSUME NEW i \in 2..Len(q) PROVE t.obj[q[i]].prev = q[i - 1]
    <3>1. CASE i = Len(q)
      <4>1. i - 1 = Len(k[f]) /\ Len(k[f]) \in 1..Len(k[f])
        BY <1>2, <1>5, <3>1
      <4> QED BY <1>0, <1>2, <2>5, <3>1, <4>1
    <3>2. CASE i # Len(q)
      <4>1. i \in 2..Len(k[f]) /\ i \in 1..Len(k[f]) /\ i - 1 \in 1..Len(k[f])
        BY <1>2, <1>5, <2>6, <3>2
      <4>2. q[i] = k[f][i] /\ q[i - 1] = k[f][i - 1] /\ k[f][i] \in PartsIn(k)
        BY <1>0, <1>1, <1>2, <4>1, InChain
      <4>3. v.obj[k[f][i]].prev = k[f][i - 1]
        BY <1>0, <1>1, <4>1 DEF Calm, Prevs
      <4>4. t.obj[k[f][i]].prev = v.obj[k[f][i]].prev
        BY <1>0, <1>1, <1>6, <4>2
      <4> QED BY <4>2, <4>3, <4>4
    <3> QED BY <3>1, <3>2
  <2>7. ASSUME NEW x \in Range(q)
        PROVE  /\ \A i \in 1..Len(t.obj[x].refs) : t.obj[x].refs[i] # FS_NULL
               /\ t.obj[x].kind = "dext" => t.obj[x].refs # <<>>
    <3>1. CASE x = e
      <4>1. t.obj[x].refs = <<>> /\ t.obj[x].kind = "fext"
        BY <1>0, <2>5, <3>1
      <4>2. Len(t.obj[x].refs) = 0
        BY <4>1
      <4> QED BY <4>1, <4>2
    <3>2. CASE x # e
      <4>1. x \in PartsIn(k)
        BY <1>2, <1>5, <2>7, <3>2
      <4> QED BY <1>1, <1>6, <3>2, <4>1 DEF Calm, Full
    <3> QED BY <3>1, <3>2
  <2>8. t.obj[q[Len(q)]].next = FS_NULL
    BY <1>0, <1>2, <2>5
  <2> QED BY <1>2, <2>1, <2>2, <2>3, <2>4, <2>6, <2>7, <2>8 DEF Relinked
<1>8. g[f] = q /\ f \in DOMAIN g
    BY <1>0
<1> HIDE DEF g
<1>9. Calm(t, g)
    BY ONLY <1>0, <1>1, <1>7, CalmRelinked
<1> QED BY <1>2, <1>8, <1>9 DEF Quiet

(* The extent e is allocated and written, and not linked yet.              *)
LEMMA NewExtent ==
    ASSUME NEW v, NEW k, NEW f, NEW p, NEW i, GrowsTo(disk, v, k, f, p, i), NEW n \in 1..MaxSize,
           NEW e, e = FirstFit(n, {}), e # FS_NULL, NEW z
    PROVE  \E t, u : /\ Runs(disk, fs_alloc(e, n) \o <<Obj(e, FileExtent(p, n))>>, t, {}, z)
                     /\ GrowsTo(t, u, k, f, p, i) /\ Linking(u, k, f, p, e) /\ t.obj[p] = disk.obj[p]
<1>1. /\ Quiet(v, k) /\ f \in DOMAIN k /\ v.obj[f].kind = "file" /\ v.obj[f].next = i
      /\ p = k[f][Len(k[f])]
    BY DEF GrowsTo
<1>2. Alike(disk, v, f) /\ p \in Blocks /\ p \in PartsIn(k) /\ \E g : Quiet(disk, g)
    BY GrowsFacts
<1>3. /\ disk \in Disks /\ v \in Disks /\ disk.bits = v.bits /\ disk.size = v.size
      /\ \A x \in Blocks \ {f} : disk.obj[x] = v.obj[x]
      /\ disk.obj[f].kind = "file" /\ f \in Blocks
      /\ \/ disk.obj[f] = v.obj[f]
         \/ disk.obj[f] = [v.obj[f] EXCEPT !.next = FS_NULL]
    BY <1>2 DEF Alike
<1>4. PICK g : Quiet(disk, g)
    BY <1>2
<1>5. n \in Nat /\ n > 0
    BY BaseFSAssumption
<1>6. e \in Blocks /\ Run(e, n) \subseteq Blocks /\ Run(e, n) \cap disk.bits = {}
  <2>1. e \in Blocks /\ Free(e, n, {})
    BY <1>5, FirstFitFacts
  <2> QED BY <2>1 DEF Free
<1>7. n \in 1..block_count
  <2>1. e \in Nat /\ e >= 1 /\ block_count \in Nat
    BY <1>6, BaseFSAssumption DEF Blocks
  <2>2. e + n - 1 \in Blocks
    BY <1>5, <1>6, <2>1 DEF Run
  <2> QED BY <1>5, <2>1, <2>2 DEF Blocks
<1>8. /\ Sound(v, k, {}) /\ Shape(k) /\ Calm(v, k) /\ Ends(v, k) /\ PartsIn(k) \subseteq Blocks
      /\ Room(v, PartsIn(k)) /\ f \in PartsIn(k)
    BY <1>1, ShapeFacts DEF Quiet, Sound, Calm
<1>9. e \notin PartsIn(k) /\ \A x \in PartsIn(k) : Run(e, n) \cap Run(x, v.size[x]) = {}
    BY <1>3, <1>5, <1>6, <1>8, FreeIsOutside
<1> DEFINE ext == FileExtent(p, n)
<1>10. /\ ext \in Contents /\ ext.kind = "fext" /\ ext.refs = <<>> /\ ext.next = FS_NULL /\ ext.prev = p
  <2>1. p \in 0..block_count /\ n \in 0..MaxSize
    BY <1>2, <1>5, BaseFSAssumption DEF Blocks
  <2> QED BY <2>1, NewObjects
<1>11. PICK t1 : Runs(disk, fs_alloc(e, n), t1, {}, z) /\ Allocated(disk, t1, g, {}, e, n)
  <2>1. Sound(disk, g, {}) /\ Ends(disk, g)
    BY <1>4 DEF Quiet, Calm
  <2> QED BY ONLY <1>6, <1>7, <2>1, AllocOK
<1>12. PICK v1 : Runs(v, fs_alloc(e, n), v1, {}, z) /\ Allocated(v, v1, k, {}, e, n)
  <2>1. Run(e, n) \cap v.bits = {}
    BY <1>3, <1>6
  <2> QED BY ONLY <1>6, <1>7, <1>8, <2>1, AllocOK
<1>13. /\ Sound(t1, g, {}) /\ t1.obj = disk.obj /\ t1.size[e] = n
       /\ t1.bits = disk.bits \cup Run(e, n) /\ \A x \in Blocks \ {e} : t1.size[x] = disk.size[x]
    BY <1>11 DEF Allocated
<1>14. /\ Sound(v1, k, {}) /\ Here(v1, e) /\ v1.obj = v.obj /\ v1.size[e] = n
       /\ v1.bits = v.bits \cup Run(e, n) /\ \A x \in Blocks \ {e} : v1.size[x] = v.size[x]
    BY <1>12 DEF Allocated
<1>15. t1 \in Disks /\ v1 \in Disks /\ t1.bits = v1.bits /\ t1.size = v1.size
  <2>1. t1 \in Disks /\ v1 \in Disks
    BY <1>13, <1>14 DEF Sound
  <2>2. \A x \in Blocks : t1.size[x] = v1.size[x]
    BY <1>3, <1>13, <1>14
  <2>3. t1.size = v1.size
    BY <2>1, <2>2 DEF Disks
  <2> QED BY <1>3, <1>13, <1>14, <2>1, <2>3
<1> DEFINE t == Written(t1, Obj(e, ext))
           u == Written(v1, Obj(e, ext))
<1>16. /\ t \in Disks /\ t.bits = t1.bits /\ t.size = t1.size
       /\ t.obj[e] = ext /\ \A x \in Blocks \ {e} : t.obj[x] = disk.obj[x]
  <2>1. t1 \in Disks /\ e \in Blocks /\ ext \in Contents /\ t = Written(t1, Obj(e, ext))
    BY <1>6, <1>10, <1>15
  <2> HIDE DEF t, ext
  <2>2. /\ t \in Disks /\ t.bits = t1.bits /\ t.size = t1.size
        /\ t.obj[e] = ext /\ \A x \in Blocks \ {e} : t.obj[x] = t1.obj[x]
    BY ONLY <2>1, PutFacts
  <2> QED BY <1>13, <2>2
<1>17. /\ u \in Disks /\ u.bits = v1.bits /\ u.size = v1.size
       /\ u.obj[e] = ext /\ \A x \in Blocks \ {e} : u.obj[x] = v.obj[x]
  <2>1. v1 \in Disks /\ e \in Blocks /\ ext \in Contents /\ u = Written(v1, Obj(e, ext))
    BY <1>6, <1>10, <1>15
  <2> HIDE DEF u, ext
  <2>2. /\ u \in Disks /\ u.bits = v1.bits /\ u.size = v1.size
        /\ u.obj[e] = ext /\ \A x \in Blocks \ {e} : u.obj[x] = v1.obj[x]
    BY ONLY <2>1, PutFacts
  <2> QED BY <1>14, <2>2
<1>18. Sound(u, k, {})
  <2>1. e \in Blocks \ PartsIn(k) /\ u = Written(v1, Obj(e, ext)) /\ ~(ext.kind = "dir")
    BY <1>6, <1>9, <1>10
  <2> HIDE DEF u, ext
  <2> QED BY <1>10, <1>14, <2>1, PutOutsideOK
<1> HIDE DEF t, u, ext
<1>19. Quiet(u, k)
    BY <1>8, <1>9, <1>17, <1>18, CalmSame DEF Quiet
<1>20. e # f /\ e # p
    BY <1>2, <1>8, <1>9
<1>21. Alike(t, u, f)
  <2>1. \A x \in Blocks \ {f} : t.obj[x] = u.obj[x]
    BY <1>3, <1>16, <1>17
  <2>2. t.obj[f] = disk.obj[f] /\ u.obj[f] = v.obj[f]
    BY <1>3, <1>16, <1>17, <1>20
  <2> QED BY <1>3, <1>15, <1>16, <1>17, <2>1, <2>2 DEF Alike
<1>22. GrowsTo(t, u, k, f, p, i)
  <2>1. Like(t, u, f)
    BY <1>21, AlikeLike
  <2>2. u.obj[f] = v.obj[f]
    BY <1>3, <1>17, <1>20
  <2> QED BY <1>1, <1>19, <2>1, <2>2 DEF GrowsTo
<1>23. Linking(u, k, f, p, e)
  <2>1. u.size[e] = n /\ \A x \in PartsIn(k) : u.size[x] = v.size[x]
    BY <1>8, <1>9, <1>14, <1>17
  <2>2. Here(u, e)
    BY <1>14, <1>17 DEF Here, LiveOn
  <2>3. u.obj[f].kind = "file"
    BY <1>1, <1>3, <1>17, <1>20
  <2> QED BY <1>1, <1>6, <1>9, <1>10, <1>17, <2>1, <2>2, <2>3 DEF Linking
<1>24. t.obj[p] = disk.obj[p]
    BY <1>2, <1>16, <1>20
<1>25. Runs(disk, fs_alloc(e, n) \o <<Obj(e, ext)>>, t, {}, z)
  <2>1. Fine(t1, {}) /\ Fine(t, {})
    <3>1. \E x : Quiet(t, x)
      BY ONLY <1>22, GrowsFacts
    <3> QED BY <1>13, <3>1 DEF Fine, Quiet
  <2>2. e \in Blocks /\ ext \in Contents /\ t = Written(t1, Obj(e, ext))
    BY <1>6, <1>10 DEF t
  <2> DEFINE w1 == fs_alloc(e, n)
             w2 == <<Obj(e, ext)>>
  <2>3. Runs(t1, <<Obj(e, ext)>>, t, {}, z)
    BY ONLY <2>1, <2>2, PutRuns
  <2>4. Runs(disk, w1, t1, {}, z) /\ Runs(t1, w2, t, {}, z)
    BY <1>11, <2>3
  <2> HIDE DEF w1, w2
  <2>5. Runs(disk, w1 \o w2, t, {}, z)
    BY ONLY <2>4, RunsConcat
  <2> QED BY <2>5 DEF w1, w2
<1> QED BY <1>22, <1>23, <1>24, <1>25 DEF ext

(* One round of fs_file_resize to a larger size.                           *)
LEMMA ExtendOK ==
    ASSUME NEW f, NEW p, NEW i, Growing(disk, f, p, i), NEW n \in 1..MaxSize,
           NEW e, e = FirstFit(n, {}), e # FS_NULL, NEW z
    PROVE  \E t : /\ Runs(disk, fs_alloc(e, n) \o <<Obj(e, FileExtent(p, n))>> \o
                                (IF p = f THEN <<>> ELSE <<Obj(p, [disk.obj[p] EXCEPT !.next = e])>>),
                          t, {}, z)
                  /\ Growing(t, f, e, IF p = f THEN e ELSE i)
<1>1. PICK v, k : GrowsTo(disk, v, k, f, p, i)
    BY DEF Growing
<1> DEFINE w1 == fs_alloc(e, n) \o <<Obj(e, FileExtent(p, n))>>
<1>2. PICK t, u : /\ Runs(disk, w1, t, {}, z)
                  /\ GrowsTo(t, u, k, f, p, i) /\ Linking(u, k, f, p, e) /\ t.obj[p] = disk.obj[p]
    BY <1>1, NewExtent
<1>3. Quiet(u, k) /\ f \in DOMAIN k /\ u.obj[f].kind = "file" /\ u.obj[f].next = i
    BY <1>2 DEF GrowsTo
<1>4. Alike(t, u, f) /\ p \in Blocks /\ \E g : Quiet(t, g)
    BY ONLY <1>2, GrowsFacts
<1>5. p = f => u.obj[f].next = FS_NULL /\ t.obj[f] = u.obj[f]
    BY ONLY <1>2, GrowsFacts
<1>6. /\ t \in Disks /\ u \in Disks /\ t.bits = u.bits /\ t.size = u.size
      /\ \A x \in Blocks \ {f} : t.obj[x] = u.obj[x]
      /\ t.obj[f].kind = "file" /\ f \in Blocks
      /\ \/ t.obj[f] = u.obj[f]
         \/ t.obj[f] = [u.obj[f] EXCEPT !.next = FS_NULL]
    BY <1>4 DEF Alike
<1>7. e \in Blocks /\ e \in 0..block_count
    BY <1>2, BaseFSAssumption DEF Linking, Blocks
<1> HIDE DEF w1
<1> DEFINE o == [u.obj[p] EXCEPT !.next = e]
           w == Written(u, Obj(p, o))
<1>8. PICK g : Quiet(w, g) /\ f \in DOMAIN g /\ e = g[f][Len(g[f])]
  <2>1. w = Written(u, Obj(p, [u.obj[p] EXCEPT !.next = e]))
    OBVIOUS
  <2> HIDE DEF w
  <2> QED BY ONLY <1>2, <1>3, <2>1, FileLinked
<1>9. u.obj[p] \in Object /\ u.obj[p] \in Contents /\ u.obj[f] \in Object
    BY <1>4, <1>6, DiskFacts
<1>10. o \in Contents /\ o.kind = u.obj[p].kind /\ o.next = e
  <2>1. 0 \in 0..MaxSize
    BY BaseFSAssumption
  <2> QED BY <1>7, <1>9, <2>1, ContentsFacts DEF Object
<1>11. /\ w \in Disks /\ w.bits = u.bits /\ w.size = u.size
       /\ w.obj[p] = o /\ \A x \in Blocks \ {p} : w.obj[x] = u.obj[x]
  <2>1. u \in Disks /\ p \in Blocks /\ o \in Contents /\ w = Written(u, Obj(p, o))
    BY <1>4, <1>6, <1>10
  <2> HIDE DEF w, o
  <2> QED BY ONLY <2>1, PutFacts
<1> HIDE DEF w
<1>12. CASE p = f
  <2>1. t.obj[f] = [w.obj[f] EXCEPT !.next = FS_NULL]
    <3>1. w.obj[f] = [u.obj[f] EXCEPT !.next = e]
      BY <1>11, <1>12
    <3>2. t.obj[f] = u.obj[f] /\ u.obj[f].next = FS_NULL
      BY <1>5, <1>12
    <3> QED BY <1>9, <3>1, <3>2 DEF Object
  <2>2. \A x \in Blocks \ {f} : t.obj[x] = w.obj[x]
    BY <1>6, <1>11, <1>12
  <2>3. Alike(t, w, f)
    BY <1>6, <1>11, <2>1, <2>2 DEF Alike
  <2>4. Like(t, w, f)
    BY <2>3, AlikeLike
  <2>5. w.obj[f].kind = "file" /\ w.obj[f].next = e
    BY <1>3, <1>10, <1>11, <1>12
  <2>6. GrowsTo(t, w, g, f, e, e)
    BY <1>8, <2>4, <2>5 DEF GrowsTo
  <2>7. w1 \o <<>> = w1
    <3>1. w1 \in Seq(Writes)
      BY <1>2 DEF Runs
    <3> QED BY <3>1
  <2>8. Runs(disk, w1 \o <<>>, t, {}, z)
    BY <1>2, <2>7
  <2>9. Growing(t, f, e, IF p = f THEN e ELSE i)
    BY <1>12, <2>6 DEF Growing
  <2> QED BY <1>12, <2>8, <2>9 DEF w1
<1>13. CASE p # f
  <2> DEFINE s == Written(t, Obj(p, o))
  <2>1. u.obj[p] = disk.obj[p]
    BY <1>2, <1>4, <1>6, <1>13
  <2>2. /\ s \in Disks /\ s.bits = t.bits /\ s.size = t.size
        /\ s.obj[p] = o /\ \A x \in Blocks \ {p} : s.obj[x] = t.obj[x]
    <3>1. t \in Disks /\ p \in Blocks /\ o \in Contents /\ s = Written(t, Obj(p, o))
      BY <1>4, <1>6, <1>10
    <3> HIDE DEF s, o
    <3> QED BY ONLY <3>1, PutFacts
  <2> HIDE DEF s
  <2>3. \A x \in Blocks \ {f} : s.obj[x] = w.obj[x]
    BY <1>6, <1>11, <2>2
  <2>4. s.obj[f] = t.obj[f] /\ w.obj[f] = u.obj[f]
    BY <1>6, <1>11, <1>13, <2>2
  <2>5. Alike(s, w, f)
    BY <1>6, <1>11, <2>2, <2>3, <2>4 DEF Alike
  <2>6. Like(s, w, f)
    BY <2>5, AlikeLike
  <2>7. GrowsTo(s, w, g, f, e, i)
    BY <1>3, <1>8, <2>4, <2>6 DEF GrowsTo
  <2>8. Growing(s, f, e, IF p = f THEN e ELSE i)
    BY <1>13, <2>7 DEF Growing
  <2>9. Runs(t, <<Obj(p, o)>>, s, {}, z)
    <3>1. \E x : Quiet(s, x)
      BY ONLY <2>7, GrowsFacts
    <3>2. Fine(t, {}) /\ Fine(s, {}) /\ p \in Blocks /\ o \in Contents /\ s = Written(t, Obj(p, o))
      BY <1>4, <1>10, <3>1 DEF Fine, Quiet, s
    <3> HIDE DEF o
    <3> QED BY ONLY <3>2, PutRuns
  <2> DEFINE w2 == <<Obj(p, o)>>
  <2>10. Runs(disk, w1, t, {}, z) /\ Runs(t, w2, s, {}, z)
    BY <1>2, <2>9
  <2> HIDE DEF w2, o
  <2>11. Runs(disk, w1 \o w2, s, {}, z)
    BY ONLY <2>10, RunsConcat
  <2>12. w2 = <<Obj(p, [disk.obj[p] EXCEPT !.next = e])>>
    BY <2>1 DEF w2, o
  <2> QED BY <1>13, <2>8, <2>11, <2>12 DEF w1
<1> QED BY <1>12, <1>13

LEMMA GrowingStarts ==
    ASSUME NEW c, Quiet(disk, c), NEW f \in DOMAIN c, disk.obj[f].kind = "file"
    PROVE  Growing(disk, f, Last(Parts(f)), disk.obj[f].next)
<1>1. Parts(f) = c[f]
    BY PartsOnDisk DEF Quiet
<1>2. GrowsTo(disk, disk, c, f, Last(Parts(f)), disk.obj[f].next)
    BY <1>1 DEF GrowsTo, Like, Last
<1> QED BY <1>2 DEF Growing

LEMMA GrowingFine ==
    ASSUME NEW t, NEW f, NEW p, NEW i, Growing(t, f, p, i)
    PROVE  /\ \E g : Quiet(t, g)
           /\ f \in Blocks
<1>1. PICK v, k : GrowsTo(t, v, k, f, p, i)
    BY DEF Growing
<1>2. Alike(t, v, f) /\ \E g : Quiet(t, g)
    BY ONLY <1>1, GrowsFacts
<1> QED BY <1>2 DEF Alike

-----------------------------------------------------------------------------
(***************************************************************************)
(* Operations: the recursive delete.                                       *)
(***************************************************************************)
(* W are the directories from current up to target; each is entered in its *)
(* parent, and target in none.                                             *)
Walked(t, c, W, target, current) ==
    /\ W \subseteq DOMAIN c /\ target \in W /\ current \in W /\ target # Root
    /\ \A x \in W : t.obj[x].kind = "dir"
    /\ \A x \in DOMAIN c : target \notin RefsIn(t, c[x])
    /\ \A x \in W : x # target => /\ t.obj[x].parent \in W /\ t.obj[x].parent # x
                                  /\ x \in RefsIn(t, c[t.obj[x].parent])

LEMMA NotRoot ==
    ASSUME NEW t, NEW c, Quiet(t, c), NEW W, NEW target, NEW current, Walked(t, c, W, target, current)
    PROVE  Root \notin W
<1>1. Shape(c) /\ t.obj[Root].parent = FS_NULL
    BY DEF Quiet, Sound, Calm, RootOK
<1>2. FS_NULL \notin DOMAIN c
    BY <1>1, ShapeFacts DEF FS_NULL, Blocks
<1> QED BY <1>1, <1>2 DEF Walked

(* Nothing is entered twice.                                               *)
LEMMA OneParent ==
    ASSUME NEW t, NEW c, Quiet(t, c), NEW h \in DOMAIN c, NEW k \in DOMAIN c,
           NEW r, r \in RefsIn(t, c[h]), r \in RefsIn(t, c[k])
    PROVE  h = k /\ r \in DOMAIN c /\ r # FS_NULL
<1>0. Sound(t, c, {}) /\ Shape(c)
    BY DEF Quiet, Sound
<1>1. PICK i \in 1..Len(c[h]) : r \in Range(t.obj[c[h][i]].refs)
    BY DEF RefsIn
<1>2. PICK j \in 1..Len(c[k]) : r \in Range(t.obj[c[k][j]].refs)
    BY DEF RefsIn
<1>3. c[h][i] \in PartsIn(c) /\ c[k][j] \in PartsIn(c)
    BY <1>0, InChain
<1>4. r # FS_NULL /\ r \in DOMAIN c /\ \A x \in PartsIn(c) \ {c[h][i]} : r \notin Range(t.obj[x].refs)
    BY <1>1, <1>3, OneHolder
<1>5. c[h][i] = c[k][j]
    BY <1>2, <1>3, <1>4
<1> QED BY <1>0, <1>4, <1>5, ShapeFacts

(* The entry of the target goes first.                                     *)
LEMMA WalkStarts ==
    ASSUME NEW c, Quiet(disk, c), NEW d \in DOMAIN c, NEW x \in RefsIn(disk, c[d]),
           disk.obj[x].kind = "dir", x # Root, NEW z
    PROVE  \E t, k, W : /\ Runs(disk, fs_directory_remove_reference(d, x), t, {}, z)
                        /\ Quiet(t, k) /\ Walked(t, k, W, x, x)
<1>1. x \in DOMAIN c
    BY OneParent
<1>2. PICK t, k : /\ Runs(disk, fs_directory_remove_reference(d, x), t, {}, z)
                  /\ Less(disk, c, t, k, d, x)
    BY Removal
<1>3. /\ Quiet(t, k) /\ DOMAIN k = DOMAIN c
      /\ \A y \in DOMAIN c : t.obj[y].kind = disk.obj[y].kind
      /\ \A y \in DOMAIN c : RefsIn(t, k[y]) = RefsIn(disk, c[y]) \ {x}
    BY <1>2 DEF Less
<1>4. Walked(t, k, {x}, x, x)
    BY <1>1, <1>3 DEF Walked
<1> QED BY <1>2, <1>3, <1>4

(* What stays on the way when r goes, which is not on it.                  *)
LEMMA WalkStays ==
    ASSUME NEW s, NEW c, NEW W, NEW target, NEW current, Walked(s, c, W, target, current),
           NEW t, NEW g, NEW r, NEW V, V \subseteq W, target \in V, V \subseteq DOMAIN g,
           DOMAIN g \subseteq DOMAIN c, r \notin V,
           \A x \in DOMAIN g : t.obj[x].kind = s.obj[x].kind /\ t.obj[x].parent = s.obj[x].parent,
           \A x \in DOMAIN g : RefsIn(t, g[x]) = RefsIn(s, c[x]) \ {r},
           \A x \in V : x # target => s.obj[x].parent \in V,
           NEW y \in V
    PROVE  Walked(t, g, V, target, y)
<1>1. /\ W \subseteq DOMAIN c /\ target # Root
      /\ \A x \in W : s.obj[x].kind = "dir"
      /\ \A x \in DOMAIN c : target \notin RefsIn(s, c[x])
      /\ \A x \in W : x # target => /\ s.obj[x].parent \in W /\ s.obj[x].parent # x
                                    /\ x \in RefsIn(s, c[s.obj[x].parent])
    BY DEF Walked
<1>2. \A x \in V : t.obj[x].kind = "dir" /\ t.obj[x].parent = s.obj[x].parent
    BY <1>1
<1>3. \A x \in DOMAIN g : target \notin RefsIn(t, g[x])
    BY <1>1
<1>4. ASSUME NEW x \in V, x # target
      PROVE  /\ t.obj[x].parent \in V /\ t.obj[x].parent # x
             /\ x \in RefsIn(t, g[t.obj[x].parent])
    BY <1>1, <1>2, <1>4
<1> QED BY <1>1, <1>2, <1>3, <1>4 DEF Walked

LEMMA NoEntries ==
    ASSUME NEW c, Quiet(disk, c), NEW x \in DOMAIN c, Entries(x) = <<>>
    PROVE  RefsIn(disk, c[x]) = {}
<1>1. ToSet(Entries(x)) = RefsIn(disk, c[x])
    BY EntriesOnDisk DEF Quiet
<1>2. ToSet(<<>>) = {}
    BY DEF ToSet
<1> QED BY <1>1, <1>2

LEMMA WalkEnds ==
    ASSUME NEW c, Quiet(disk, c), NEW W, NEW x, Walked(disk, c, W, x, x), Entries(x) = <<>>, NEW z
    PROVE  \E t, g : Runs(disk, fs_directory_delete(x), t, {}, z) /\ Quiet(t, g)
<1>1. /\ x \in DOMAIN c /\ x # Root /\ disk.obj[x].kind = "dir"
      /\ \A y \in DOMAIN c : x \notin RefsIn(disk, c[y])
    BY DEF Walked
<1>2. RefsIn(disk, c[x]) = {}
    BY <1>1, NoEntries
<1> QED BY <1>1, <1>2, EmptyDeleted DEF fs_directory_delete

LEMMA WalkUpOK ==
    ASSUME NEW c, Quiet(disk, c), NEW W, NEW target, NEW x, Walked(disk, c, W, target, x),
           x # target, Entries(x) = <<>>, NEW u, u = disk.obj[x].parent, NEW z
    PROVE  \E t, g, V : /\ Runs(disk, fs_directory_remove_reference(u, x) \o fs_directory_delete(x),
                                t, {}, z)
                        /\ Quiet(t, g) /\ Walked(t, g, V, target, u)
<1>1. /\ W \subseteq DOMAIN c /\ target \in W /\ x \in W /\ target # Root
      /\ \A y \in W : disk.obj[y].kind = "dir"
      /\ \A y \in W : y # target => /\ disk.obj[y].parent \in W /\ disk.obj[y].parent # y
                                    /\ y \in RefsIn(disk, c[disk.obj[y].parent])
    BY DEF Walked
<1>2. x \in DOMAIN c /\ u \in DOMAIN c /\ u \in W /\ u # x /\ x \in RefsIn(disk, c[u])
    BY <1>1
<1>3. x # Root
    BY <1>1, NotRoot
<1>4. RefsIn(disk, c[x]) = {}
    BY <1>2, NoEntries
<1>5. PICK t, g : /\ Runs(disk, fs_directory_remove_reference(u, x) \o FreeAll(Append(Chain(x), x)),
                          t, {}, z)
                  /\ Gone(disk, c, t, g, x)
    BY <1>2, <1>3, <1>4, ObjectDeleted
<1>6. /\ Quiet(t, g) /\ DOMAIN g = DOMAIN c \ {x}
      /\ \A y \in DOMAIN g : t.obj[y].kind = disk.obj[y].kind /\ t.obj[y].parent = disk.obj[y].parent
      /\ \A y \in DOMAIN g : RefsIn(t, g[y]) = RefsIn(disk, c[y]) \ {x}
    BY <1>5 DEF Gone
<1> DEFINE V == W \ {x}
<1>7. Walked(t, g, V, target, u)
  <2>1. V \subseteq W /\ target \in V /\ V \subseteq DOMAIN g /\ DOMAIN g \subseteq DOMAIN c /\ x \notin V /\ u \in V
    BY <1>1, <1>2, <1>6
  <2>2. \A y \in V : y # target => disk.obj[y].parent \in V
    <3>1. ASSUME NEW y \in V, y # target PROVE disk.obj[y].parent \in V
      <4>1. disk.obj[y].parent \in W /\ y \in RefsIn(disk, c[disk.obj[y].parent])
        BY <1>1, <3>1
      <4> QED BY <1>4, <4>1
    <3> QED BY <3>1
  <2> HIDE DEF V
  <2> QED BY ONLY <1>6, <2>1, <2>2, Walked(disk, c, W, target, x), WalkStays
<1> QED BY <1>5, <1>6, <1>7 DEF fs_directory_delete

LEMMA WalkDownOK ==
    ASSUME NEW c, Quiet(disk, c), NEW W, NEW target, NEW x, Walked(disk, c, W, target, x),
           NEW e \in RefsIn(disk, c[x]), e # target, e # x,
           disk.obj[e].kind = "dir", disk.obj[e].parent = x
    PROVE  Walked(disk, c, W \cup {e}, target, e)
<1>1. x \in DOMAIN c
    BY DEF Walked
<1>2. e \in DOMAIN c
    BY <1>1, OneParent
<1> QED BY <1>2 DEF Walked

(* A file in the current directory goes with its blocks.                   *)
LEMMA WalkRemoves ==
    ASSUME NEW c, Quiet(disk, c), NEW W, NEW target, NEW x, Walked(disk, c, W, target, x),
           NEW e \in RefsIn(disk, c[x]), disk.obj[e].kind # "dir", NEW z
    PROVE  \E t, g : /\ Runs(disk, Removed(x, e), t, {}, z)
                     /\ Quiet(t, g) /\ Walked(t, g, W, target, x)
<1>1. /\ W \subseteq DOMAIN c /\ target \in W /\ x \in W /\ \A y \in W : disk.obj[y].kind = "dir"
      /\ \A y \in W : y # target => disk.obj[y].parent \in W
    BY DEF Walked
<1>2. e \notin W /\ e # Root /\ e # x /\ x \in DOMAIN c
    BY <1>1 DEF Quiet, Calm, RootOK
<1>3. PICK t, g : /\ Runs(disk, fs_directory_remove_reference(x, e) \o FreeAll(Append(Chain(e), e)),
                          t, {}, z)
                  /\ Gone(disk, c, t, g, e)
    BY <1>2, ObjectDeleted
<1>4. /\ Quiet(t, g) /\ DOMAIN g = DOMAIN c \ {e}
      /\ \A y \in DOMAIN g : t.obj[y].kind = disk.obj[y].kind /\ t.obj[y].parent = disk.obj[y].parent
      /\ \A y \in DOMAIN g : RefsIn(t, g[y]) = RefsIn(disk, c[y]) \ {e}
    BY <1>3 DEF Gone
<1>5. Walked(t, g, W, target, x)
  <2>1. W \subseteq W /\ target \in W /\ W \subseteq DOMAIN g /\ DOMAIN g \subseteq DOMAIN c /\ e \notin W /\ x \in W
        /\ \A y \in W : y # target => disk.obj[y].parent \in W
    BY <1>1, <1>2, <1>4
  <2>2. Walked(disk, c, W, target, x)
    OBVIOUS
  <2> QED BY ONLY <1>4, <2>1, <2>2, WalkStays
<1> QED BY <1>3, <1>4, <1>5 DEF Removed, fs_file_delete

(* A directory that is not the child of the current one is only unlinked.  *)
LEMMA WalkUnlinks ==
    ASSUME NEW c, Quiet(disk, c), NEW W, NEW target, NEW x, Walked(disk, c, W, target, x),
           NEW e \in RefsIn(disk, c[x]), e \in {target, x} \/ disk.obj[e].parent # x, NEW z
    PROVE  \E t, g : /\ Runs(disk, fs_directory_remove_reference(x, e), t, {}, z)
                     /\ Quiet(t, g) /\ Walked(t, g, W, target, x)
<1>1. /\ W \subseteq DOMAIN c /\ target \in W /\ x \in W
      /\ \A y \in DOMAIN c : target \notin RefsIn(disk, c[y])
      /\ \A y \in W : y # target => /\ disk.obj[y].parent \in W /\ disk.obj[y].parent # y
                                    /\ y \in RefsIn(disk, c[disk.obj[y].parent])
    BY DEF Walked
<1>2. x \in DOMAIN c /\ e # target
    BY <1>1
<1>3. e \notin W
  <2>1. SUFFICES ASSUME e \in W PROVE FALSE
    OBVIOUS
  <2>2. disk.obj[e].parent \in DOMAIN c /\ e \in RefsIn(disk, c[disk.obj[e].parent]) /\ disk.obj[e].parent # e
    BY <1>1, <1>2, <2>1
  <2>3. disk.obj[e].parent = x
    BY <1>2, <2>2, OneParent
  <2> QED BY <1>2, <2>2, <2>3
<1>4. PICK t, k : /\ Runs(disk, fs_directory_remove_reference(x, e), t, {}, z)
                  /\ Less(disk, c, t, k, x, e)
    BY <1>2, Removal
<1>5. /\ Quiet(t, k) /\ DOMAIN k = DOMAIN c
      /\ \A y \in DOMAIN k : t.obj[y].kind = disk.obj[y].kind /\ t.obj[y].parent = disk.obj[y].parent
      /\ \A y \in DOMAIN k : RefsIn(t, k[y]) = RefsIn(disk, c[y]) \ {e}
    BY <1>4 DEF Less
<1>6. Walked(t, k, W, target, x)
  <2>1. W \subseteq W /\ target \in W /\ W \subseteq DOMAIN k /\ DOMAIN k \subseteq DOMAIN c /\ e \notin W /\ x \in W
        /\ \A y \in W : y # target => disk.obj[y].parent \in W
    BY <1>1, <1>3, <1>5
  <2>2. Walked(disk, c, W, target, x)
    OBVIOUS
  <2> QED BY ONLY <1>5, <2>1, <2>2, WalkStays
<1> QED BY <1>4, <1>5, <1>6

-----------------------------------------------------------------------------
(***************************************************************************)
(* The invariant: the writes still to come lead over sound disks to a quiet *)
(* one, or to one the next round of the operation can go on with.          *)
(***************************************************************************)
Operations == {"create", "mkdir", "resize", "delete"}

MakingOf(o, cc) == IF o \in {"create", "mkdir"} THEN {cc.target} ELSE {}

(* Only a delete leaves the sizes of the parts in use alone.               *)
MayUnsize(o) == o # "delete"

FormedCall(cc) ==
    \E S : cc \in [target : S, current : 0..block_count, steps : 0..(Steps + MaxSize),
                   due : S, tail : S, first : S, size : S]

(* What operation o with locals cc relies on, once its writes led to t.    *)
GoesOn(t, o, cc) ==
    \/ /\ o = "resize" /\ cc.current = cc.target /\ cc.steps \in 0..MaxSize /\ cc.size \in 0..MaxSize
       /\ Growing(t, cc.target, cc.tail, cc.first)
    \/ /\ o = "delete" /\ cc.steps \in 1..Steps
       /\ \E c, W : Quiet(t, c) /\ Walked(t, c, W, cc.target, cc.current)

Aft(t, o, cc) == IF cc.current = FS_NULL THEN \E c : Quiet(t, c) ELSE GoesOn(t, o, cc)

Fit(s, ws, o, cc, l) ==
    /\ o \in Operations \cup {"idle"} /\ FormedCall(cc) /\ l \in BOOLEAN
    /\ o = "idle" => ws = <<>> /\ cc.current = FS_NULL
    /\ l => o = "idle" /\ Fine(s, {})
    /\ ~l => \E t : Runs(s, ws, t, MakingOf(o, cc), MayUnsize(o)) /\ Aft(t, o, cc)

IInv == Fit(disk, todo, op, call, lost)

LEMMA QuietRuns ==
    ASSUME NEW s, NEW c, Quiet(s, c), NEW z
    PROVE  Runs(s, <<>>, s, {}, z)
<1>1. Fine(s, {})
    BY DEF Quiet, Fine
<1> QED BY <1>1, RunsNil

(* What the next writes and locals of operation o have to satisfy.         *)
Leads(s, ws, o, cc) ==
    \/ ws = <<>> /\ cc.current = FS_NULL /\ \E c : Quiet(s, c)
    \/ \E t : Runs(s, ws, t, MakingOf(o, cc), MayUnsize(o)) /\ Aft(t, o, cc)

LEMMA Onward ==
    ASSUME NEW s, NEW ws, NEW o \in Operations, NEW cc, FormedCall(cc), Leads(s, ws, o, cc),
           NEW x, x = IF ws = <<>> /\ cc.current = FS_NULL THEN "idle" ELSE o,
           NEW l \in BOOLEAN, ~l
    PROVE  Fit(s, ws, x, cc, l)
<1>1. CASE ws = <<>> /\ cc.current = FS_NULL
  <2>1. PICK c : Quiet(s, c)
    <3>1. CASE \E t : Runs(s, ws, t, MakingOf(o, cc), MayUnsize(o)) /\ Aft(t, o, cc)
      <4>1. PICK t : Runs(s, ws, t, MakingOf(o, cc), MayUnsize(o)) /\ Aft(t, o, cc)
        BY <3>1
      <4>2. s = t
        BY <1>1, <4>1, RunsFine
      <4> QED BY <1>1, <4>1, <4>2 DEF Aft
    <3> QED BY <3>1 DEF Leads
  <2>2. x = "idle"
    BY <1>1
  <2>3. Runs(s, <<>>, s, {}, MayUnsize(x))
    BY <2>1, QuietRuns
  <2>4. MakingOf(x, cc) = {}
    BY <2>2 DEF MakingOf
  <2>5. Aft(s, x, cc)
    BY <1>1, <2>1 DEF Aft
  <2> QED BY <1>1, <2>2, <2>3, <2>4, <2>5 DEF Fit
<1>2. CASE ~(ws = <<>> /\ cc.current = FS_NULL)
  <2>1. x = o /\ x # "idle"
    BY <1>2 DEF Operations
  <2>2. \E t : Runs(s, ws, t, MakingOf(o, cc), MayUnsize(o)) /\ Aft(t, o, cc)
    BY <1>2 DEF Leads
  <2> QED BY <2>1, <2>2 DEF Fit
<1> QED BY <1>1, <1>2

LEMMA BeginOK ==
    ASSUME IInv, ~UseAfterLoss, NEW o \in Operations, NEW ws, NEW cc, NEW r, Begin(o, ws, cc, r),
           FormedCall(cc), Leads(disk, ws, o, cc)
    PROVE  IInv'
<1>1. /\ todo' = ws /\ call' = cc /\ disk' = disk /\ lost' = lost /\ ~lost
      /\ op' = IF ws = <<>> /\ cc.current = FS_NULL THEN "idle" ELSE o
    BY DEF Begin, FS_NULL
<1>2. lost \in BOOLEAN
    BY DEF IInv, Fit
<1>3. Fit(disk, ws, op', cc, lost)
    BY ONLY <1>1, <1>2, o \in Operations, FormedCall(cc), Leads(disk, ws, o, cc), Onward
<1> QED BY <1>1, <1>3 DEF IInv

LEMMA RoundOK ==
    ASSUME IInv, ~lost, op \in Operations, NEW ws, NEW cc, NEW r, Round(ws, cc, r),
           FormedCall(cc), Leads(disk, ws, op, cc)
    PROVE  IInv'
<1>1. /\ todo' = ws /\ call' = cc /\ disk' = disk /\ lost' = lost
      /\ op' = IF ws = <<>> /\ cc.current = FS_NULL THEN "idle" ELSE op
    BY DEF Round, FS_NULL
<1>2. lost \in BOOLEAN
    BY DEF IInv, Fit
<1>3. Fit(disk, ws, op', cc, lost)
    BY ONLY <1>1, <1>2, ~lost, op \in Operations, FormedCall(cc), Leads(disk, ws, op, cc), Onward
<1> QED BY <1>1, <1>3 DEF IInv

LEMMA Bounds == /\ block_count \in Nat \ {0} /\ MaxSize \in Nat /\ Steps \in Nat /\ Steps > 0
                /\ FS_NULL \in 0..block_count /\ FS_NULL = 0 /\ ExtentLimit \in Nat \ {0}
BY BaseFSAssumption DEF Steps, FS_NULL

LEMMA Formed ==
    ASSUME NEW x, NEW u \in 0..block_count, NEW n \in 0..(Steps + MaxSize), NEW d, NEW y, NEW i, NEW w,
           NEW cc, cc = [target |-> x, current |-> u, steps |-> n, due |-> d, tail |-> y,
                         first |-> i, size |-> w]
    PROVE  FormedCall(cc)
<1>1. PICK S : S = {x, d, y, i, w}
    OBVIOUS
<1>2. cc \in [target : S, current : 0..block_count, steps : 0..(Steps + MaxSize),
              due : S, tail : S, first : S, size : S]
    BY <1>1
<1> QED BY <1>2 DEF FormedCall

LEMMA CallFacts ==
    ASSUME NEW cc, FormedCall(cc)
    PROVE  /\ cc = [target |-> cc.target, current |-> cc.current, steps |-> cc.steps, due |-> cc.due,
                    tail |-> cc.tail, first |-> cc.first, size |-> cc.size]
           /\ cc.current \in 0..block_count /\ cc.steps \in 0..(Steps + MaxSize)
BY DEF FormedCall

LEMMA LoopFacts ==
    ASSUME IInv, NEW o \in Operations, Looping(o)
    PROVE  op = o /\ ~lost /\ GoesOn(disk, o, call) /\ FormedCall(call) /\ call.current # FS_NULL
<1>1. op = o /\ op # "idle" /\ todo = <<>> /\ call.current # FS_NULL
    BY DEF Looping, Operations, FS_NULL
<1>2. ~lost /\ FormedCall(call)
    BY <1>1 DEF IInv, Fit
<1>3. PICK t : Runs(disk, todo, t, MakingOf(op, call), MayUnsize(op)) /\ Aft(t, op, call)
    BY <1>2 DEF IInv, Fit
<1>4. disk = t
    BY <1>1, <1>3, RunsFine
<1> QED BY <1>1, <1>2, <1>3, <1>4 DEF Aft

LEMMA IdleFacts ==
    ASSUME IInv, op = "idle", ~lost
    PROVE  \E c : Quiet(disk, c)
<1>1. todo = <<>> /\ call.current = FS_NULL
    BY DEF IInv, Fit
<1>2. PICK t : Runs(disk, todo, t, MakingOf(op, call), MayUnsize(op)) /\ Aft(t, op, call)
    BY DEF IInv, Fit
<1>3. disk = t
    BY <1>1, <1>2, RunsFine
<1> QED BY <1>1, <1>2, <1>3 DEF Aft

SteppedTo(e, cc, u, n) == e = [cc EXCEPT !.current = u, !.steps = n]

LEMMA Stepped ==
    ASSUME NEW cc, FormedCall(cc), NEW u \in 0..block_count, NEW n \in 0..(Steps + MaxSize),
           NEW e, SteppedTo(e, cc, u, n)
    PROVE  e.target = cc.target /\ e.current = u /\ e.steps = n /\ FormedCall(e)
<1>1. PICK S : cc \in [target : S, current : 0..block_count, steps : 0..(Steps + MaxSize),
                       due : S, tail : S, first : S, size : S]
    BY DEF FormedCall
<1>2. e \in [target : S, current : 0..block_count, steps : 0..(Steps + MaxSize),
             due : S, tail : S, first : S, size : S]
    BY <1>1 DEF SteppedTo
<1>3. e.target = cc.target /\ e.current = u /\ e.steps = n
    BY <1>1 DEF SteppedTo
<1> QED BY <1>2, <1>3 DEF FormedCall

(* One round of the recursive delete.                                      *)
LEMMA WalkOK ==
    ASSUME IInv, Looping("delete"), NEW ws, NEW y \in 0..block_count, NEW r, Walk(ws, y, r),
           NEW t, Runs(disk, ws, t, {}, MayUnsize("delete")), NEW g, Quiet(t, g),
           y # FS_NULL => \E W : Walked(t, g, W, call.target, y)
    PROVE  IInv'
<1> DEFINE out == call.steps = 1 /\ y # 0
           cc  == [call EXCEPT !.current = IF out THEN 0 ELSE y, !.steps = @ - 1]
<1>1. "delete" \in Operations
    BY DEF Operations
<1>2. op = "delete" /\ ~lost /\ GoesOn(disk, "delete", call) /\ FormedCall(call)
    BY <1>1, LoopFacts
<1>3. call.steps \in 1..Steps
    BY <1>2 DEF GoesOn
<1>4. \E q : Round(ws, cc, q)
    BY DEF Walk
<1>5. PICK q : Round(ws, cc, q)
    BY <1>4
<1>6. /\ cc.target = call.target /\ cc.steps = call.steps - 1
      /\ cc.current = (IF out THEN FS_NULL ELSE y) /\ FormedCall(cc)
  <2>1. PICK u : u = IF out THEN 0 ELSE y
    OBVIOUS
  <2>2. PICK n : n = call.steps - 1
    OBVIOUS
  <2>3. SteppedTo(cc, call, u, n)
    BY <2>1, <2>2 DEF SteppedTo
  <2>4. u \in 0..block_count /\ n \in 0..(Steps + MaxSize)
    BY <1>3, <2>1, <2>2, Bounds
  <2> HIDE DEF cc
  <2>5. cc.target = call.target /\ cc.current = u /\ cc.steps = n /\ FormedCall(cc)
    BY ONLY <1>2, <2>3, <2>4, Stepped
  <2> QED BY <2>1, <2>2, <2>5, Bounds
<1> HIDE DEF cc
<1>8. Aft(t, op, cc)
  <2>1. CASE cc.current = FS_NULL
    BY <2>1 DEF Aft
  <2>2. CASE cc.current # FS_NULL
    <3>1. cc.current = y /\ ~out /\ y # FS_NULL
      BY <1>6, <2>2
    <3>2. cc.steps \in 1..Steps
      BY <1>3, <1>6, <3>1, Bounds
    <3>3. GoesOn(t, op, cc)
      BY <1>2, <1>6, <3>1, <3>2 DEF GoesOn
    <3> QED BY <2>2, <3>3 DEF Aft
  <2> QED BY <2>1, <2>2
<1>9. MakingOf(op, cc) = {}
    BY <1>2 DEF MakingOf
<1>10. Leads(disk, ws, op, cc)
    BY <1>2, <1>8, <1>9 DEF Leads
<1>11. op \in Operations
    BY <1>1, <1>2
<1> QED BY ONLY IInv, <1>2, <1>5, <1>6, <1>10, <1>11, RoundOK

LEMMA EntryFacts ==
    ASSUME NEW c, Quiet(disk, c), NEW x \in DOMAIN c
    PROVE  /\ Entries(x) # <<>> => Last(Entries(x)) \in RefsIn(disk, c[x])
           /\ \A e \in ToSet(Entries(x)) : e \in RefsIn(disk, c[x])
           /\ \A e \in RefsIn(disk, c[x]) :
                e \in DOMAIN c /\ e \in Blocks /\ e # FS_NULL /\ Live(e) /\ CanRemove(x, e)
                /\ disk.obj[e].kind \in {"dir", "file"}
<1>1. Sound(disk, c, {}) /\ Shape(c)
    BY DEF Quiet, Sound
<1>2. /\ Entries(x) \in Seq(0..block_count) /\ ToSet(Entries(x)) = RefsIn(disk, c[x])
    BY <1>1, EntriesOnDisk
<1>3. Entries(x) # <<>> => Last(Entries(x)) \in ToSet(Entries(x))
    BY <1>2 DEF Last, ToSet
<1>4. ASSUME NEW e \in RefsIn(disk, c[x])
      PROVE  e \in DOMAIN c /\ e \in Blocks /\ e # FS_NULL /\ Live(e) /\ CanRemove(x, e)
             /\ disk.obj[e].kind \in {"dir", "file"}
  <2>1. e \in DOMAIN c /\ e # FS_NULL
    BY <1>4, OneParent
  <2>2. e \in PartsIn(c) /\ e \in Blocks
    BY <1>1, <2>1, ShapeFacts
  <2>3. Here(disk, e)
    BY <1>1, <2>2 DEF Sound, Room
  <2>4. disk.obj[e].kind \in {"dir", "file"}
    BY <1>1, <2>1, ChainFacts
  <2>5. CanRemove(x, e)
    <3>1. e \in ToSet(Entries(x))
      BY <1>2
    <3> QED BY <2>1, <3>1 DEF CanRemove, Contains, ToSet
  <2> QED BY <2>1, <2>2, <2>3, <2>4, <2>5 DEF Here, LiveOn, Live
<1> QED BY <1>2, <1>3, <1>4

(* What a round of the recursive delete starts with.                       *)
LEMMA WalkFacts ==
    ASSUME IInv, Walking
    PROVE  /\ Looping("delete") /\ call.steps \in 1..Steps
           /\ \E c, W : /\ Quiet(disk, c) /\ Walked(disk, c, W, call.target, call.current)
                        /\ call.current \in DOMAIN c /\ call.current \in Blocks
                        /\ disk.obj[call.current].parent \in 0..block_count
<1>1. Looping("delete") /\ "delete" \in Operations
    BY DEF Walking, Operations
<1>2. GoesOn(disk, "delete", call)
    BY <1>1, LoopFacts
<1>3. PICK c, W : Quiet(disk, c) /\ Walked(disk, c, W, call.target, call.current)
    BY <1>2 DEF GoesOn
<1>4. call.current \in DOMAIN c
    BY <1>3 DEF Walked
<1>5. Shape(c) /\ disk \in Disks
    BY <1>3 DEF Quiet, Sound
<1>6. call.current \in Blocks
    BY <1>4, <1>5, ShapeFacts
<1>7. disk.obj[call.current].parent \in 0..block_count
    BY <1>5, <1>6, DiskFacts
<1> QED BY <1>1, <1>2, <1>3, <1>4, <1>6, <1>7 DEF GoesOn

LEMMA WalkDoneKeeps ==
    ASSUME IInv, WalkDone
    PROVE  IInv'
<1>1. Walking /\ Entries(call.current) = <<>> /\ call.current = call.target
      /\ Walk(fs_directory_delete(call.current), 0, "ok")
    BY DEF WalkDone, Emptied
<1>2. PICK c, W : Quiet(disk, c) /\ Walked(disk, c, W, call.target, call.current)
    BY <1>1, WalkFacts
<1>3. PICK x : x = call.current
    OBVIOUS
<1>4. Walked(disk, c, W, x, x) /\ Entries(x) = <<>>
    BY <1>1, <1>2, <1>3
<1>5. PICK t, g : Runs(disk, fs_directory_delete(x), t, {}, MayUnsize("delete")) /\ Quiet(t, g)
    BY <1>2, <1>4, WalkEnds
<1>6. PICK y : y = 0
    OBVIOUS
<1>7. y \in 0..block_count /\ y = FS_NULL
    BY <1>6, Bounds
<1>8. Walk(fs_directory_delete(x), y, "ok") /\ Looping("delete")
    BY <1>1, <1>3, <1>6, WalkFacts
<1> QED BY <1>5, <1>7, <1>8, WalkOK

LEMMA WalkUpKeeps ==
    ASSUME IInv, WalkUp
    PROVE  IInv'
<1>1. Walking /\ Entries(call.current) = <<>> /\ call.current # call.target
    BY DEF WalkUp, Emptied
<1>2. PICK c, W : /\ Quiet(disk, c) /\ Walked(disk, c, W, call.target, call.current)
                  /\ disk.obj[call.current].parent \in 0..block_count
    BY <1>1, WalkFacts
<1>3. Looping("delete")
    BY <1>1 DEF Walking
<1>4. CASE CanRemove(up, call.current)
  <2>1. PICK x : x = call.current
    OBVIOUS
  <2>2. PICK u : u = disk.obj[x].parent
    OBVIOUS
  <2>3. u = up /\ u \in 0..block_count /\ Walked(disk, c, W, call.target, x) /\ x # call.target
        /\ Entries(x) = <<>>
    BY <1>1, <1>2, <2>1, <2>2 DEF up
  <2>4. Walk(fs_directory_remove_reference(u, x) \o fs_directory_delete(x), u, "ok")
    BY <1>4, <2>1, <2>3 DEF WalkUp
  <2>5. PICK t, g, V : /\ Runs(disk, fs_directory_remove_reference(u, x) \o fs_directory_delete(x),
                              t, {}, MayUnsize("delete"))
                       /\ Quiet(t, g) /\ Walked(t, g, V, call.target, u)
    BY <1>2, <2>2, <2>3, WalkUpOK
  <2> QED BY <1>3, <2>3, <2>4, <2>5, WalkOK
<1>5. CASE ~CanRemove(up, call.current)
  <2>1. PICK y : y = 0
    OBVIOUS
  <2>2. y \in 0..block_count /\ y = FS_NULL
    BY <2>1, Bounds
  <2>3. Walk(<<>>, y, "failed")
    BY <1>5, <2>1 DEF WalkUp
  <2>4. Runs(disk, <<>>, disk, {}, MayUnsize("delete"))
    BY <1>2, QuietRuns
  <2> QED BY <1>2, <1>3, <2>2, <2>3, <2>4, WalkOK
<1> QED BY <1>4, <1>5

LEMMA WalkDownKeeps ==
    ASSUME IInv, WalkDown
    PROVE  IInv'
<1>1. Walking /\ Entries(call.current) # <<>> /\ Owned(last) /\ Walk(<<>>, last, "ok")
    BY DEF WalkDown, Emptied
<1>2. PICK c, W : /\ Quiet(disk, c) /\ Walked(disk, c, W, call.target, call.current)
                  /\ call.current \in DOMAIN c
    BY <1>1, WalkFacts
<1>3. PICK e : e = last
    OBVIOUS
<1>4. e \in RefsIn(disk, c[call.current])
    BY <1>1, <1>2, <1>3, EntryFacts DEF last
<1>5. /\ e # call.target /\ e # call.current /\ disk.obj[e].kind = "dir"
      /\ disk.obj[e].parent = call.current
    BY <1>1, <1>3 DEF Owned, IsDirectory
<1>6. Walked(disk, c, W \cup {e}, call.target, e)
    BY <1>2, <1>4, <1>5, WalkDownOK
<1>7. Runs(disk, <<>>, disk, {}, MayUnsize("delete"))
    BY <1>2, QuietRuns
<1>8. e \in 0..block_count
    BY <1>2, <1>4, EntryFacts DEF Blocks
<1>9. Walk(<<>>, e, "ok") /\ Looping("delete")
    BY <1>1, <1>3 DEF Walking
<1> QED BY <1>2, <1>6, <1>7, <1>8, <1>9, WalkOK

LEMMA WalkUnlinkKeeps ==
    ASSUME IInv, WalkUnlink
    PROVE  IInv'
<1>1. Walking /\ Entries(call.current) # <<>> /\ ~Owned(last) /\ Looping("delete")
    BY DEF WalkUnlink, Emptied, Walking
<1>2. PICK c, W : /\ Quiet(disk, c) /\ Walked(disk, c, W, call.target, call.current)
                  /\ call.current \in DOMAIN c /\ call.current \in Blocks
    BY <1>1, WalkFacts
<1>3. PICK e, x : e = last /\ x = call.current
    OBVIOUS
<1>4. /\ e \in RefsIn(disk, c[x]) /\ CanRemove(x, e) /\ Live(e) /\ e # FS_NULL
      /\ disk.obj[e].kind \in {"dir", "file"}
    BY <1>1, <1>2, <1>3, EntryFacts DEF last
<1>5. x \in 0..block_count
    BY <1>2, <1>3, Bounds DEF Blocks
<1>6. Walk(IF fs_file_check(e) THEN Removed(x, e) ELSE fs_directory_remove_reference(x, e), x, "ok")
    BY <1>3, <1>4 DEF WalkUnlink
<1>7. Walked(disk, c, W, call.target, x)
    BY <1>2, <1>3
<1>8. CASE disk.obj[e].kind = "file"
  <2>1. Walk(Removed(x, e), x, "ok")
    BY <1>4, <1>6, <1>8 DEF fs_file_check
  <2>2. PICK t, g : /\ Runs(disk, Removed(x, e), t, {}, MayUnsize("delete"))
                    /\ Quiet(t, g) /\ Walked(t, g, W, call.target, x)
    BY <1>2, <1>4, <1>7, <1>8, WalkRemoves
  <2> QED BY <1>1, <1>5, <2>1, <2>2, WalkOK
<1>9. CASE disk.obj[e].kind = "dir"
  <2>1. Walk(fs_directory_remove_reference(x, e), x, "ok")
    BY <1>6, <1>9 DEF fs_file_check
  <2>2. e \in {call.target, x} \/ disk.obj[e].parent # x
    BY <1>1, <1>3, <1>4, <1>9 DEF Owned, IsDirectory
  <2>3. PICK t, g : /\ Runs(disk, fs_directory_remove_reference(x, e), t, {}, MayUnsize("delete"))
                    /\ Quiet(t, g) /\ Walked(t, g, W, call.target, x)
    BY <1>2, <1>4, <1>7, <2>2, WalkUnlinks
  <2> QED BY <1>1, <1>5, <2>1, <2>3, WalkOK
<1> QED BY <1>4, <1>8, <1>9

(* What a round of fs_file_resize to a larger size starts with.            *)
LEMMA GrowFacts ==
    ASSUME IInv, Looping("resize")
    PROVE  /\ op = "resize" /\ op \in Operations /\ ~lost /\ FormedCall(call)
           /\ call.current # FS_NULL /\ call.current = call.target
           /\ call.steps \in 0..MaxSize /\ call.size \in 0..MaxSize
           /\ Growing(disk, call.target, call.tail, call.first)
           /\ \A cc : MakingOf(op, cc) = {}
<1>1. "resize" \in Operations
    BY DEF Operations
<1>2. op = "resize" /\ ~lost /\ GoesOn(disk, "resize", call) /\ FormedCall(call) /\ call.current # FS_NULL
    BY <1>1, LoopFacts
<1>3. \A cc : MakingOf(op, cc) = {}
    BY <1>2 DEF MakingOf
<1> QED BY <1>1, <1>2, <1>3 DEF GoesOn

Stopped(e, cc) == e = [cc EXCEPT !.current = 0]

LEMMA StoppedFacts ==
    ASSUME NEW cc, FormedCall(cc), NEW e, Stopped(e, cc)
    PROVE  FormedCall(e) /\ e.current = FS_NULL
<1>1. PICK S : cc \in [target : S, current : 0..block_count, steps : 0..(Steps + MaxSize),
                       due : S, tail : S, first : S, size : S]
    BY DEF FormedCall
<1>2. 0 \in 0..block_count
    BY Bounds
<1>3. e \in [target : S, current : 0..block_count, steps : 0..(Steps + MaxSize),
             due : S, tail : S, first : S, size : S]
    BY <1>1, <1>2 DEF Stopped
<1>4. e.current = 0
    BY <1>1 DEF Stopped
<1> QED BY <1>3, <1>4 DEF FormedCall, FS_NULL

Extended(e, cc, a, n, i) == e = [cc EXCEPT !.tail = a, !.steps = n, !.first = i]

LEMMA ExtendedFacts ==
    ASSUME NEW cc, FormedCall(cc), NEW a, NEW i, NEW n \in 0..(Steps + MaxSize),
           NEW e, Extended(e, cc, a, n, i)
    PROVE  /\ FormedCall(e) /\ e.current = cc.current /\ e.target = cc.target /\ e.size = cc.size
           /\ e.tail = a /\ e.steps = n /\ e.first = i
<1>1. PICK S : cc \in [target : S, current : 0..block_count, steps : 0..(Steps + MaxSize),
                       due : S, tail : S, first : S, size : S]
    BY DEF FormedCall
<1>2. PICK R : R = S \cup {a, i}
    OBVIOUS
<1>3. cc \in [target : R, current : 0..block_count, steps : 0..(Steps + MaxSize),
              due : R, tail : R, first : R, size : R]
    BY <1>1, <1>2
<1>4. a \in R /\ i \in R
    BY <1>2
<1>5. e \in [target : R, current : 0..block_count, steps : 0..(Steps + MaxSize),
             due : R, tail : R, first : R, size : R]
    BY <1>3, <1>4 DEF Extended
<1>6. /\ e.current = cc.current /\ e.target = cc.target /\ e.size = cc.size
      /\ e.tail = a /\ e.steps = n /\ e.first = i
    BY <1>3 DEF Extended
<1> QED BY <1>5, <1>6 DEF FormedCall

LEMMA ChunkFacts ==
    ASSUME call.steps \in 1..MaxSize
    PROVE  Chunk \in 1..MaxSize /\ call.steps - Chunk \in 0..MaxSize
BY Bounds DEF Chunk

LEMMA GrowKeeps ==
    ASSUME IInv, Grow
    PROVE  IInv'
<1>1. Looping("resize") /\ call.steps > 0
    BY DEF Grow
<1>2. /\ op = "resize" /\ op \in Operations /\ ~lost /\ FormedCall(call)
      /\ call.current # FS_NULL /\ call.current = call.target
      /\ call.steps \in 0..MaxSize /\ call.size \in 0..MaxSize
      /\ Growing(disk, call.target, call.tail, call.first)
      /\ \A cc : MakingOf(op, cc) = {}
    BY <1>1, GrowFacts
<1>3. CASE Round(<<>>, [call EXCEPT !.current = 0], "failed")
  <2>1. PICK cc : cc = [call EXCEPT !.current = 0]
    OBVIOUS
  <2>2. FormedCall(cc) /\ cc.current = FS_NULL
    BY <1>2, <2>1, StoppedFacts DEF Stopped
  <2>3. \E g : Quiet(disk, g)
    BY <1>2, GrowingFine
  <2>4. Leads(disk, <<>>, op, cc)
    BY <2>2, <2>3 DEF Leads
  <2>5. Round(<<>>, cc, "failed")
    BY <1>3, <2>1
  <2> QED BY ONLY IInv, <1>2, <2>2, <2>4, <2>5, RoundOK
<1>4. ASSUME NEW e, e = FirstFit(Chunk, {}), e # FS_NULL, Extend(e)
      PROVE  IInv'
  <2>1. PICK f, p, i, n : f = call.target /\ p = call.tail /\ i = call.first /\ n = Chunk
    OBVIOUS
  <2>2. n \in 1..MaxSize /\ call.steps - n \in 0..MaxSize
    BY <1>1, <1>2, <2>1, ChunkFacts
  <2>3. Growing(disk, f, p, i) /\ e = FirstFit(n, {})
    BY <1>2, <1>4, <2>1
  <2>4. PICK ws : ws = fs_alloc(e, n) \o <<Obj(e, FileExtent(p, n))>> \o
                       (IF p = f THEN <<>> ELSE <<Obj(p, [disk.obj[p] EXCEPT !.next = e])>>)
    OBVIOUS
  <2>5. PICK t : /\ Runs(disk, ws, t, {}, MayUnsize(op))
                 /\ Growing(t, f, e, IF p = f THEN e ELSE i)
    BY <1>4, <2>2, <2>3, <2>4, ExtendOK
  <2>6. PICK cc : cc = [call EXCEPT !.tail = e, !.steps = @ - n, !.first = IF p = f THEN e ELSE @]
    OBVIOUS
  <2>7. Round(ws, cc, "ok")
    BY <1>4, <2>1, <2>4, <2>6 DEF Extend
  <2>8. PICK m, j : m = call.steps - n /\ j = IF p = f THEN e ELSE i
    OBVIOUS
  <2>9. Extended(cc, call, e, m, j)
    BY <2>1, <2>6, <2>8 DEF Extended
  <2>10. m \in 0..(Steps + MaxSize) /\ m \in 0..MaxSize
    BY <2>2, <2>8, Bounds
  <2>11. /\ FormedCall(cc) /\ cc.current = call.current /\ cc.target = call.target
         /\ cc.size = call.size /\ cc.tail = e /\ cc.steps = m /\ cc.first = j
    BY ONLY <1>2, <2>9, <2>10, ExtendedFacts
  <2>12. Aft(t, op, cc)
    BY <1>2, <2>1, <2>5, <2>8, <2>10, <2>11 DEF Aft, GoesOn
  <2>13. Leads(disk, ws, op, cc)
    BY <1>2, <2>5, <2>12 DEF Leads
  <2> QED BY ONLY IInv, <1>2, <2>7, <2>11, <2>13, RoundOK
<1> QED BY <1>3, <1>4 DEF Grow

LEMMA GrownKeeps ==
    ASSUME IInv, Grown
    PROVE  IInv'
<1>1. Looping("resize")
    BY DEF Grown
<1>2. /\ op \in Operations /\ ~lost /\ FormedCall(call) /\ call.size \in 0..MaxSize
      /\ Growing(disk, call.target, call.tail, call.first) /\ \A cc : MakingOf(op, cc) = {}
    BY <1>1, GrowFacts
<1>3. PICK f, p, i, n : f = call.target /\ p = call.tail /\ i = call.first /\ n = call.size
    OBVIOUS
<1>4. PICK o : o = [disk.obj[f] EXCEPT !.len = n, !.next = i]
    OBVIOUS
<1>5. PICK cc : cc = [call EXCEPT !.current = 0]
    OBVIOUS
<1>6. Round(<<Obj(f, o)>>, cc, "ok")
    BY <1>3, <1>4, <1>5 DEF Grown
<1>7. PICK t, k : Runs(disk, <<Obj(f, o)>>, t, {}, MayUnsize(op)) /\ Quiet(t, k)
    BY <1>2, <1>3, <1>4, GrownOK
<1>8. FormedCall(cc) /\ cc.current = FS_NULL
    BY <1>2, <1>5, StoppedFacts DEF Stopped
<1>9. Leads(disk, <<Obj(f, o)>>, op, cc)
    BY <1>2, <1>7, <1>8 DEF Leads, Aft
<1> QED BY ONLY IInv, <1>2, <1>6, <1>8, <1>9, RoundOK

(* What a lookup finds on a quiet disk.                                    *)
LEMMA TreeFacts ==
    ASSUME NEW c, Quiet(disk, c), NEW d \in Below(Root)
    PROVE  d \in DOMAIN c /\ disk.obj[d].kind = "dir"
<1>1. PICK B : B = {x \in DOMAIN c : disk.obj[x].kind = "dir"}
    OBVIOUS
<1>2. Root \in B
    BY <1>1 DEF Quiet, Calm, RootOK, Sound, Shape
<1>3. ASSUME NEW x \in B PROVE Subdirectories(x) \subseteq B
  <2>1. x \in DOMAIN c
    BY <1>1
  <2>2. SUFFICES ASSUME NEW e \in Subdirectories(x) PROVE e \in B
    OBVIOUS
  <2>3. e \in ToSet(Entries(x)) /\ disk.obj[e].kind = "dir"
    BY <2>2 DEF Subdirectories, IsDirectory
  <2>4. e \in DOMAIN c
    BY <2>1, <2>3, EntryFacts
  <2> QED BY <1>1, <2>3, <2>4
<1>4. Below(Root) \subseteq B
    BY <1>2, <1>3, BelowStays
<1> QED BY <1>1, <1>4

(* An operation that starts, starts on a quiet disk.                       *)
LEMMA StartFacts ==
    ASSUME IInv, ~UseAfterLoss, NEW o, NEW ws, NEW cc, NEW r, Begin(o, ws, cc, r)
    PROVE  \E c : Quiet(disk, c)
<1>1. op = "idle" /\ ~lost
    BY DEF Begin
<1> QED BY <1>1, IdleFacts

(* The calls operations start with.                                        *)
LEMMA FirstCalls ==
    /\ FormedCall(NoCall) /\ NoCall.current = FS_NULL
    /\ \A x, v : /\ FormedCall([NoCall EXCEPT !.target = x, !.due = v])
                 /\ [NoCall EXCEPT !.target = x, !.due = v].current = FS_NULL
<1>1. 0 \in 0..block_count /\ 0 \in 0..(Steps + MaxSize)
    BY Bounds
<1>2. FormedCall(NoCall)
    BY <1>1, Formed DEF NoCall
<1>3. ASSUME NEW x, NEW v
      PROVE  /\ FormedCall([NoCall EXCEPT !.target = x, !.due = v])
             /\ [NoCall EXCEPT !.target = x, !.due = v].current = FS_NULL
  <2>1. PICK cc : cc = [NoCall EXCEPT !.target = x, !.due = v]
    OBVIOUS
  <2>2. cc = [target |-> x, current |-> 0, steps |-> 0, due |-> v, tail |-> 0, first |-> 0, size |-> 0]
    BY <2>1 DEF NoCall
  <2>3. FormedCall(cc)
    BY <1>1, <2>2, Formed
  <2>4. cc.current = 0
    BY <2>2
  <2> QED BY <2>1, <2>3, <2>4 DEF FS_NULL
<1> QED BY <1>2, <1>3 DEF NoCall, FS_NULL

LEMMA CreateKeeps ==
    ASSUME IInv, ~UseAfterLoss, NEW d \in Below(Root), NEW o \in Contents,
           o.refs = <<>>, o.next = FS_NULL, o.kind \in {"dir", "file"},
           NEW kind, kind \in {"create", "mkdir"}, Create(kind, d, o)
    PROVE  IInv'
<1>1. PICK b : /\ b = FirstFit(1, {})
               /\ IF b = FS_NULL THEN Begin(kind, <<>>, NoCall, "failed")
                  ELSE Begin(kind, Created(d, b, o), [NoCall EXCEPT !.target = b], "ok")
    BY DEF Create
<1>2. PICK c : Quiet(disk, c)
    BY <1>1, StartFacts
<1>3. d \in DOMAIN c /\ disk.obj[d].kind = "dir"
    BY <1>2, TreeFacts
<1>4. kind \in Operations /\ \A cc : MakingOf(kind, cc) = {cc.target}
    BY DEF Operations, MakingOf
<1>5. CASE b = FS_NULL
  <2>1. Begin(kind, <<>>, NoCall, "failed")
    BY <1>1, <1>5
  <2>2. FormedCall(NoCall) /\ NoCall.current = FS_NULL
    BY FirstCalls
  <2>3. Leads(disk, <<>>, kind, NoCall)
    BY <1>2, <2>2 DEF Leads
  <2> QED BY ONLY IInv, ~UseAfterLoss, <1>4, <2>1, <2>2, <2>3, BeginOK
<1>6. CASE b # FS_NULL
  <2>1. PICK cc : cc = [NoCall EXCEPT !.target = b]
    OBVIOUS
  <2>2. PICK ws : ws = Created(d, b, o)
    OBVIOUS
  <2>3. Begin(kind, ws, cc, "ok")
    BY <1>1, <1>6, <2>1, <2>2
  <2>4. FormedCall(cc) /\ cc.current = FS_NULL /\ cc.target = b
    <3>1. 0 \in 0..block_count /\ 0 \in 0..(Steps + MaxSize)
      BY Bounds
    <3>2. cc = [target |-> b, current |-> 0, steps |-> 0, due |-> {}, tail |-> 0, first |-> 0, size |-> 0]
      BY <2>1 DEF NoCall
    <3>3. FormedCall(cc)
      BY <3>1, <3>2, Formed
    <3> QED BY <3>2, <3>3 DEF FS_NULL
  <2>5. PICK t, k : Runs(disk, ws, t, {b}, MayUnsize(kind)) /\ Quiet(t, k)
    BY <1>1, <1>2, <1>3, <1>6, <2>2, CreatedOK
  <2>6. Leads(disk, ws, kind, cc)
    BY <1>4, <2>4, <2>5 DEF Leads, Aft
  <2> QED BY ONLY IInv, ~UseAfterLoss, <1>4, <2>3, <2>4, <2>6, BeginOK
<1> QED BY <1>5, <1>6

LEMMA RemoveFileKeeps ==
    ASSUME IInv, ~UseAfterLoss, NEW d \in Below(Root), NEW f \in ToSet(Entries(d)),
           fs_file_check(f), remove_file(d, f)
    PROVE  IInv'
<1>1. PICK ws, cc : /\ Begin("delete", ws, cc, "ok") /\ ws = Removed(d, f)
                    /\ cc = [NoCall EXCEPT !.target = f, !.due = BlocksOf(f)]
    BY DEF remove_file
<1>2. PICK c : Quiet(disk, c)
    BY <1>1, StartFacts
<1>3. d \in DOMAIN c /\ disk.obj[d].kind = "dir"
    BY <1>2, TreeFacts
<1>4. f \in RefsIn(disk, c[d]) /\ disk.obj[f].kind # "dir"
    BY <1>2, <1>3, EntryFacts DEF fs_file_check
<1>5. f # d /\ f # Root
    BY <1>2, <1>3, <1>4 DEF Quiet, Calm, RootOK
<1>6. PICK t, g : /\ Runs(disk, fs_directory_remove_reference(d, f) \o FreeAll(Append(Chain(f), f)),
                          t, {}, MayUnsize("delete"))
                  /\ Gone(disk, c, t, g, f)
    BY <1>2, <1>3, <1>4, <1>5, ObjectDeleted
<1>7. Runs(disk, ws, t, {}, MayUnsize("delete")) /\ Quiet(t, g)
    BY <1>1, <1>6 DEF Removed, fs_file_delete, Gone
<1>8. FormedCall(cc) /\ cc.current = FS_NULL
    BY <1>1, FirstCalls
<1>9. "delete" \in Operations /\ MakingOf("delete", cc) = {}
    BY DEF Operations, MakingOf
<1>10. Leads(disk, ws, "delete", cc)
    BY <1>7, <1>8, <1>9 DEF Leads, Aft
<1> QED BY ONLY IInv, ~UseAfterLoss, <1>1, <1>8, <1>9, <1>10, BeginOK

LEMMA ResizeKeeps ==
    ASSUME IInv, ~UseAfterLoss, NEW d \in Below(Root), NEW f \in ToSet(Entries(d)),
           fs_file_check(f), NEW n \in 0..MaxSize, fs_file_resize(f, n)
    PROVE  IInv'
<1>1. \E ws, cc, r : Begin("resize", ws, cc, r)
    BY DEF fs_file_resize
<1>2. PICK c : Quiet(disk, c)
    BY <1>1, StartFacts
<1>3. d \in DOMAIN c
    BY <1>2, TreeFacts
<1>4. f \in DOMAIN c /\ f \in Blocks /\ disk.obj[f].kind = "file" /\ f # FS_NULL
    BY <1>2, <1>3, EntryFacts DEF fs_file_check
<1>5. "resize" \in Operations /\ \A cc : MakingOf("resize", cc) = {}
    BY DEF Operations, MakingOf
<1>6. CASE Begin("resize", Shrink(f, n), NoCall, "ok")
  <2>1. PICK z : z = TRUE
    OBVIOUS
  <2>2. MayUnsize("resize") = z
    BY <2>1 DEF MayUnsize
  <2>3. PICK t, k : Runs(disk, Shrink(f, n), t, {}, z) /\ Quiet(t, k)
    BY <1>2, <1>4, <2>1, ShrinkOK
  <2>4. FormedCall(NoCall) /\ NoCall.current = FS_NULL
    BY FirstCalls
  <2>5. Leads(disk, Shrink(f, n), "resize", NoCall)
    BY <1>5, <2>2, <2>3, <2>4 DEF Leads, Aft
  <2> QED BY ONLY IInv, ~UseAfterLoss, <1>5, <1>6, <2>4, <2>5, BeginOK
<1>7. CASE Begin("resize", <<>>, NoCall, "failed")
  <2>1. FormedCall(NoCall) /\ NoCall.current = FS_NULL
    BY FirstCalls
  <2>2. Leads(disk, <<>>, "resize", NoCall)
    BY <1>2, <2>1 DEF Leads
  <2> QED BY ONLY IInv, ~UseAfterLoss, <1>5, <1>7, <2>1, <2>2, BeginOK
<1>8. ASSUME NEW cc, n > disk.obj[f].len, Begin("resize", <<>>, cc, "ok"),
             cc = [NoCall EXCEPT !.target = f, !.current = f, !.steps = n - disk.obj[f].len,
                                 !.tail = Last(Parts(f)), !.first = disk.obj[f].next, !.size = n]
      PROVE  IInv'
  <2>1. disk \in Disks /\ disk.obj[f].len \in 0..MaxSize
    BY <1>2, <1>4, DiskFacts DEF Quiet, Sound
  <2>2. PICK p, i, m : p = Last(Parts(f)) /\ i = disk.obj[f].next /\ m = n - disk.obj[f].len
    OBVIOUS
  <2>3. m \in 0..MaxSize /\ m \in 0..(Steps + MaxSize)
    BY <1>8, <2>1, <2>2, Bounds
  <2>4. cc = [target |-> f, current |-> f, steps |-> m, due |-> {}, tail |-> p, first |-> i, size |-> n]
    BY <1>8, <2>2 DEF NoCall
  <2>5. f \in 0..block_count
    BY <1>4, Bounds DEF Blocks
  <2>6. FormedCall(cc)
    BY <2>3, <2>4, <2>5, Formed
  <2>7. /\ cc.target = f /\ cc.current = f /\ cc.steps = m /\ cc.tail = p /\ cc.first = i
        /\ cc.size = n
    BY <2>4
  <2>8. Growing(disk, f, p, i)
    BY <1>2, <1>4, <2>2, GrowingStarts
  <2>9. Aft(disk, "resize", cc)
    BY <1>4, <2>3, <2>7, <2>8 DEF Aft, GoesOn
  <2>10. Runs(disk, <<>>, disk, {}, MayUnsize("resize"))
    BY <1>2, QuietRuns
  <2>11. Leads(disk, <<>>, "resize", cc)
    BY <1>5, <2>9, <2>10 DEF Leads
  <2> QED BY ONLY IInv, ~UseAfterLoss, <1>5, <1>8, <2>6, <2>11, BeginOK
<1> QED BY <1>6, <1>7, <1>8 DEF fs_file_resize

LEMMA RemoveDirectoryKeeps ==
    ASSUME IInv, ~UseAfterLoss, NEW d \in Below(Root), NEW x \in ToSet(Entries(d)),
           IsDirectory(x), x # Root, remove_directory(d, x)
    PROVE  IInv'
<1>1. PICK ws, cc : /\ Begin("delete", ws, cc, "ok") /\ ws = fs_directory_remove_reference(d, x)
                    /\ cc = WalkFrom(x)
    BY DEF remove_directory
<1>2. PICK c : Quiet(disk, c)
    BY <1>1, StartFacts
<1>3. d \in DOMAIN c
    BY <1>2, TreeFacts
<1>4. x \in RefsIn(disk, c[d]) /\ x \in Blocks /\ disk.obj[x].kind = "dir" /\ x # FS_NULL
    BY <1>2, <1>3, EntryFacts DEF IsDirectory
<1>5. "delete" \in Operations /\ MakingOf("delete", cc) = {}
    BY DEF Operations, MakingOf
<1>6. PICK t, k, W : /\ Runs(disk, ws, t, {}, MayUnsize("delete"))
                     /\ Quiet(t, k) /\ Walked(t, k, W, x, x)
    BY <1>1, <1>2, <1>3, <1>4, WalkStarts
<1>7. PICK v : v = BlocksOf(x)
    OBVIOUS
<1>8. cc = [target |-> x, current |-> x, steps |-> Steps, due |-> v, tail |-> 0, first |-> 0, size |-> 0]
    BY <1>1, <1>7 DEF WalkFrom, NoCall
<1>9. x \in 0..block_count /\ Steps \in 0..(Steps + MaxSize) /\ Steps \in 1..Steps
    BY <1>4, Bounds DEF Blocks
<1>10. FormedCall(cc)
    BY <1>8, <1>9, Formed
<1>11. cc.target = x /\ cc.current = x /\ cc.steps = Steps
    BY <1>8
<1>12. Aft(t, "delete", cc)
    BY <1>4, <1>6, <1>9, <1>11 DEF Aft, GoesOn
<1>13. Leads(disk, ws, "delete", cc)
    BY <1>5, <1>6, <1>12 DEF Leads
<1> QED BY ONLY IInv, ~UseAfterLoss, <1>1, <1>5, <1>10, <1>13, BeginOK

LEMMA StartKeeps ==
    ASSUME IInv, ~UseAfterLoss, Start
    PROVE  IInv'
<1>1. PICK d \in Below(Root) :
        \/ fs_file_create(d)
        \/ fs_directory_create(d)
        \/ \E e \in ToSet(Entries(d)) :
             \/ fs_file_check(e) /\ remove_file(d, e)
             \/ fs_file_check(e) /\ \E n \in 0..MaxSize : fs_file_resize(e, n)
             \/ IsDirectory(e) /\ e # Root /\ remove_directory(d, e)
    BY DEF Start
<1>2. CASE fs_file_create(d)
  <2>1. PICK p : p = FS_NULL
    OBVIOUS
  <2>2. File \in Contents /\ File.kind = "file" /\ File.refs = <<>> /\ File.next = FS_NULL
    BY <2>1, Bounds, NewObjects
  <2>3. PICK kind : kind = "create"
    OBVIOUS
  <2>4. kind \in {"create", "mkdir"} /\ Create(kind, d, File)
    BY <1>2, <2>3 DEF fs_file_create
  <2> QED BY <2>2, <2>4, CreateKeeps
<1>3. CASE fs_directory_create(d)
  <2>1. \E ws, cc, r, kind : Begin(kind, ws, cc, r)
    BY <1>3 DEF fs_directory_create, Create
  <2>2. PICK c : Quiet(disk, c)
    BY <2>1, StartFacts
  <2>3. d \in DOMAIN c /\ Shape(c)
    BY <2>2, TreeFacts DEF Quiet, Sound
  <2>4. d \in 0..block_count
    BY <2>3, ShapeFacts, Bounds DEF Blocks
  <2>5. /\ Directory(d) \in Contents /\ Directory(d).kind = "dir"
        /\ Directory(d).refs = <<>> /\ Directory(d).next = FS_NULL
    BY <2>4, NewObjects
  <2>6. PICK kind : kind = "mkdir"
    OBVIOUS
  <2>7. kind \in {"create", "mkdir"} /\ Create(kind, d, Directory(d))
    BY <1>3, <2>6 DEF fs_directory_create
  <2>8. PICK o : o = Directory(d)
    OBVIOUS
  <2> QED BY <2>5, <2>7, <2>8, CreateKeeps
<1>4. ASSUME NEW e \in ToSet(Entries(d)), fs_file_check(e), remove_file(d, e) PROVE IInv'
    BY <1>4, RemoveFileKeeps
<1>5. ASSUME NEW e \in ToSet(Entries(d)), fs_file_check(e), NEW n \in 0..MaxSize, fs_file_resize(e, n)
      PROVE  IInv'
    BY <1>5, ResizeKeeps
<1>6. ASSUME NEW e \in ToSet(Entries(d)), IsDirectory(e), e # Root, remove_directory(d, e) PROVE IInv'
    BY <1>6, RemoveDirectoryKeeps
<1> QED BY <1>1, <1>2, <1>3, <1>4, <1>5, <1>6

LEMMA WriteBackKeeps ==
    ASSUME IInv, WriteBack
    PROVE  IInv'
<1>1. /\ todo # <<>> /\ disk' = Written(disk, Head(todo)) /\ todo' = Tail(todo)
      /\ op' = (IF Len(todo) = 1 /\ call.current = FS_NULL THEN "idle" ELSE op)
      /\ call' = call /\ lost' = lost
    BY DEF WriteBack, FS_NULL
<1>2. op \in Operations /\ op # "idle" /\ ~lost /\ FormedCall(call) /\ lost \in BOOLEAN
    BY <1>1 DEF IInv, Fit, Operations
<1>3. PICK t : Runs(disk, todo, t, MakingOf(op, call), MayUnsize(op)) /\ Aft(t, op, call)
    BY <1>2 DEF IInv, Fit
<1>4. Runs(disk', todo', t, MakingOf(op, call), MayUnsize(op)) /\ todo \in Seq(Writes)
    BY <1>1, <1>3, RunsHead, RunsFine
<1>5. CASE Len(todo) = 1 /\ call.current = FS_NULL
  <2>1. todo' = <<>>
    BY <1>1, <1>4, <1>5
  <2>2. disk' = t
    BY <1>4, <2>1, RunsFine
  <2>3. PICK c : Quiet(disk', c)
    BY <1>3, <1>5, <2>2 DEF Aft
  <2>4. PICK x : x = "idle"
    OBVIOUS
  <2>5. MakingOf(x, call) = {} /\ op' = x
    BY <1>1, <1>5, <2>4 DEF MakingOf
  <2>6. Runs(disk', <<>>, disk', {}, MayUnsize(x))
    BY <2>3, QuietRuns
  <2>7. Aft(disk', x, call)
    BY <1>5, <2>3 DEF Aft
  <2>8. Fit(disk', <<>>, x, call, lost)
    BY <1>2, <1>5, <2>4, <2>5, <2>6, <2>7 DEF Fit
  <2> QED BY <1>1, <2>1, <2>5, <2>8 DEF IInv
<1>6. CASE ~(Len(todo) = 1 /\ call.current = FS_NULL)
  <2>1. op' = op
    BY <1>1, <1>6
  <2>2. Fit(disk', todo', op, call, lost)
    BY <1>2, <1>3, <1>4 DEF Fit
  <2> QED BY <1>1, <2>1, <2>2 DEF IInv
<1> QED BY <1>5, <1>6

LEMMA PowerLossKeeps ==
    ASSUME IInv, CrashIn \subseteq {"resize", "delete"}, PowerLoss
    PROVE  IInv'
<1>1. /\ op \in {"resize", "delete"} /\ todo' = <<>> /\ op' = "idle" /\ call' = NoCall
      /\ lost' = TRUE /\ disk' = disk
    BY DEF PowerLoss
<1>2. op # "idle" /\ MakingOf(op, call) = {}
    BY <1>1 DEF MakingOf
<1>3. PICK t : Runs(disk, todo, t, MakingOf(op, call), MayUnsize(op))
    BY <1>2 DEF IInv, Fit
<1>4. Fine(disk, {})
    BY <1>2, <1>3, RunsFine
<1>5. FormedCall(NoCall) /\ NoCall.current = FS_NULL
    BY FirstCalls
<1>6. PICK l : l = TRUE
    OBVIOUS
<1>7. Fit(disk, <<>>, "idle", NoCall, l)
    BY <1>4, <1>5, <1>6 DEF Fit
<1> QED BY <1>1, <1>6, <1>7 DEF IInv

LEMMA InitHolds ==
    ASSUME Init
    PROVE  IInv
<1>1. /\ disk = [bits |-> {Root}, size |-> [b \in Blocks |-> IF b = Root THEN 1 ELSE 0],
                 obj |-> [b \in Blocks |-> IF b = Root THEN Directory(FS_NULL) ELSE Zeros]]
      /\ todo = <<>> /\ op = "idle" /\ call = NoCall /\ lost = FALSE
    BY DEF Init
<1>2. Root \in Blocks /\ 0 \in 0..block_count /\ 0 \in 0..MaxSize /\ 1 \in 0..block_count
    BY Bounds DEF Root, Blocks
<1>3. /\ Zeros \in Contents /\ Zeros.kind = "zeros" /\ Zeros.refs = <<>> /\ Zeros.next = FS_NULL
    BY <1>2 DEF Zeros, Contents, Object, FS_NULL
<1>4. /\ Directory(FS_NULL) \in Contents /\ Directory(FS_NULL).kind = "dir"
      /\ Directory(FS_NULL).refs = <<>> /\ Directory(FS_NULL).next = FS_NULL
      /\ Directory(FS_NULL).parent = FS_NULL
  <2>1. PICK p : p = FS_NULL
    OBVIOUS
  <2>2. p \in 0..block_count
    BY <2>1, Bounds
  <2>3. /\ Directory(p) \in Contents /\ Directory(p).kind = "dir"
        /\ Directory(p).refs = <<>> /\ Directory(p).next = FS_NULL
    BY <2>2, NewObjects
  <2>4. Directory(p).parent = p
    BY DEF Directory, Zeros
  <2> QED BY <2>1, <2>3, <2>4
<1>5. disk \in Disks
    BY <1>1, <1>2, <1>3, <1>4 DEF Disks
<1>6. /\ disk.bits = {Root} /\ disk.size[Root] = 1 /\ disk.obj[Root] = Directory(FS_NULL)
      /\ \A b \in Blocks \ {Root} : disk.size[b] = 0 /\ disk.obj[b] = Zeros
    BY <1>1, <1>2
<1>7. PICK c : c = [x \in {Root} |-> <<Root>>]
    OBVIOUS
<1>8. DOMAIN c = {Root} /\ c[Root] = <<Root>>
    BY <1>7
<1>9. <<Root>> \in Seq(Blocks) /\ Len(<<Root>>) = 1 /\ <<Root>>[1] = Root /\ Range(<<Root>>) = {Root}
      /\ IsInjective(<<Root>>)
    BY <1>2 DEF Range, IsInjective
<1>10. PartsIn(c) = {Root}
    BY <1>8, <1>9 DEF PartsIn
<1>11. Shape(c)
    BY <1>7, <1>8, <1>9 DEF Shape
<1>12. Run(Root, 1) = {Root}
    BY <1>2, RunOfOne
<1>13. ~LiveOn(disk, FS_NULL)
    BY DEF LiveOn, Blocks, FS_NULL
<1>14. Chained(disk, c[Root])
    BY <1>4, <1>6, <1>8, <1>9, <1>13 DEF Chained
<1>15. Room(disk, {Root})
    BY <1>2, <1>6, <1>12 DEF Room, Here, LiveOn
<1>16. Referring(disk, {Root}, Known(disk, c, {}))
    BY <1>4, <1>6 DEF Referring
<1>17. Stale(disk, {Root})
    BY <1>3, <1>6 DEF Stale
<1>18. Sound(disk, c, {})
    BY <1>5, <1>8, <1>10, <1>11, <1>14, <1>15, <1>16, <1>17 DEF Sound
<1>19. Calm(disk, c)
  <2>1. Ends(disk, c) /\ Prevs(disk, c)
    BY <1>4, <1>6, <1>8, <1>9 DEF Ends, Prevs
  <2>2. Full(disk, c)
    BY <1>4, <1>6, <1>10 DEF Full
  <2> QED BY <1>4, <1>6, <2>1, <2>2 DEF Calm, RootOK
<1>20. Quiet(disk, c)
    BY <1>18, <1>19 DEF Quiet
<1>21. PICK x, l : x = "idle" /\ l = FALSE
    OBVIOUS
<1>22. FormedCall(NoCall) /\ NoCall.current = FS_NULL
    BY FirstCalls
<1>23. Runs(disk, <<>>, disk, {}, MayUnsize(x)) /\ MakingOf(x, NoCall) = {}
    BY <1>20, <1>21, QuietRuns DEF MakingOf
<1>24. Aft(disk, x, NoCall)
    BY <1>20, <1>22 DEF Aft
<1>25. Fit(disk, <<>>, x, NoCall, l)
    BY <1>21, <1>22, <1>23, <1>24 DEF Fit
<1> QED BY <1>1, <1>21, <1>25 DEF IInv

(* Power may fail in a resize and in a delete, and ends the use of the     *)
(* disk.                                                                   *)
Guarded == CrashIn \subseteq {"resize", "delete"} /\ ~UseAfterLoss

LEMMA StepKeeps ==
    ASSUME Guarded, IInv, [Next]_vars
    PROVE  IInv'
<1>1. CASE Start
    BY <1>1, StartKeeps DEF Guarded
<1>2. CASE WriteBack
    BY <1>2, WriteBackKeeps
<1>3. CASE Grow
    BY <1>3, GrowKeeps
<1>4. CASE Grown
    BY <1>4, GrownKeeps
<1>5. CASE WalkDone
    BY <1>5, WalkDoneKeeps
<1>6. CASE WalkUp
    BY <1>6, WalkUpKeeps
<1>7. CASE WalkDown
    BY <1>7, WalkDownKeeps
<1>8. CASE WalkUnlink
    BY <1>8, WalkUnlinkKeeps
<1>9. CASE PowerLoss
    BY <1>9, PowerLossKeeps DEF Guarded
<1>10. CASE UNCHANGED vars
    BY <1>10 DEF vars, IInv
<1> QED BY <1>1, <1>2, <1>3, <1>4, <1>5, <1>6, <1>7, <1>8, <1>9, <1>10 DEF Next, Continue

LEMMA InvariantMeans ==
    ASSUME IInv
    PROVE  TreeIsSound
<1>1. InMaking = MakingOf(op, call)
    BY DEF InMaking, MakingOf
<1>2. Fine(disk, InMaking)
  <2>1. CASE lost
    <3>1. op = "idle" /\ Fine(disk, {})
      BY <2>1 DEF IInv, Fit
    <3> QED BY <3>1 DEF InMaking
  <2>2. CASE ~lost
    <3>1. PICK t : Runs(disk, todo, t, MakingOf(op, call), MayUnsize(op))
      BY <2>2 DEF IInv, Fit
    <3> QED BY <1>1, <3>1, RunsFine
  <2> QED BY <2>1, <2>2
<1>3. PICK c : Sound(disk, c, InMaking)
    BY <1>2 DEF Fine
<1>4. EntriesAreLive /\ NoSharing
    BY <1>3, SoundMeans
<1>5. disk \in Disks
    BY <1>3 DEF Sound
<1>6. TypeOK
  <2>1. /\ disk.bits \subseteq Blocks /\ disk.size \in [Blocks -> 0..block_count]
        /\ disk.obj \in [Blocks -> Contents]
    BY <1>5 DEF Disks
  <2>2. disk.obj \in [Blocks -> Object]
    BY <2>1 DEF Contents
  <2>3. \A b \in Blocks : disk.obj[b].kind \in {"dir", "dext"} => Len(disk.obj[b].refs) <= MaxRefs(b)
    BY <2>1 DEF Contents, MaxRefs
  <2>4. call.current \in 0..block_count /\ call.steps \in 0..(Steps + MaxSize)
    BY CallFacts DEF IInv, Fit
  <2> QED BY <2>1, <2>2, <2>3, <2>4 DEF TypeOK
<1> QED BY <1>4, <1>6 DEF TreeIsSound

(* A delete changes the size of no part of the tree.                       *)
LEMMA DeleteSpares ==
    ASSUME IInv, [Next]_vars, op = "delete"
    PROVE  \A p \in PartsOf(Root) : disk'.size[p] = disk.size[p]
<1>1. CASE WriteBack
  <2>1. todo # <<>> /\ disk' = Written(disk, Head(todo))
    BY <1>1 DEF WriteBack
  <2>2. ~lost
    BY DEF IInv, Fit
  <2>3. PICK t, z : Runs(disk, todo, t, {}, z) /\ z = MayUnsize(op)
    BY <2>2 DEF IInv, Fit, MakingOf
  <2>4. ~z
    BY <2>3 DEF MayUnsize
  <2>5. Fits(disk, Head(todo), {}, z) /\ todo \in Seq(Writes)
    BY <2>1, <2>3, RunsHead, RunsFine
  <2>6. PICK w : w = Head(todo)
    OBVIOUS
  <2>7. w \in Writes
    BY <2>1, <2>5, <2>6
  <2>8. PICK c : Sound(disk, c, {}) /\ (w.to = "size" => w.at \notin PartsIn(c))
    BY <2>4, <2>5, <2>6 DEF Fits
  <2>9. PartsOf(Root) \subseteq PartsIn(c)
    BY <2>8, PartsOfRoot
  <2>10. SUFFICES ASSUME NEW p \in PartsIn(c) PROVE disk'.size[p] = disk.size[p]
    BY <2>9
  <2>11. disk' = Written(disk, w) /\ disk \in Disks
    BY <2>1, <2>6, <2>8 DEF Sound
  <2>12. CASE w.to = "size"
    <3>1. disk' = [disk EXCEPT !.size[w.at] = w.v] /\ w.at # p
      BY <2>8, <2>11, <2>12 DEF Written
    <3> QED BY <2>11, <3>1 DEF Disks
  <2>13. CASE w.to # "size"
    <3>1. w.to \in {"take", "give", "obj"}
      BY <2>7, <2>13 DEF Writes, Take, Give, Size, Obj
    <3>2. \/ disk' = [disk EXCEPT !.bits = @ \cup Run(w.at, w.v)]
          \/ disk' = [disk EXCEPT !.bits = @ \ Run(w.at, w.v)]
          \/ disk' = [disk EXCEPT !.obj[w.at] = w.v]
      BY <2>11, <3>1 DEF Written
    <3>3. disk'.size = disk.size
      BY <2>11, <3>2 DEF Disks
    <3> QED BY <3>3
  <2> QED BY <2>12, <2>13
<1>2. CASE ~WriteBack
  <2>1. disk' = disk
    <3>1. CASE Start
      <4>1. \E o, ws, cc, r : Begin(o, ws, cc, r)
        BY <3>1 DEF Start, fs_file_create, fs_directory_create, Create, remove_file, fs_file_resize,
           remove_directory
      <4> QED BY <4>1 DEF Begin
    <3>2. CASE Grow \/ Grown
      <4>1. \E ws, cc, r : Round(ws, cc, r)
        BY <3>2 DEF Grow, Grown, Extend
      <4> QED BY <4>1 DEF Round
    <3>3. CASE WalkDone \/ WalkUp \/ WalkDown \/ WalkUnlink
      <4>1. \E ws, y, r : Walk(ws, y, r)
        BY <3>3 DEF WalkDone, WalkUp, WalkDown, WalkUnlink
      <4>2. \E ws, cc, r : Round(ws, cc, r)
        BY <4>1 DEF Walk
      <4> QED BY <4>2 DEF Round
    <3>4. CASE PowerLoss
      BY <3>4 DEF PowerLoss
    <3>5. CASE UNCHANGED vars
      BY <3>5 DEF vars
    <3> QED BY <1>2, <3>1, <3>2, <3>3, <3>4, <3>5 DEF Next, Continue
  <2> QED BY <2>1
<1> QED BY <1>1, <1>2

(* At every single write of every operation the tree on the disk is sound: *)
(* all a lookup reaches is allocated and nothing is reached twice, also on *)
(* what a resize or a delete leaves that the power interrupts.             *)
THEOREM TreeStaysSound ==
    ASSUME Guarded
    PROVE  Spec => []TreeIsSound
<1>1. Init => IInv
    BY InitHolds
<1>2. IInv /\ [Next]_vars => IInv'
    BY StepKeeps
<1>3. IInv => TreeIsSound
    BY InvariantMeans
<1> QED BY <1>1, <1>2, <1>3, PTL DEF Spec

(* A recursive delete, and the delete of a file, frees no part of what is  *)
(* still reached from the root: fs_directory_delete_recursive stays in its *)
(* subtree.                                                                *)
THEOREM DeleteKeepsToItself ==
    ASSUME Guarded
    PROVE  Spec => DeleteStaysInside
<1>1. Init => IInv
    BY InitHolds
<1>2. IInv /\ [Next]_vars => IInv'
    BY StepKeeps
<1>3. IInv /\ [Next]_vars =>
        [op = "delete" /\ call.steps > 0 =>
           \A p \in PartsOf(Root) : disk'.size[p] = disk.size[p]]_vars
    BY DeleteSpares
<1> QED BY <1>1, <1>2, <1>3, PTL DEF Spec, DeleteStaysInside

=============================================================================
