------------------------------ MODULE ListProofs ------------------------------
(***************************************************************************)
(* Facts about numbers and lists that the proofs about the components      *)
(* rest on.                                                                *)
(***************************************************************************)
EXTENDS Lists, SequencesExt, WellFoundedInduction, TLAPS

(* Numbers are well founded: it is what stands for induction here.         *)
LEMMA NatMin ==
    ASSUME NEW T, T \subseteq Nat, T # {}
    PROVE  \E x \in T : \A y \in T : x <= y
<1> DEFINE R == OpToRel(<, Nat)
<1>1. \E x \in T : \A y \in T : ~ (<<y, x>> \in R)
    BY NatLessThanWellFounded, WFMin, Zenon
<1>2. R = {p \in Nat \X Nat : p[1] < p[2]}
    BY Zenon DEF OpToRel
<1> HIDE DEF R
<1>3. \A x, y \in Nat : y < x => <<y, x>> \in R
    BY <1>2
<1>4. PICK x \in T : \A y \in T : ~ (<<y, x>> \in R)
    BY <1>1
<1>5. ASSUME NEW y \in T PROVE x <= y
  <2>1. x \in Nat /\ y \in Nat
    OBVIOUS
  <2>2. ~ (<<y, x>> \in R)
    BY <1>4
  <2>3. ~ (y < x)
    BY <2>1, <2>2, <1>3
  <2> QED BY <2>1, <2>3
<1> QED BY <1>4, <1>5

(* Min is a member of the set and below every other.                       *)
LEMMA MinIs ==
    ASSUME NEW T, T \subseteq Nat, NEW m \in T, \A y \in T : m <= y
    PROVE  Min(T) = m
<1>1. ASSUME NEW x \in T, \A y \in T : x <= y PROVE x = m
    BY <1>1
<1> QED BY <1>1 DEF Min

(* A non-empty set of naturals has a least member (NatMin).                *)
LEMMA MinExists ==
    ASSUME NEW T, T \subseteq Nat, T # {}
    PROVE  Min(T) \in T /\ \A y \in T : Min(T) <= y
<1>1. PICK m \in T : \A y \in T : m <= y
    BY NatMin
<1> QED BY <1>1, MinIs

(* A function on an interval from 1 is a list.                             *)
LEMMA SeqIs ==
    ASSUME NEW S, NEW m \in Nat, NEW f \in [1..m -> S]
    PROVE  f \in Seq(S) /\ Len(f) = m
    OBVIOUS

LEMMA SeqFacts ==
    ASSUME NEW S, NEW s \in Seq(S)
    PROVE  /\ DOMAIN s = 1..Len(s) /\ Len(s) \in Nat
           /\ \A i \in 1..Len(s) : s[i] \in S
           /\ Range(s) = {s[i] : i \in 1..Len(s)} /\ Range(s) \subseteq S
<1>1. DOMAIN s = 1..Len(s) /\ Len(s) \in Nat /\ \A i \in 1..Len(s) : s[i] \in S
    OBVIOUS
<1> QED BY <1>1 DEF Range

(* s without its p-th member.                                              *)
Skip(s, p) == [k \in 1..(Len(s) - 1) |-> IF k < p THEN s[k] ELSE s[k + 1]]

LEMMA SkipFacts ==
    ASSUME NEW S, NEW s \in Seq(S), IsInjective(s), NEW p \in 1..Len(s), NEW t, t = Skip(s, p)
    PROVE  /\ t \in Seq(S \ {s[p]}) /\ Len(t) = Len(s) - 1
           /\ \A k \in 1..(Len(s) - 1) : t[k] = IF k < p THEN s[k] ELSE s[k + 1]
           /\ IsInjective(t) /\ Range(t) = Range(s) \ {s[p]}
<1> DEFINE n == Len(s)
<1>1. n \in Nat /\ p \in Nat /\ p >= 1 /\ p <= n /\ n - 1 \in Nat
    OBVIOUS
<1>2. ASSUME NEW k \in 1..(n - 1)
      PROVE  LET a == IF k < p THEN k ELSE k + 1
             IN  a \in 1..n /\ a # p /\ t[k] = s[a] /\ t[k] \in S \ {s[p]}
  <2> DEFINE a == IF k < p THEN k ELSE k + 1
  <2>1. a \in 1..n /\ a # p
    BY <1>1
  <2>2. t[k] = s[a]
    BY DEF Skip
  <2>3. s[a] # s[p]
    BY <2>1 DEF IsInjective
  <2> QED BY <2>1, <2>2, <2>3
<1>3. t \in Seq(S \ {s[p]}) /\ Len(t) = n - 1
  <2>1. t = [k \in 1..(n - 1) |-> t[k]]
    BY DEF Skip
  <2>2. \A k \in 1..(n - 1) : t[k] \in S \ {s[p]}
    BY <1>2
  <2>3. t \in [1..(n - 1) -> S \ {s[p]}]
    BY <2>1, <2>2
  <2> QED BY <1>1, <2>3
<1>4. \A k \in 1..(n - 1) : t[k] = IF k < p THEN s[k] ELSE s[k + 1]
    BY DEF Skip
<1>5. ASSUME NEW i \in 1..Len(t), NEW j \in 1..Len(t), t[i] = t[j] PROVE i = j
  <2> DEFINE a == IF i < p THEN i ELSE i + 1
             b == IF j < p THEN j ELSE j + 1
  <2>1. a \in 1..n /\ b \in 1..n /\ s[a] = s[b]
    <3>1. i \in 1..(n - 1) /\ j \in 1..(n - 1)
      BY <1>1, <1>3
    <3>2. t[i] = s[a] /\ a \in 1..n
      BY <1>1, <1>4, <3>1
    <3>3. t[j] = s[b] /\ b \in 1..n
      BY <1>1, <1>4, <3>1
    <3> HIDE DEF a, b
    <3> QED BY <1>5, <3>2, <3>3
  <2>2. a = b
    BY <2>1 DEF IsInjective
  <2> QED BY <1>1, <1>3, <2>2
<1>6. Range(t) = Range(s) \ {s[p]}
  <2>1. DOMAIN t = 1..(n - 1) /\ DOMAIN s = 1..n
    BY <1>1, <1>3
  <2>2. ASSUME NEW k \in 1..(n - 1) PROVE t[k] \in Range(s) \ {s[p]}
    BY <1>2, <2>1 DEF Range
  <2>3. ASSUME NEW i \in 1..n, s[i] # s[p] PROVE s[i] \in Range(t)
    <3>1. i # p
      BY <2>3
    <3> DEFINE k == IF i < p THEN i ELSE i - 1
    <3>2. k \in 1..(n - 1) /\ (IF k < p THEN k ELSE k + 1) = i
      BY <1>1, <3>1
    <3> HIDE DEF k
    <3>3. t[k] = s[i]
      BY <1>4, <3>2
    <3> QED BY <2>1, <3>2, <3>3 DEF Range
  <2>4. Range(t) \subseteq Range(s) \ {s[p]}
    BY <2>1, <2>2 DEF Range
  <2>5. Range(s) \ {s[p]} \subseteq Range(t)
    BY <2>1, <2>3 DEF Range
  <2> QED BY <2>4, <2>5
<1>7. IsInjective(t)
  <2>1. DOMAIN t = 1..Len(t)
    BY <1>3
  <2> QED BY <1>5, <2>1 DEF IsInjective
<1> QED BY <1>3, <1>4, <1>6, <1>7

-----------------------------------------------------------------------------
(***************************************************************************)
(* WithoutAll.  kept is defined by recursion, so that it exists has to be  *)
(* shown first; then w is what is left of the first n members if n of the  *)
(* walk is done, which pos witnesses: it tells where in the list each      *)
(* member of w was.                                                        *)
(***************************************************************************)
KeptNext(s, gone, w, i) == IF s[i] \in gone THEN w ELSE Append(w, s[i])

IsKept(s, gone, f, n) ==
    f = [i \in 0..n |-> IF i = 0 THEN <<>> ELSE KeptNext(s, gone, f[i - 1], i)]

(* The function that WithoutAll chooses exists, for every length.          *)
LEMMA KeptExists ==
    ASSUME NEW s, NEW gone, NEW n \in Nat
    PROVE  \E f : IsKept(s, gone, f, n)
<1> DEFINE T == {m \in Nat : ~ \E f : IsKept(s, gone, f, m)}
<1>1. SUFFICES ASSUME T # {} PROVE FALSE
    OBVIOUS
<1>2. PICK m \in T : \A k \in T : m <= k
    BY <1>1, NatMin
<1>3. m # 0
  <2> DEFINE f == [i \in 0..0 |-> <<>>]
  <2>1. f = [i \in 0..0 |-> IF i = 0 THEN <<>> ELSE KeptNext(s, gone, f[i - 1], i)]
    OBVIOUS
  <2>2. IsKept(s, gone, f, 0)
    BY <2>1 DEF IsKept
  <2> QED BY <2>2
<1>4. m - 1 \in Nat /\ m - 1 \notin T
    BY <1>2, <1>3
<1>5. PICK f : IsKept(s, gone, f, m - 1)
    BY <1>4
<1> DEFINE g == [i \in 0..m |-> IF i = m THEN KeptNext(s, gone, f[m - 1], m) ELSE f[i]]
<1>6. ASSUME NEW i \in 0..m
      PROVE  g[i] = IF i = 0 THEN <<>> ELSE KeptNext(s, gone, g[i - 1], i)
  <2>1. CASE i = m
    BY <1>3, <1>4, <2>1
  <2>2. CASE i # m
    <3>1. i \in 0..(m - 1) /\ (i # 0 => i - 1 \in 0..m /\ i - 1 # m)
      BY <1>4, <2>2
    <3>2. f[i] = IF i = 0 THEN <<>> ELSE KeptNext(s, gone, f[i - 1], i)
      BY <1>5, <3>1 DEF IsKept
    <3> QED BY <2>2, <3>1, <3>2
  <2> QED BY <2>1, <2>2
<1>7. IsKept(s, gone, g, m)
    BY <1>6 DEF IsKept
<1> QED BY <1>2, <1>7

(* So WithoutAll returns the value of such a function.                     *)
LEMMA WithoutAllIsKept ==
    ASSUME NEW s, NEW gone, Len(s) \in Nat
    PROVE  \E f : IsKept(s, gone, f, Len(s)) /\ WithoutAll(s, gone) = f[Len(s)]
<1> DEFINE f == CHOOSE g : IsKept(s, gone, g, Len(s))
<1>1. IsKept(s, gone, f, Len(s))
    BY KeptExists
<1>2. WithoutAll(s, gone) = f[Len(s)]
    BY DEF WithoutAll, IsKept, KeptNext
<1> QED BY <1>1, <1>2

(* w is a list without gone, of the first n members of s.                  *)
IsWithout(S, s, gone, n, w) ==
    /\ w \in Seq(S)
    /\ \E pos \in [1..Len(w) -> 1..n] :
          /\ \A k \in 1..Len(w) : w[k] = s[pos[k]] /\ w[k] \notin gone
          /\ \A k, l \in 1..Len(w) : k < l => pos[k] < pos[l]
          /\ \A i \in 1..n : s[i] \notin gone => \E k \in 1..Len(w) : pos[k] = i

(* One more element at the end of the list is kept or dropped.             *)
LEMMA KeptStep ==
    ASSUME NEW S, NEW s \in Seq(S), NEW gone, NEW i \in 1..Len(s), NEW w,
           IsWithout(S, s, gone, i - 1, w)
    PROVE  IsWithout(S, s, gone, i, KeptNext(s, gone, w, i))
<1>1. /\ i \in Nat /\ i - 1 \in Nat /\ Len(s) \in Nat /\ s[i] \in S
      /\ w \in Seq(S) /\ Len(w) \in Nat
    BY DEF IsWithout
<1>2. PICK pos \in [1..Len(w) -> 1..(i - 1)] :
          /\ \A k \in 1..Len(w) : w[k] = s[pos[k]] /\ w[k] \notin gone
          /\ \A k, l \in 1..Len(w) : k < l => pos[k] < pos[l]
          /\ \A j \in 1..(i - 1) : s[j] \notin gone => \E k \in 1..Len(w) : pos[k] = j
    BY DEF IsWithout
<1>3. CASE s[i] \in gone
  <2>1. pos \in [1..Len(w) -> 1..i]
    BY <1>1
  <2>2. \A j \in 1..i : s[j] \notin gone => \E k \in 1..Len(w) : pos[k] = j
    BY <1>1, <1>2, <1>3
  <2>3. IsWithout(S, s, gone, i, w)
    BY <1>1, <1>2, <2>1, <2>2 DEF IsWithout
  <2> QED BY <1>3, <2>3 DEF KeptNext
<1>4. CASE s[i] \notin gone
  <2> DEFINE v == Append(w, s[i])
             new == [k \in 1..(Len(w) + 1) |-> IF k = Len(w) + 1 THEN i ELSE pos[k]]
  <2>1. /\ v \in Seq(S) /\ Len(v) = Len(w) + 1 /\ v[Len(w) + 1] = s[i]
        /\ \A k \in 1..Len(w) : v[k] = w[k]
    BY <1>1
  <2>2. /\ new \in [1..Len(v) -> 1..i] /\ new[Len(v)] = i
        /\ \A k \in 1..Len(w) : new[k] = pos[k] /\ pos[k] \in 1..(i - 1)
    <3>1. \A k \in 1..Len(w) : pos[k] \in 1..(i - 1) /\ pos[k] \in 1..i
      BY <1>1
    <3>2. \A k \in 1..(Len(w) + 1) : k = Len(w) + 1 \/ k \in 1..Len(w)
      BY <1>1
    <3>3. /\ \A k \in 1..(Len(w) + 1) : new[k] = IF k = Len(w) + 1 THEN i ELSE pos[k]
          /\ DOMAIN new = 1..(Len(w) + 1) /\ new = [k \in 1..(Len(w) + 1) |-> new[k]]
      OBVIOUS
    <3>4. \A k \in 1..Len(w) : k \in 1..(Len(w) + 1) /\ k # Len(w) + 1
      BY <1>1
    <3>5. Len(w) + 1 \in 1..(Len(w) + 1) /\ i \in 1..i
      BY <1>1
    <3> HIDE DEF new, v
    <3>6. \A k \in 1..(Len(w) + 1) : new[k] \in 1..i
      BY <3>1, <3>2, <3>3, <3>5
    <3> QED BY <2>1, <3>1, <3>3, <3>4, <3>5, <3>6
  <2>3. \A k \in 1..Len(v) : k = Len(v) \/ k \in 1..Len(w)
    BY <1>1, <2>1
  <2> HIDE DEF v, new
  <2>4. \A k \in 1..Len(v) : v[k] = s[new[k]] /\ v[k] \notin gone
    BY <1>2, <1>4, <2>1, <2>2, <2>3
  <2>5. \A k, l \in 1..Len(v) : k < l => new[k] < new[l]
    <3>1. SUFFICES ASSUME NEW k \in 1..Len(v), NEW l \in 1..Len(v), k < l
                   PROVE  new[k] < new[l]
      OBVIOUS
    <3>2. k \in 1..Len(w)
      BY <1>1, <2>1, <3>1
    <3>3. CASE l = Len(v)
      BY <1>1, <2>2, <3>2, <3>3
    <3>4. CASE l \in 1..Len(w)
      BY <1>2, <2>2, <3>1, <3>2, <3>4
    <3> QED BY <2>3, <3>3, <3>4
  <2>6. \A j \in 1..i : s[j] \notin gone => \E k \in 1..Len(v) : new[k] = j
    <3>1. SUFFICES ASSUME NEW j \in 1..i, s[j] \notin gone
                   PROVE  \E k \in 1..Len(v) : new[k] = j
      OBVIOUS
    <3>2. CASE j = i
      <4>1. Len(v) \in 1..Len(v)
        BY <1>1, <2>1
      <4> QED BY <2>2, <3>2, <4>1
    <3>3. CASE j # i
      <4>1. j \in 1..(i - 1)
        BY <1>1, <3>3
      <4>2. PICK k \in 1..Len(w) : pos[k] = j
        BY <1>2, <3>1, <4>1
      <4>3. k \in 1..Len(v)
        BY <1>1, <2>1
      <4> QED BY <2>2, <4>2, <4>3
    <3> QED BY <3>2, <3>3
  <2>7. IsWithout(S, s, gone, i, v)
    BY <2>1, <2>2, <2>4, <2>5, <2>6 DEF IsWithout
  <2> QED BY <1>4, <2>7 DEF KeptNext, v
<1> QED BY <1>3, <1>4

(* What WithoutAll is: the members that are not gone, in their order.      *)
LEMMA WithoutAllOK ==
    ASSUME NEW S, NEW s \in Seq(S), NEW gone
    PROVE  IsWithout(S, s, gone, Len(s), WithoutAll(s, gone))
<1>0. Len(s) \in Nat
    OBVIOUS
<1>1. PICK f : IsKept(s, gone, f, Len(s)) /\ WithoutAll(s, gone) = f[Len(s)]
    BY <1>0, WithoutAllIsKept
<1>2. \A i \in 0..Len(s) : f[i] = IF i = 0 THEN <<>> ELSE KeptNext(s, gone, f[i - 1], i)
    BY <1>1 DEF IsKept
<1> DEFINE T == {i \in Nat : i <= Len(s) /\ ~IsWithout(S, s, gone, i, f[i])}
<1>3. T = {}
  <2>1. SUFFICES ASSUME T # {} PROVE FALSE
    OBVIOUS
  <2>2. PICK i \in T : \A k \in T : i <= k
    <3>1. T \subseteq Nat
      OBVIOUS
    <3> QED BY <2>1, <3>1, NatMin
  <2>3. CASE i = 0
    <3>1. f[0] = <<>>
      BY <1>0, <1>2
    <3>2. IsWithout(S, s, gone, 0, <<>>)
      <4> DEFINE w == <<>>
                 pos == [k \in 1..Len(w) |-> 1]
      <4>1. w \in Seq(S) /\ Len(w) = 0
        OBVIOUS
      <4>2. pos \in [1..Len(w) -> 1..0]
        BY <4>1
      <4> HIDE DEF w, pos
      <4>3. \A k \in 1..Len(w) : FALSE
        BY <4>1
      <4>4. \A j \in 1..0 : FALSE
        OBVIOUS
      <4>5. \E p \in [1..Len(w) -> 1..0] :
                /\ \A k \in 1..Len(w) : w[k] = s[p[k]] /\ w[k] \notin gone
                /\ \A k, l \in 1..Len(w) : k < l => p[k] < p[l]
                /\ \A j \in 1..0 : s[j] \notin gone => \E k \in 1..Len(w) : p[k] = j
        BY <4>2, <4>3, <4>4, Zenon
      <4>6. IsWithout(S, s, gone, 0, w)
        BY <4>1, <4>5 DEF IsWithout
      <4> QED BY <4>6 DEF w
    <3> QED BY <2>3, <3>1, <3>2
  <2>4. CASE i # 0
    <3>1. i \in 1..Len(s) /\ i - 1 \in Nat /\ i - 1 <= Len(s) /\ ~(i <= i - 1)
      BY <1>0, <2>4
    <3>2. i - 1 \notin T
      BY <2>2, <3>1
    <3>3. IsWithout(S, s, gone, i - 1, f[i - 1])
      BY <3>1, <3>2
    <3>4. f[i] = KeptNext(s, gone, f[i - 1], i)
      BY <1>0, <1>2, <2>4, <3>1
    <3>5. IsWithout(S, s, gone, i, f[i])
      BY <3>1, <3>3, <3>4, KeptStep
    <3> QED BY <3>5
  <2> QED BY <2>3, <2>4
<1> QED BY <1>0, <1>1, <1>3

(* The same as sets, and without positions.                                *)
LEMMA WithoutAllFacts ==
    ASSUME NEW S, NEW s \in Seq(S), NEW gone
    PROVE  LET w == WithoutAll(s, gone)
           IN  /\ w \in Seq(S)
               /\ {w[k] : k \in 1..Len(w)} = {s[i] : i \in 1..Len(s)} \ gone
               /\ (\A i, j \in 1..Len(s) : s[i] = s[j] => i = j)
                     => \A k, l \in 1..Len(w) : w[k] = w[l] => k = l
<1> DEFINE w == WithoutAll(s, gone)
<1>1. IsWithout(S, s, gone, Len(s), w)
    BY WithoutAllOK
<1> HIDE DEF w
<1>2. w \in Seq(S) /\ Len(w) \in Nat /\ Len(s) \in Nat
    BY <1>1 DEF IsWithout
<1>3. PICK pos \in [1..Len(w) -> 1..Len(s)] :
          /\ \A k \in 1..Len(w) : w[k] = s[pos[k]] /\ w[k] \notin gone
          /\ \A k, l \in 1..Len(w) : k < l => pos[k] < pos[l]
          /\ \A i \in 1..Len(s) : s[i] \notin gone => \E k \in 1..Len(w) : pos[k] = i
    BY <1>1 DEF IsWithout
<1>4. \A k \in 1..Len(w) : pos[k] \in 1..Len(s)
    OBVIOUS
<1>5. {w[k] : k \in 1..Len(w)} = {s[i] : i \in 1..Len(s)} \ gone
  <2>1. ASSUME NEW k \in 1..Len(w) PROVE w[k] \in {s[i] : i \in 1..Len(s)} \ gone
    BY <1>3, <1>4
  <2>2. ASSUME NEW i \in 1..Len(s), s[i] \notin gone PROVE s[i] \in {w[k] : k \in 1..Len(w)}
    <3>1. PICK k \in 1..Len(w) : pos[k] = i
      BY <1>3, <2>2
    <3> QED BY <1>3, <3>1
  <2> QED BY <2>1, <2>2
<1>6. ASSUME \A i, j \in 1..Len(s) : s[i] = s[j] => i = j,
             NEW k \in 1..Len(w), NEW l \in 1..Len(w), w[k] = w[l]
      PROVE  k = l
  <2>1. s[pos[k]] = s[pos[l]] /\ pos[k] \in 1..Len(s) /\ pos[l] \in 1..Len(s)
    BY <1>3, <1>4, <1>6
  <2> DEFINE a == pos[k]
             b == pos[l]
  <2> HIDE DEF a, b
  <2>2. \A i, j \in 1..Len(s) : s[i] = s[j] => i = j
    BY <1>6
  <2>3. a = b
    BY <2>1, <2>2 DEF a, b
  <2>4. pos[k] = pos[l] /\ pos[k] \in Nat
    BY <2>1, <2>3 DEF a, b
  <2>5. ~ (k < l) /\ ~ (l < k)
    BY <1>3, <2>4
  <2> QED BY <1>2, <2>5
<1> QED BY <1>2, <1>5, <1>6 DEF w

-----------------------------------------------------------------------------
(***************************************************************************)
(* FlattenSeq.  flat is defined by recursion, so that it exists has to be  *)
(* shown first; then w is what the first n lists have in all, which from   *)
(* witnesses: it tells in which list, and where in it, each member was.    *)
(***************************************************************************)
IsFlat(q, f, n) == f = [i \in 1..n |-> IF i = 1 THEN q[i] ELSE f[i - 1] \o q[i]]

(* The function that FlattenSeq chooses exists, for every length.          *)
LEMMA FlatExists ==
    ASSUME NEW q, NEW n \in Nat
    PROVE  \E f : IsFlat(q, f, n)
<1> DEFINE T == {m \in Nat : ~ \E f : IsFlat(q, f, m)}
<1>1. SUFFICES ASSUME T # {} PROVE FALSE
    OBVIOUS
<1>2. PICK m \in T : \A k \in T : m <= k
    BY <1>1, NatMin
<1>3. m # 0
  <2> DEFINE f == [i \in 1..0 |-> <<>>]
  <2>1. f = [i \in 1..0 |-> IF i = 1 THEN q[i] ELSE f[i - 1] \o q[i]]
    OBVIOUS
  <2>2. IsFlat(q, f, 0)
    BY <2>1 DEF IsFlat
  <2> QED BY <2>2
<1>4. m - 1 \in Nat /\ m - 1 \notin T
    BY <1>2, <1>3
<1>5. PICK f : IsFlat(q, f, m - 1)
    BY <1>4
<1> DEFINE g == [i \in 1..m |-> IF i = 1 THEN q[1] ELSE IF i = m THEN f[m - 1] \o q[m] ELSE f[i]]
<1>6. ASSUME NEW i \in 1..m
      PROVE  g[i] = IF i = 1 THEN q[i] ELSE g[i - 1] \o q[i]
  <2>1. CASE i = 1
    BY <2>1
  <2>2. CASE i # 1
    <3>1. i - 1 \in 1..(m - 1) /\ i - 1 \in 1..m /\ i - 1 # m
      BY <1>4, <2>2
    <3>2. \A j \in 1..(m - 1) : f[j] = IF j = 1 THEN q[j] ELSE f[j - 1] \o q[j]
      BY <1>5 DEF IsFlat
    <3>3. g[i - 1] = f[i - 1]
      BY <3>1, <3>2
    <3>4. i # m => i \in 1..(m - 1)
      BY <1>4
    <3> QED BY <2>2, <3>1, <3>2, <3>3, <3>4
  <2> QED BY <2>1, <2>2
<1>7. IsFlat(q, g, m)
    BY <1>6 DEF IsFlat
<1> QED BY <1>2, <1>7

(* w is what the first n lists of q have, list by list.                    *)
IsTakenFrom(q, n, w, lst, at) ==
    /\ \A k \in 1..Len(w) : /\ lst[k] \in 1..n
                            /\ at[k] \in 1..Len(q[lst[k]])
                            /\ w[k] = q[lst[k]][at[k]]
    /\ \A k, l \in 1..Len(w) : lst[k] = lst[l] /\ at[k] = at[l] => k = l
    /\ \A i \in 1..n : \A j \in 1..Len(q[i]) :
          \E k \in 1..Len(w) : lst[k] = i /\ at[k] = j

IsJoined(S, q, n, w) ==
    /\ w \in Seq(S)
    /\ \E lst, at \in [1..Len(w) -> Nat] : IsTakenFrom(q, n, w, lst, at)

(* The first list alone.                                                   *)
LEMMA JoinedFirst ==
    ASSUME NEW S, NEW q \in Seq(Seq(S)), Len(q) # 0
    PROVE  IsJoined(S, q, 1, q[1])
<1> DEFINE w == q[1]
           lst == [k \in 1..Len(w) |-> 1]
           at == [k \in 1..Len(w) |-> k]
<1>1. w \in Seq(S) /\ Len(w) \in Nat
    OBVIOUS
<1>2. lst \in [1..Len(w) -> Nat] /\ at \in [1..Len(w) -> Nat]
    BY <1>1
<1>3. \A k \in 1..Len(w) : lst[k] = 1 /\ at[k] = k
    OBVIOUS
<1> HIDE DEF lst, at
<1>4. \A k \in 1..Len(w) : /\ lst[k] \in 1..1
                           /\ at[k] \in 1..Len(q[lst[k]])
                           /\ w[k] = q[lst[k]][at[k]]
    BY <1>3
<1>5. \A k, l \in 1..Len(w) : lst[k] = lst[l] /\ at[k] = at[l] => k = l
    BY <1>3
<1>6. \A i \in 1..1 : \A j \in 1..Len(q[i]) : \E k \in 1..Len(w) : lst[k] = i /\ at[k] = j
    BY <1>3
<1> HIDE DEF w
<1>7. IsTakenFrom(q, 1, w, lst, at)
    BY <1>4, <1>5, <1>6 DEF IsTakenFrom
<1>8. IsJoined(S, q, 1, w)
    BY <1>1, <1>2, <1>7 DEF IsJoined
<1> QED BY <1>8 DEF w

(* One more list at the end.                                               *)
LEMMA JoinedStep ==
    ASSUME NEW S, NEW q \in Seq(Seq(S)), NEW n \in 2..Len(q), NEW w, IsJoined(S, q, n - 1, w)
    PROVE  IsJoined(S, q, n, w \o q[n])
<1> DEFINE v == w \o q[n]
           m == Len(w)
<1>1. PICK lst \in [1..m -> Nat], at \in [1..m -> Nat] :
          /\ \A k \in 1..m : /\ lst[k] \in 1..(n - 1)
                             /\ at[k] \in 1..Len(q[lst[k]])
                             /\ w[k] = q[lst[k]][at[k]]
          /\ \A k, l \in 1..m : lst[k] = lst[l] /\ at[k] = at[l] => k = l
          /\ \A i \in 1..(n - 1) : \A j \in 1..Len(q[i]) :
                \E k \in 1..m : lst[k] = i /\ at[k] = j
    BY DEF IsJoined, IsTakenFrom
<1>2. /\ w \in Seq(S) /\ m \in Nat /\ q[n] \in Seq(S) /\ Len(q[n]) \in Nat
      /\ n \in Nat /\ n - 1 \in Nat
    BY DEF IsJoined
<1>3. /\ v \in Seq(S) /\ Len(v) = m + Len(q[n])
      /\ \A k \in 1..m : v[k] = w[k]
      /\ \A j \in 1..Len(q[n]) : v[m + j] = q[n][j]
    BY <1>2
<1> DEFINE lst2 == [k \in 1..Len(v) |-> IF k <= m THEN lst[k] ELSE n]
           at2 == [k \in 1..Len(v) |-> IF k <= m THEN at[k] ELSE k - m]
<1> HIDE DEF v, m
<1>4. \A k \in 1..Len(v) : /\ k <= m => k \in 1..m
                           /\ ~(k <= m) => k - m \in 1..Len(q[n]) /\ k = m + (k - m)
    BY <1>2, <1>3
<1>5. \A k \in 1..Len(v) : /\ k <= m => lst2[k] = lst[k] /\ at2[k] = at[k]
                           /\ ~(k <= m) => lst2[k] = n /\ at2[k] = k - m
    OBVIOUS
<1>6. lst2 \in [1..Len(v) -> Nat] /\ at2 \in [1..Len(v) -> Nat]
  <2>1. \A k \in 1..Len(v) : (IF k <= m THEN lst[k] ELSE n) \in Nat
    BY <1>2, <1>4
  <2>2. \A k \in 1..Len(v) : (IF k <= m THEN at[k] ELSE k - m) \in Nat
    BY <1>2, <1>4
  <2> QED BY <2>1, <2>2
<1> HIDE DEF lst2, at2
<1>7. ASSUME NEW k \in 1..Len(v)
      PROVE  /\ lst2[k] \in 1..n
             /\ at2[k] \in 1..Len(q[lst2[k]])
             /\ v[k] = q[lst2[k]][at2[k]]
  <2>1. CASE k <= m
    <3>1. k \in 1..m /\ lst2[k] = lst[k] /\ at2[k] = at[k]
      BY <1>4, <1>5, <2>1
    <3>2. lst[k] \in 1..(n - 1) /\ at[k] \in 1..Len(q[lst[k]]) /\ w[k] = q[lst[k]][at[k]]
      BY <1>1, <3>1
    <3>3. v[k] = w[k]
      BY <1>3, <3>1
    <3>4. lst[k] \in 1..n
      <4>1. \A i \in 1..(n - 1) : i \in 1..n
        BY <1>2
      <4>2. lst[k] \in 1..(n - 1)
        BY <1>1, <3>1
      <4> QED BY <4>1, <4>2, Zenon
    <3>5. lst2[k] \in 1..n
      BY <3>1, <3>4
    <3>6. at2[k] \in 1..Len(q[lst2[k]])
      BY <3>1, <3>2, Zenon
    <3>7. v[k] = q[lst2[k]][at2[k]]
      BY <3>1, <3>2, <3>3, Zenon
    <3> QED BY <3>5, <3>6, <3>7
  <2>2. CASE ~(k <= m)
    <3>1. lst2[k] = n /\ at2[k] = k - m /\ k - m \in 1..Len(q[n]) /\ k = m + (k - m)
      BY <1>4, <1>5, <2>2
    <3>2. v[m + (k - m)] = q[n][k - m]
      BY <1>3, <3>1
    <3>3. n \in 1..n
      BY <1>2
    <3>4. v[k] = q[n][k - m]
      BY <3>1, <3>2
    <3> QED BY <3>1, <3>3, <3>4
  <2> QED BY <2>1, <2>2
<1>8. ASSUME NEW k \in 1..Len(v), NEW l \in 1..Len(v), lst2[k] = lst2[l], at2[k] = at2[l]
      PROVE  k = l
  <2>1. CASE k <= m /\ l <= m
    <3>1. /\ k \in 1..m /\ lst2[k] = lst[k] /\ at2[k] = at[k]
          /\ l \in 1..m /\ lst2[l] = lst[l] /\ at2[l] = at[l]
      BY <1>4, <1>5, <2>1
    <3>2. lst[k] = lst[l] /\ at[k] = at[l]
      BY <1>8, <3>1
    <3> QED BY <1>1, <3>1, <3>2
  <2>2. CASE ~(k <= m) /\ ~(l <= m)
    <3>1. k - m = l - m
      BY <1>5, <1>8, <2>2
    <3> QED BY <1>2, <1>3, <3>1
  <2>3. ASSUME NEW x \in 1..Len(v), NEW y \in 1..Len(v), x <= m, ~(y <= m), lst2[x] = lst2[y]
        PROVE  FALSE
    <3>1. x \in 1..m /\ lst2[x] = lst[x]
      BY <1>4, <1>5, <2>3
    <3>2. lst[x] \in 1..(n - 1)
      BY <1>1, <3>1
    <3>3. lst2[y] = n
      BY <1>5, <2>3
    <3>4. lst[x] = n
      BY <2>3, <3>1, <3>3
    <3> QED BY <1>2, <3>2, <3>4
  <2> QED BY <1>8, <2>1, <2>2, <2>3
<1>9. ASSUME NEW i \in 1..n, NEW j \in 1..Len(q[i])
      PROVE  \E k \in 1..Len(v) : lst2[k] = i /\ at2[k] = j
  <2>1. CASE i = n
    <3>1. m + j \in 1..Len(v) /\ (m + j) - m = j /\ ~(m + j <= m)
      BY <1>2, <1>3, <2>1
    <3> QED BY <1>5, <2>1, <3>1
  <2>2. CASE i # n
    <3>1. i \in 1..(n - 1)
      BY <1>2, <2>2
    <3>2. PICK k \in 1..m : lst[k] = i /\ at[k] = j
      BY <1>1, <3>1
    <3>3. k \in 1..Len(v) /\ k <= m
      BY <1>2, <1>3
    <3> QED BY <1>5, <3>2, <3>3
  <2> QED BY <2>1, <2>2
<1>10. IsTakenFrom(q, n, v, lst2, at2)
    BY <1>7, <1>8, <1>9 DEF IsTakenFrom
<1>11. IsJoined(S, q, n, v)
    BY <1>3, <1>6, <1>10 DEF IsJoined
<1> QED BY <1>11 DEF v

(* What FlattenSeq is.                                                     *)
LEMMA FlattenOK ==
    ASSUME NEW S, NEW q \in Seq(Seq(S)), Len(q) # 0
    PROVE  IsJoined(S, q, Len(q), FlattenSeq(q))
<1> DEFINE n == Len(q)
           f == CHOOSE g : IsFlat(q, g, n)
<1>1. n \in Nat \ {0}
    OBVIOUS
<1>2. IsFlat(q, f, n)
  <2>1. \E g : IsFlat(q, g, n)
    BY <1>1, FlatExists
  <2> QED BY <2>1
<1>3. FlattenSeq(q) = f[n]
    BY <1>1 DEF FlattenSeq, IsFlat
<1> HIDE DEF f, n
<1>4. \A i \in 1..n : f[i] = IF i = 1 THEN q[i] ELSE f[i - 1] \o q[i]
    BY <1>2 DEF IsFlat
<1> DEFINE T == {i \in Nat : i \in 1..n /\ ~IsJoined(S, q, i, f[i])}
<1>5. T = {}
  <2>1. SUFFICES ASSUME T # {} PROVE FALSE
    OBVIOUS
  <2>2. PICK i \in T : \A k \in T : i <= k
    <3>1. T \subseteq Nat
      OBVIOUS
    <3> QED BY <2>1, <3>1, NatMin
  <2>3. i \in 1..n /\ ~IsJoined(S, q, i, f[i])
    OBVIOUS
  <2>4. CASE i = 1
    BY <1>4, <2>3, <2>4, JoinedFirst DEF n
  <2>5. CASE i # 1
    <3>1. i \in 2..n /\ i - 1 \in 1..n /\ i - 1 \in Nat /\ ~(i <= i - 1)
      BY <1>1, <2>3, <2>5
    <3>2. IsJoined(S, q, i - 1, f[i - 1])
      BY <2>2, <3>1
    <3>3. f[i] = f[i - 1] \o q[i]
      BY <1>4, <2>3, <2>5
    <3> QED BY <2>3, <3>1, <3>2, <3>3, JoinedStep DEF n
  <2> QED BY <2>4, <2>5
<1>6. n \in 1..n /\ n \notin T
    BY <1>1, <1>5
<1> QED BY <1>3, <1>6 DEF n

(* It starts with the first list.                                          *)
LEMMA FlattenHead ==
    ASSUME NEW S, NEW q \in Seq(Seq(S)), Len(q) # 0, q[1] # <<>>
    PROVE  FlattenSeq(q) \in Seq(S) /\ FlattenSeq(q) # <<>> /\ FlattenSeq(q)[1] = q[1][1]
<1> DEFINE n == Len(q)
           f == CHOOSE g : IsFlat(q, g, n)
<1>1. n \in Nat \ {0} /\ \A i \in 1..n : q[i] \in Seq(S)
    OBVIOUS
<1>2. IsFlat(q, f, n)
  <2>1. \E g : IsFlat(q, g, n)
    BY <1>1, FlatExists
  <2> QED BY <2>1
<1>3. FlattenSeq(q) = f[n]
    BY <1>1 DEF FlattenSeq, IsFlat
<1> HIDE DEF f, n
<1>4. \A i \in 1..n : f[i] = IF i = 1 THEN q[i] ELSE f[i - 1] \o q[i]
    BY <1>2 DEF IsFlat
<1> DEFINE Right(i) == f[i] \in Seq(S) /\ f[i] # <<>> /\ f[i][1] = q[1][1]
           T == {i \in Nat : i \in 1..n /\ ~Right(i)}
<1>5. T = {}
  <2>1. SUFFICES ASSUME T # {} PROVE FALSE
    OBVIOUS
  <2>2. PICK i \in T : \A k \in T : i <= k
    <3>1. T \subseteq Nat
      OBVIOUS
    <3> QED BY <2>1, <3>1, NatMin
  <2>3. i \in 1..n /\ ~Right(i)
    OBVIOUS
  <2>4. CASE i = 1
    BY <1>1, <1>4, <2>3, <2>4
  <2>5. CASE i # 1
    <3>1. i - 1 \in 1..n /\ i - 1 \in Nat /\ ~(i <= i - 1)
      BY <1>1, <2>3, <2>5
    <3>2. Right(i - 1)
      BY <2>2, <3>1
    <3>3. f[i] = f[i - 1] \o q[i] /\ q[i] \in Seq(S)
      BY <1>1, <1>4, <2>3, <2>5
    <3>4. \A a, b \in Seq(S) : a # <<>> => /\ a \o b \in Seq(S) /\ a \o b # <<>>
                                           /\ (a \o b)[1] = a[1]
      OBVIOUS
    <3>5. Right(i)
      BY <3>2, <3>3, <3>4
    <3> QED BY <2>3, <3>5
  <2> QED BY <2>4, <2>5
<1>6. n \in 1..n /\ n \in Nat /\ n \notin T
    BY <1>1, <1>5
<1> QED BY <1>3, <1>6

(* The same as sets: it has what some list has, and nothing twice if no    *)
(* list has anything twice and no two lists have anything in common.       *)
LEMMA FlattenFacts ==
    ASSUME NEW S, NEW q \in Seq(Seq(S))
    PROVE  LET w == FlattenSeq(q)
           IN  /\ w \in Seq(S)
               /\ Range(w) = UNION {Range(q[i]) : i \in 1..Len(q)}
               /\ (/\ \A i \in 1..Len(q) : IsInjective(q[i])
                   /\ \A i, j \in 1..Len(q) : i # j => Range(q[i]) \cap Range(q[j]) = {})
                     => IsInjective(w)
<1> DEFINE w == FlattenSeq(q)
<1>0. \A i \in 1..Len(q) : q[i] \in Seq(S) /\ DOMAIN q[i] = 1..Len(q[i])
    OBVIOUS
<1>1. CASE Len(q) = 0
  <2>1. w = <<>> /\ q = <<>>
    BY <1>1 DEF FlattenSeq
  <2> QED BY <1>1, <2>1 DEF Range, IsInjective
<1>2. CASE Len(q) # 0
  <2>1. IsJoined(S, q, Len(q), w)
    BY <1>2, FlattenOK
  <2> HIDE DEF w
  <2>2. w \in Seq(S) /\ DOMAIN w = 1..Len(w)
    BY <2>1 DEF IsJoined
  <2>3. PICK lst \in [1..Len(w) -> Nat], at \in [1..Len(w) -> Nat] :
          /\ \A k \in 1..Len(w) : /\ lst[k] \in 1..Len(q)
                                  /\ at[k] \in 1..Len(q[lst[k]])
                                  /\ w[k] = q[lst[k]][at[k]]
          /\ \A k, l \in 1..Len(w) : lst[k] = lst[l] /\ at[k] = at[l] => k = l
          /\ \A i \in 1..Len(q) : \A j \in 1..Len(q[i]) :
                \E k \in 1..Len(w) : lst[k] = i /\ at[k] = j
    BY <2>1 DEF IsJoined, IsTakenFrom
  <2>4. Range(w) = UNION {Range(q[i]) : i \in 1..Len(q)}
    <3>1. ASSUME NEW k \in 1..Len(w) PROVE w[k] \in UNION {Range(q[i]) : i \in 1..Len(q)}
      <4>1. lst[k] \in 1..Len(q) /\ at[k] \in 1..Len(q[lst[k]]) /\ w[k] = q[lst[k]][at[k]]
        BY <2>3
      <4>2. w[k] \in Range(q[lst[k]])
        BY <1>0, <4>1 DEF Range
      <4> QED BY <4>1, <4>2
    <3>2. ASSUME NEW i \in 1..Len(q), NEW j \in 1..Len(q[i]) PROVE q[i][j] \in Range(w)
      <4>1. PICK k \in 1..Len(w) : lst[k] = i /\ at[k] = j
        BY <2>3
      <4>2. w[k] = q[i][j]
        BY <2>3, <4>1
      <4> QED BY <2>2, <4>2 DEF Range
    <3>3. Range(w) \subseteq UNION {Range(q[i]) : i \in 1..Len(q)}
      BY <2>2, <3>1 DEF Range
    <3>4. ASSUME NEW i \in 1..Len(q) PROVE Range(q[i]) \subseteq Range(w)
      BY <1>0, <3>2 DEF Range
    <3> QED BY <3>3, <3>4
  <2>5. ASSUME \A i \in 1..Len(q) : IsInjective(q[i]),
               \A i, j \in 1..Len(q) : i # j => Range(q[i]) \cap Range(q[j]) = {},
               NEW k \in 1..Len(w), NEW l \in 1..Len(w), w[k] = w[l]
        PROVE  k = l
    <3> DEFINE a == lst[k]
               b == lst[l]
               x == at[k]
               y == at[l]
    <3>1. /\ a \in 1..Len(q) /\ b \in 1..Len(q) /\ x \in 1..Len(q[a]) /\ y \in 1..Len(q[b])
          /\ w[k] = q[a][x] /\ w[l] = q[b][y]
      BY <2>3
    <3>2. ASSUME a = b, x = y PROVE k = l
      BY <2>3, <3>2
    <3> HIDE DEF a, b, x, y
    <3>3. x \in DOMAIN q[a] /\ y \in DOMAIN q[b] /\ q[a][x] = q[b][y]
      BY <1>0, <2>5, <3>1
    <3>4. a = b
      <4>1. q[a][x] \in Range(q[a]) /\ q[a][x] \in Range(q[b])
        BY <3>3 DEF Range
      <4> QED BY <2>5, <3>1, <4>1
    <3>5. x = y
      <4>1. IsInjective(q[a])
        BY <2>5, <3>1
      <4> QED BY <3>3, <3>4, <4>1 DEF IsInjective
    <3> QED BY <3>2, <3>4, <3>5
  <2> QED BY <2>2, <2>4, <2>5 DEF w, IsInjective
<1> QED BY <1>1, <1>2
-----------------------------------------------------------------------------
(* A list without its first r, where it has r once.                        *)
LEMMA RemoveFirstFacts ==
    ASSUME NEW S, NEW s \in Seq(S), IsInjective(s), NEW r \in Range(s)
    PROVE  /\ RemoveFirst(s, r) \in Seq(S) /\ Len(RemoveFirst(s, r)) = Len(s) - 1
           /\ IsInjective(RemoveFirst(s, r))
           /\ Range(RemoveFirst(s, r)) = Range(s) \ {r}
<1> DEFINE w == RemoveFirst(s, r)
<1>1. PICK p \in 1..Len(s) : s[p] = r
    BY DEF Range
<1>2. \A i \in 1..Len(s) : s[i] = r => i = p
    BY <1>1 DEF IsInjective
<1>3. {i \in 1..Len(s) : s[i] = r} = {p}
    BY <1>1, <1>2
<1>4. Min({i \in 1..Len(s) : s[i] = r}) = p
  <2>1. p \in Nat
    OBVIOUS
  <2> QED BY <1>3, <2>1 DEF Min
<1>5. w = RemoveAt(s, p)
    BY <1>1, <1>3, <1>4 DEF RemoveFirst, SelectInSeq
<1>6. /\ w \in Seq(S) /\ Len(w) = Len(s) - 1
      /\ \A k \in 1..(Len(s) - 1) : w[k] = IF k < p THEN s[k] ELSE s[k + 1]
  <2> DEFINE a == SubSeq(s, 1, p - 1)
             b == SubSeq(s, p + 1, Len(s))
  <2>1. a \in Seq(S) /\ Len(a) = p - 1 /\ \A k \in 1..(p - 1) : a[k] = s[k]
    OBVIOUS
  <2>2. b \in Seq(S) /\ Len(b) = Len(s) - p /\ \A k \in 1..(Len(s) - p) : b[k] = s[p + k]
    OBVIOUS
  <2>3. w = a \o b
    BY <1>5 DEF RemoveAt
  <2>4. p \in Nat /\ Len(s) \in Nat /\ p - 1 \in Nat /\ Len(s) - p \in Nat /\ p >= 1
    OBVIOUS
  <2> HIDE DEF a, b, w
  <2>5. /\ w \in Seq(S) /\ Len(w) = (p - 1) + (Len(s) - p)
        /\ \A k \in 1..(p - 1) : w[k] = a[k]
        /\ \A k \in 1..(Len(s) - p) : w[(p - 1) + k] = b[k]
    <3>1. a \in Seq(S) /\ b \in Seq(S)
      BY <2>1, <2>2
    <3>2. /\ w \in Seq(S) /\ Len(w) = Len(a) + Len(b)
          /\ \A k \in 1..Len(a) : w[k] = a[k]
          /\ \A k \in 1..Len(b) : w[Len(a) + k] = b[k]
      BY <2>3, <3>1
    <3> QED BY <2>1, <2>2, <3>2
  <2>6. ASSUME NEW k \in 1..(Len(s) - 1) PROVE w[k] = IF k < p THEN s[k] ELSE s[k + 1]
    <3>1. CASE k < p
      <4>1. k \in 1..(p - 1)
        BY <2>4, <3>1
      <4> QED BY <2>1, <2>5, <3>1, <4>1
    <3>2. CASE ~(k < p)
      <4>1. /\ k - (p - 1) \in 1..(Len(s) - p) /\ k = (p - 1) + (k - (p - 1))
            /\ p + (k - (p - 1)) = k + 1
        BY <2>4, <3>2
      <4>2. w[k] = b[k - (p - 1)] /\ b[k - (p - 1)] = s[k + 1]
        BY <2>2, <2>5, <4>1
      <4> QED BY <3>2, <4>2
    <3> QED BY <3>1, <3>2
  <2> QED BY <2>4, <2>5, <2>6
<1> HIDE DEF w
<1>7. ASSUME NEW k \in 1..Len(w), NEW l \in 1..Len(w), w[k] = w[l]
      PROVE  k = l
  <2> DEFINE a == IF k < p THEN k ELSE k + 1
             b == IF l < p THEN l ELSE l + 1
  <2>1. a \in 1..Len(s) /\ b \in 1..Len(s) /\ s[a] = s[b]
    <3>1. k \in 1..(Len(s) - 1) /\ l \in 1..(Len(s) - 1)
      BY <1>6
    <3>2. w[k] = s[a] /\ a \in 1..Len(s)
      BY <1>6, <3>1
    <3>3. w[l] = s[b] /\ b \in 1..Len(s)
      BY <1>6, <3>1
    <3> HIDE DEF a, b
    <3> QED BY <1>7, <3>2, <3>3
  <2>2. a = b
    BY <2>1 DEF IsInjective
  <2> QED BY <1>6, <2>2
<1>8. ASSUME NEW k \in 1..Len(w) PROVE w[k] \in Range(s) \ {r}
  <2> DEFINE a == IF k < p THEN k ELSE k + 1
  <2>1. a \in 1..Len(s) /\ w[k] = s[a] /\ a # p
    BY <1>1, <1>6
  <2> HIDE DEF a
  <2>2. s[a] # r
    BY <1>2, <2>1
  <2> QED BY <2>1, <2>2 DEF Range
<1>9. ASSUME NEW i \in 1..Len(s), s[i] # r PROVE \E k \in 1..Len(w) : w[k] = s[i]
  <2>1. i # p
    BY <1>1, <1>9
  <2> DEFINE k == IF i < p THEN i ELSE i - 1
  <2>2. k \in 1..Len(w) /\ w[k] = s[i]
    BY <1>1, <1>6, <2>1
  <2> QED BY <2>2
<1>10. DOMAIN w = 1..Len(w) /\ DOMAIN s = 1..Len(s)
    BY <1>6
<1>11. Range(w) = Range(s) \ {r}
  <2>1. Range(w) \subseteq Range(s) \ {r}
    BY <1>8, <1>10 DEF Range
  <2>2. Range(s) \ {r} \subseteq Range(w)
    BY <1>9, <1>10 DEF Range
  <2> QED BY <2>1, <2>2
<1>12. IsInjective(w)
    BY <1>7, <1>10 DEF IsInjective
<1> QED BY <1>6, <1>11, <1>12 DEF w

(* A list with one more member at the end.                                 *)
LEMMA AppendFacts ==
    ASSUME NEW S, NEW s \in Seq(S), NEW r \in S
    PROVE  /\ Append(s, r) \in Seq(S)
           /\ Range(Append(s, r)) = Range(s) \cup {r}
           /\ IsInjective(s) /\ r \notin Range(s) => IsInjective(Append(s, r))
<1> DEFINE w == Append(s, r)
<1>1. /\ w \in Seq(S) /\ Len(w) = Len(s) + 1 /\ Len(s) \in Nat
      /\ \A k \in 1..Len(s) : w[k] = s[k]
      /\ w[Len(s) + 1] = r
    OBVIOUS
<1> HIDE DEF w
<1>2. DOMAIN w = 1..(Len(s) + 1) /\ DOMAIN s = 1..Len(s)
    BY <1>1
<1>3. \A k \in 1..(Len(s) + 1) : k = Len(s) + 1 \/ k \in 1..Len(s)
    BY <1>1
<1>4. 1..Len(s) \subseteq 1..(Len(s) + 1) /\ Len(s) + 1 \in 1..(Len(s) + 1)
    BY <1>1
<1>5. Range(w) = Range(s) \cup {r}
  <2>1. Range(w) \subseteq Range(s) \cup {r}
    BY <1>1, <1>2, <1>3 DEF Range
  <2>2. Range(s) \cup {r} \subseteq Range(w)
    BY <1>1, <1>2, <1>4 DEF Range
  <2> QED BY <2>1, <2>2
<1>6. ASSUME IsInjective(s), r \notin Range(s) PROVE IsInjective(w)
  <2>1. \A k \in 1..Len(s) : s[k] # r
    BY <1>2, <1>6 DEF Range
  <2>2. \A k, l \in 1..Len(s) : s[k] = s[l] => k = l
    BY <1>2, <1>6 DEF IsInjective
  <2>3. ASSUME NEW k \in 1..(Len(s) + 1), NEW l \in 1..(Len(s) + 1), w[k] = w[l] PROVE k = l
    BY <1>1, <1>3, <2>1, <2>2, <2>3
  <2> QED BY <1>2, <2>3 DEF IsInjective
<1> QED BY <1>1, <1>5, <1>6 DEF w

(* One list behind another.                                                *)
LEMMA ConcatFacts ==
    ASSUME NEW S, NEW s \in Seq(S), NEW t \in Seq(S)
    PROVE  /\ s \o t \in Seq(S)
           /\ Range(s \o t) = Range(s) \cup Range(t)
           /\ IsInjective(s) /\ IsInjective(t) /\ Range(s) \cap Range(t) = {} => IsInjective(s \o t)
<1> DEFINE w == s \o t
           n == Len(s)
<1>1. /\ w \in Seq(S) /\ Len(w) = n + Len(t) /\ n \in Nat /\ Len(t) \in Nat
      /\ \A k \in 1..n : w[k] = s[k]
      /\ \A k \in 1..Len(t) : w[n + k] = t[k]
    OBVIOUS
<1>2. DOMAIN w = 1..(n + Len(t)) /\ DOMAIN s = 1..n /\ DOMAIN t = 1..Len(t)
    BY <1>1
<1> HIDE DEF w, n
<1>3. \A k \in 1..(n + Len(t)) : k \in 1..n \/ (k - n \in 1..Len(t) /\ k = n + (k - n))
    BY <1>1
<1>4. 1..n \subseteq 1..(n + Len(t)) /\ \A k \in 1..Len(t) : n + k \in 1..(n + Len(t))
    BY <1>1
<1>5. \A k \in 1..(n + Len(t)) : k \in 1..n \/ (k - n \in 1..Len(t) /\ w[k] = t[k - n])
    BY <1>1, <1>3
<1>6. Range(w) = Range(s) \cup Range(t)
  <2>1. Range(w) \subseteq Range(s) \cup Range(t)
    BY <1>1, <1>2, <1>5 DEF Range
  <2>2. Range(s) \subseteq Range(w)
    BY <1>1, <1>2, <1>4 DEF Range
  <2>3. Range(t) \subseteq Range(w)
    BY <1>1, <1>2, <1>4 DEF Range
  <2> QED BY <2>1, <2>2, <2>3
<1>7. ASSUME IsInjective(s), IsInjective(t), Range(s) \cap Range(t) = {} PROVE IsInjective(w)
  <2>1. \A k \in 1..n : \A l \in 1..Len(t) : s[k] # t[l]
    BY <1>2, <1>7 DEF Range
  <2>2. \A k, l \in 1..n : s[k] = s[l] => k = l
    BY <1>2, <1>7 DEF IsInjective
  <2>3. \A k, l \in 1..Len(t) : t[k] = t[l] => k = l
    BY <1>2, <1>7 DEF IsInjective
  <2>4. ASSUME NEW k \in 1..(n + Len(t)), NEW l \in 1..(n + Len(t)), w[k] = w[l] PROVE k = l
    <3>1. CASE k \in 1..n /\ l \in 1..n
      BY <1>1, <2>2, <2>4, <3>1
    <3>2. CASE k \in 1..n /\ l \notin 1..n
      BY <1>1, <1>5, <2>1, <2>4, <3>2
    <3>3. CASE k \notin 1..n /\ l \in 1..n
      BY <1>1, <1>5, <2>1, <2>4, <3>3
    <3>4. CASE k \notin 1..n /\ l \notin 1..n
      <4>1. k - n \in 1..Len(t) /\ l - n \in 1..Len(t) /\ t[k - n] = t[l - n]
        BY <1>5, <2>4, <3>4
      <4>2. k - n = l - n
        BY <2>3, <4>1
      <4> QED BY <1>1, <4>2
    <3> QED BY <3>1, <3>2, <3>3, <3>4
  <2> QED BY <1>2, <2>4 DEF IsInjective
<1> QED BY <1>1, <1>6, <1>7 DEF w
=============================================================================
