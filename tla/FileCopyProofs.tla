--------------------------- MODULE FileCopyProofs ---------------------------
(***************************************************************************)
(* Proofs about FileCopy, for any disk, any requests, faults and depth.    *)
(*                                                                         *)
(* The parts of the invariant are predicates of the values they are about: *)
(* d is the disk, c the locals, F the stack of folders and l the place of  *)
(* the copy thread.                                                        *)
(***************************************************************************)
EXTENDS FileCopy, FiniteSetTheorems, SequenceTheorems, TLAPS

FilePcs == {"filedone"} \cup (Unlocked \ {"wait", "woken"})

ItemPcs == FilePcs \cup {"enter", "dir", "failed", "copied"}

Request == [src : Paths, dest : Paths]

Job == [items : Seq(Request), move : BOOLEAN, rename : BOOLEAN, cancel : BOOLEAN,
        index : Nat, copied : Nat, failed : Nat, skipped : Nat, cancelled : BOOLEAN]

Frame == [src : Paths, dest : Paths, i : Nat, count : Nat]

Copy == [src : Paths \cup {<<>>}, dest : Paths \cup {<<>>}, size : Nat, off : Nat,
         buf : Chunks \cup {Junk}, isrc : Paths \cup {<<>>}, idest : Paths \cup {<<>>}]

(***************************************************************************)
(* Jobs: what is counted is what was taken off the list of items.          *)
(***************************************************************************)
Fresh(j) == j.index = 0 /\ j.copied = 0 /\ j.failed = 0 /\ j.skipped = 0

Counted(j) == j.copied + j.failed + j.skipped

JobOK(j, l) ==
    /\ l \in {"wait", "woken", "jobs"} => Fresh(j)
    /\ l = "items" => j.index <= Len(j.items) /\ j.index <= Counted(j)
    /\ l \in ItemPcs => j.index <= Len(j.items) /\ j.index <= Counted(j) + 1
    /\ l = "end" => j.cancelled \/ Len(j.items) <= Counted(j)
    /\ l \in {"filedone", "copied", "dir"} => ~j.cancel

JobsOK(J, l, r) ==
    /\ J \in Seq(Job)
    /\ l \notin {"wait", "woken", "jobs"} => J # <<>>
    /\ J # <<>> => JobOK(J[1], l)
    /\ \A k \in 2..Len(J) : Fresh(J[k])
    /\ r.cancelled \/ r.copied + r.failed + r.skipped >= r.items

(***************************************************************************)
(* The stack: a folder or file being copied and where its copy goes.       *)
(***************************************************************************)
Rebase(a, b, p) == b \o SubSeq(p, Len(a) + 1, Len(p))

RebasedAt(c, p) == Rebase(c.isrc, c.idest, p)

At(c, s, t, k) ==
    /\ s \in Paths /\ t \in Paths
    /\ Len(s) = Len(c.isrc) + k /\ IsPrefix(c.isrc, s) /\ t = RebasedAt(c, s)

(* The copy thread is at a file or about to enter cp.src.                  *)
Entering(l) == l \in FilePcs \cup {"enter"}

StackOK(d, c, F, l) ==
    /\ F \in Seq(Frame) /\ c \in Copy
    /\ l \notin ItemPcs \/ l = "copied" => F = <<>>
    /\ l = "dir" => F # <<>>
    /\ l \in ItemPcs =>
         /\ {c.src, c.dest, c.isrc, c.idest} \subseteq Paths
         /\ ~IsPrefix(c.isrc, c.idest) /\ ~IsPrefix(c.idest, c.isrc)
         /\ \A k \in 1..Len(F) : /\ At(c, F[k].src, F[k].dest, k - 1)
                                 /\ d[F[k].dest].kind = "dir"
         /\ \A k \in 2..Len(F) : Front(F[k].src) = F[k - 1].src
    /\ Entering(l) => /\ At(c, c.src, c.dest, Len(F))
                      /\ F # <<>> => Front(c.src) = F[Len(F)].src
    /\ l \in FilePcs => d[c.dest].kind = "file"

(* Each folder on the stack is above the next ones and above the item the  *)
(* copy thread is at.                                                      *)
Chained(c, F, l) ==
    /\ \A j \in 1..Len(F), k \in 1..Len(F) : j <= k => IsPrefix(F[j].src, F[k].src)
    /\ Entering(l) => \A k \in 1..Len(F) : IsPrefix(F[k].src, c.src)

(***************************************************************************)
(* What the copier created.                                                *)
(***************************************************************************)
OwnOK(d, c, F, l, o) ==
    l \in ItemPcs =>
      /\ \A p \in o : IsPrefix(c.idest, p)
      /\ o # {} => d[c.idest].kind # "none"
      /\ (o # {} \/ F # <<>>) /\ l # "copied" => d[c.idest].rw

(* Nothing else is where the copy goes.                                    *)
OnlyOwn(d, c, l, o) ==
    l \in ItemPcs => \A p \in Paths : IsPrefix(c.idest, p) /\ d[p].kind # "none" => p \in o

(***************************************************************************)
(* What is copied so far.                                                  *)
(***************************************************************************)
EntriesIn(d, p) == {q \in Paths : Len(q) = Len(p) + 1 /\ Front(q) = p /\ d[q].kind # "none"}

IndexIn(d, q) == Cardinality({r \in EntriesIn(d, Front(q)) : Last(r) < Last(q)})

TreeCopied(d, c, q) ==
    \A p \in Paths : IsPrefix(q, p) /\ d[p].kind # "none" =>
        RebasedAt(c, p) \in Paths /\ d[RebasedAt(c, p)] = d[p]

(* The first n entries of a folder are copied.                             *)
FirstCopied(d, c, p, n) ==
    \A q \in EntriesIn(d, p) : IndexIn(d, q) < n => TreeCopied(d, c, q)

(* The entry a folder is at, when it is in the middle of one.              *)
Current(F, c, k) == IF k < Len(F) THEN F[k + 1].src ELSE c.src

FrameExact(d, c, F, l, k) ==
    /\ d[F[k].src].kind = "dir"
    /\ F[k].count = Cardinality(EntriesIn(d, F[k].src))
    /\ IF k = Len(F) /\ l = "dir" THEN FirstCopied(d, c, F[k].src, F[k].i)
       ELSE /\ FirstCopied(d, c, F[k].src, F[k].i - 1)
            /\ d[Current(F, c, k)].kind # "none"
            /\ IndexIn(d, Current(F, c, k)) = F[k].i - 1

SameUpTo(d, c, n) == \A i \in 1..n : d[c.dest].data[i] = d[c.src].data[i]

FileExact(d, c, l) ==
    /\ d[c.src].kind = "file" /\ c.size = Len(d[c.src].data)
    /\ l \in {"trunc", "sized"} => c.off = 0
    /\ l \notin {"trunc", "sized", "iofail"} => Len(d[c.dest].data) = c.size
    /\ l \in {"read", "write", "wrote", "reread", "compare", "compared"} => c.off < c.size
    /\ l = "reread" => SameUpTo(d, c, c.off)
    /\ l = "compare" => SameUpTo(d, c, c.off) /\ c.buf = d[c.src].data[c.off + 1]
    /\ l = "compared" => SameUpTo(d, c, c.off + 1)
    /\ l = "filedone" => d[c.dest].data = d[c.src].data

Exact(d, c, F, l) ==
    l \in ItemPcs \ {"failed", "iofail"} =>
      /\ \A k \in 1..Len(F) : FrameExact(d, c, F, l, k)
      /\ l = "enter" => d[c.src].kind # "none"
      /\ l \in FilePcs => FileExact(d, c, l)
      /\ l = "copied" => TreeCopied(d, c, c.isrc)

(* Every content is in a file that a failed copy does not take away.       *)
Kept(d, l, o) ==
    \A p \in Paths : Disk0[p].kind = "file" =>
        \E q \in Paths : /\ d[q].kind = "file" /\ d[q].data = Disk0[p].data
                         /\ l \in ItemPcs => q \notin o

CopyInv ==
    /\ TypeOK
    /\ IsTree(fs)
    /\ others \in Nat
    /\ JobsOK(jobs, pc, report)
    /\ StackOK(fs, cp, frames, pc)
    /\ Chained(cp, frames, pc)
    /\ OwnOK(fs, cp, frames, pc, own)
    /\ Undisturbed => /\ OnlyOwn(fs, cp, pc, own)
                      /\ Exact(fs, cp, frames, pc)
                      /\ Kept(fs, pc, own)

-----------------------------------------------------------------------------
(***************************************************************************)
(* Paths.                                                                  *)
(***************************************************************************)
LEMMA PathEqual ==
    ASSUME NEW p \in Seq(Nat), NEW q \in Seq(Nat), Len(p) = Len(q),
           \A i \in 1..Len(p) : p[i] = q[i]
    PROVE  p = q
    BY SeqEqual

(* The numbers of a part of a path.                                        *)
LEMMA SubPath ==
    ASSUME NEW p \in Seq(Nat), NEW m \in Nat \ {0}, NEW n \in Nat, n <= Len(p)
    PROVE  /\ SubSeq(p, m, n) \in Seq(Nat)
           /\ Len(SubSeq(p, m, n)) = IF m <= n THEN n - m + 1 ELSE 0
           /\ \A i \in 1..(n - m + 1) : SubSeq(p, m, n)[i] = p[m + i - 1]
<1>1. \A i \in m..n : p[i] \in Nat
    OBVIOUS
<1> QED BY <1>1, SubSeqProperties

(* A prefix is shorter and has the same numbers.                           *)
LEMMA PrefixAt ==
    ASSUME NEW p \in Seq(Nat), NEW q \in Seq(Nat)
    PROVE  IsPrefix(p, q) <=> Len(p) <= Len(q) /\ \A i \in 1..Len(p) : p[i] = q[i]
<1>1. ASSUME IsPrefix(p, q) PROVE Len(p) <= Len(q) /\ \A i \in 1..Len(p) : p[i] = q[i]
  <2>1. Len(p) <= Len(q) /\ SubSeq(p, 1, Len(p)) = SubSeq(q, 1, Len(p))
    BY <1>1 DEF IsPrefix
  <2>2. ASSUME NEW i \in 1..Len(p)
        PROVE  SubSeq(p, 1, Len(p))[i] = p[i] /\ SubSeq(q, 1, Len(p))[i] = q[i]
    BY <2>1
  <2> QED BY <2>1, <2>2
<1>2. ASSUME Len(p) <= Len(q), \A i \in 1..Len(p) : p[i] = q[i] PROVE IsPrefix(p, q)
  BY <1>2 DEF IsPrefix
<1> QED BY <1>1, <1>2

(* What is in a folder inside another is in that one.                      *)
LEMMA PrefixTrans ==
    ASSUME NEW p \in Seq(Nat), NEW q \in Seq(Nat), NEW r \in Seq(Nat),
           IsPrefix(p, q), IsPrefix(q, r)
    PROVE  IsPrefix(p, r)
<1>1. Len(p) <= Len(q) /\ \A i \in 1..Len(p) : p[i] = q[i]
    BY PrefixAt
<1>2. Len(q) <= Len(r) /\ \A i \in 1..Len(q) : q[i] = r[i]
    BY PrefixAt
<1>3. Len(p) <= Len(r) /\ \A i \in 1..Len(p) : p[i] = r[i]
    BY <1>1, <1>2
<1> QED BY <1>3, PrefixAt

(* The folders above an item form a chain.                                 *)
LEMMA PrefixLinear ==
    ASSUME NEW p \in Seq(Nat), NEW q \in Seq(Nat), NEW r \in Seq(Nat),
           IsPrefix(p, r), IsPrefix(q, r), Len(p) <= Len(q)
    PROVE  IsPrefix(p, q) /\ (Len(p) = Len(q) => p = q)
<1>1. Len(p) <= Len(r) /\ \A i \in 1..Len(p) : p[i] = r[i]
    BY PrefixAt
<1>2. Len(q) <= Len(r) /\ \A i \in 1..Len(q) : q[i] = r[i]
    BY PrefixAt
<1>3. \A i \in 1..Len(p) : p[i] = q[i]
    BY <1>1, <1>2
<1>4. IsPrefix(p, q)
    BY <1>3, PrefixAt
<1>5. Len(p) = Len(q) => p = q
    BY <1>3, PathEqual
<1> QED BY <1>4, <1>5

(* Every path is below itself.                                             *)
LEMMA PrefixSelf == \A p \in Seq(Nat) : IsPrefix(p, p)
    BY PrefixAt

(* The folder of an item, and its name.                                    *)
LEMMA FrontOK ==
    ASSUME NEW p \in Seq(Nat), Len(p) > 0
    PROVE  /\ Front(p) \in Seq(Nat) /\ Last(p) \in Nat /\ Len(Front(p)) = Len(p) - 1
           /\ \A i \in 1..(Len(p) - 1) : Front(p)[i] = p[i]
           /\ IsPrefix(Front(p), p)
<1> DEFINE n == Len(p) - 1
<1>1. n \in Nat /\ n <= Len(p) /\ n - 1 + 1 = n /\ p[Len(p)] \in Nat
    OBVIOUS
<1>2. Front(p) = SubSeq(p, 1, n)
    BY DEF Front
<1>3. 1 \in Nat \ {0}
    OBVIOUS
<1> HIDE DEF n
<1>4. /\ SubSeq(p, 1, n) \in Seq(Nat)
      /\ Len(SubSeq(p, 1, n)) = IF 1 <= n THEN n - 1 + 1 ELSE 0
      /\ \A i \in 1..(n - 1 + 1) : SubSeq(p, 1, n)[i] = p[1 + i - 1]
    BY <1>1, <1>3, SubPath
<1>5. Front(p) \in Seq(Nat) /\ Len(Front(p)) = n /\ \A i \in 1..n : Front(p)[i] = p[i]
  <2>1. \A i \in 1..n : 1 + i - 1 = i
    BY <1>1
  <2> QED BY <1>1, <1>2, <1>4, <2>1
<1>6. IsPrefix(Front(p), p)
    BY <1>1, <1>5, PrefixAt
<1> QED BY <1>1, <1>5, <1>6 DEF n, Last

(* An item is known by its folder and its name.                            *)
LEMMA FrontLast ==
    ASSUME NEW p \in Seq(Nat), NEW q \in Seq(Nat), Len(p) > 0, Len(q) > 0,
           Front(p) = Front(q), Last(p) = Last(q)
    PROVE  p = q
<1>1. Len(p) = Len(q)
    BY FrontOK
<1>2. \A i \in 1..(Len(p) - 1) : p[i] = q[i]
    BY <1>1, FrontOK
<1>3. p[Len(p)] = q[Len(p)]
    BY <1>1 DEF Last
<1>4. \A i \in 1..Len(p) : p[i] = q[i]
    BY <1>2, <1>3
<1> QED BY <1>1, <1>4, PathEqual

(* What is below a folder is the folder or below one of its items.         *)
LEMMA PrefixFront ==
    ASSUME NEW p \in Seq(Nat), NEW q \in Seq(Nat), Len(q) > 0, IsPrefix(p, q), p # q
    PROVE  IsPrefix(p, Front(q))
<1>1. Len(p) <= Len(q) /\ \A i \in 1..Len(p) : p[i] = q[i]
    BY PrefixAt
<1>2. Len(p) # Len(q)
    BY <1>1
<1>3. Len(p) <= Len(Front(q)) /\ \A i \in 1..Len(p) : p[i] = Front(q)[i]
    BY <1>1, <1>2, FrontOK
<1> QED BY <1>3, FrontOK, PrefixAt

(* Where an item goes: below the destination what it was below the source. *)
LEMMA RebaseAt ==
    ASSUME NEW a \in Seq(Nat), NEW b \in Seq(Nat),
           NEW p \in Seq(Nat), IsPrefix(a, p)
    PROVE  /\ Rebase(a, b, p) \in Seq(Nat)
           /\ Len(Rebase(a, b, p)) = Len(b) + Len(p) - Len(a)
           /\ \A i \in 1..Len(b) : Rebase(a, b, p)[i] = b[i]
           /\ \A i \in 1..(Len(p) - Len(a)) :
                 Rebase(a, b, p)[Len(b) + i] = p[Len(a) + i]
           /\ IsPrefix(b, Rebase(a, b, p))
<1> DEFINE n == Len(a)
           t == SubSeq(p, n + 1, Len(p))
           r == Rebase(a, b, p)
<1>1. n <= Len(p) /\ n \in Nat
    BY PrefixAt
<1>2. t \in Seq(Nat) /\ Len(t) = Len(p) - n /\ \A i \in 1..(Len(p) - n) : t[i] = p[n + i]
  <2>1. n + 1 \in Nat \ {0} /\ Len(p) \in Nat
    BY <1>1
  <2> HIDE DEF n
  <2>2. /\ t \in Seq(Nat) /\ Len(t) = IF n + 1 <= Len(p) THEN Len(p) - (n + 1) + 1 ELSE 0
        /\ \A i \in 1..(Len(p) - (n + 1) + 1) : t[i] = p[n + 1 + i - 1]
    BY SMTT(30), <2>1, SubPath
  <2> HIDE DEF t, n
  <2>3. \A i \in 1..(Len(p) - n) : n + 1 + i - 1 = n + i
    BY <1>1, <2>1
  <2>4. 1..(Len(p) - (n + 1) + 1) = 1..(Len(p) - n)
    BY <1>1, <2>1
  <2>5. Len(t) = Len(p) - n
    BY <1>1, <2>1, <2>2
  <2> QED BY <2>2, <2>3, <2>4, <2>5
<1> HIDE DEF t
<1>3. r = b \o t
    BY DEF Rebase, t
<1>6. Len(b) \in Nat /\ Len(t) \in Nat
    BY <1>2
<1> HIDE DEF r
<1>4. /\ r \in Seq(Nat) /\ Len(r) = Len(b) + Len(t)
      /\ \A i \in 1..Len(b) : r[i] = b[i]
      /\ \A i \in 1..Len(t) : r[Len(b) + i] = t[i]
  <2>1. /\ r \in Seq(Nat) /\ Len(r) = Len(b) + Len(t)
        /\ \A i \in 1..(Len(b) + Len(t)) :
              r[i] = IF i <= Len(b) THEN b[i] ELSE t[i - Len(b)]
    BY <1>2, <1>3, ConcatProperties
  <2>2. ASSUME NEW i \in 1..Len(t) PROVE r[Len(b) + i] = t[i]
    <3>1. /\ Len(b) + i \in 1..(Len(b) + Len(t))
          /\ Len(b) + i - Len(b) = i /\ ~(Len(b) + i <= Len(b))
      BY <1>6
    <3> QED BY <2>1, <3>1
  <2>3. \A i \in 1..Len(b) : r[i] = b[i]
    BY <1>6, <2>1
  <2> QED BY <2>1, <2>2, <2>3
<1>5. IsPrefix(b, r)
  <2>1. r \in Seq(Nat) /\ Len(b) <= Len(r) /\ \A i \in 1..Len(b) : b[i] = r[i]
    BY <1>4, <1>6
  <2> HIDE <1>4
  <2> QED BY <2>1, PrefixAt
<1> QED BY <1>1, <1>2, <1>4, <1>5 DEF r, n

(* Different items go to different places.                                 *)
LEMMA RebaseInjective ==
    ASSUME NEW a \in Seq(Nat), NEW b \in Seq(Nat),
           NEW p \in Seq(Nat), IsPrefix(a, p), NEW q \in Seq(Nat), IsPrefix(a, q),
           Rebase(a, b, p) = Rebase(a, b, q)
    PROVE  p = q
<1> DEFINE n == Len(a)
           m == Len(b)
           r == Rebase(a, b, p)
<1>1. /\ Len(r) = m + Len(p) - n
      /\ \A i \in 1..(Len(p) - n) : r[m + i] = p[n + i]
    BY RebaseAt
<1>2. /\ Len(r) = m + Len(q) - n
      /\ \A i \in 1..(Len(q) - n) : r[m + i] = q[n + i]
  <2>1. r = Rebase(a, b, q)
    OBVIOUS
  <2> HIDE DEF r
  <2>2. /\ Len(Rebase(a, b, q)) = m + Len(q) - n
        /\ \A i \in 1..(Len(q) - n) : Rebase(a, b, q)[m + i] = q[n + i]
    BY RebaseAt
  <2> QED BY <2>1, <2>2
<1>3. /\ n <= Len(p) /\ \A i \in 1..n : p[i] = a[i]
      /\ n <= Len(q) /\ \A i \in 1..n : q[i] = a[i]
    BY PrefixAt
<1>4. Len(p) \in Nat /\ Len(q) \in Nat /\ n \in Nat /\ m \in Nat
    OBVIOUS
<1> HIDE DEF n, m, r
<1>5. Len(p) = Len(q)
    BY <1>1, <1>2, <1>4
<1>6. ASSUME NEW i \in 1..Len(p) PROVE p[i] = q[i]
  <2>1. CASE i <= n
    BY <1>3, <1>4, <1>5, <2>1
  <2>2. CASE i > n
    <3>1. i - n \in 1..(Len(p) - n) /\ n + (i - n) = i
      BY <1>4, <2>2
    <3> QED BY <1>1, <1>2, <1>5, <3>1
  <2> QED BY <1>4, <2>1, <2>2
<1> QED BY <1>5, <1>6, PathEqual

(* The item itself goes to the destination.                                *)
LEMMA RebaseRoot ==
    ASSUME NEW a \in Seq(Nat), NEW b \in Seq(Nat)
    PROVE  Rebase(a, b, a) = b /\ IsPrefix(a, a)
<1>1. IsPrefix(a, a)
    BY PrefixSelf
<1>2. /\ Rebase(a, b, a) \in Seq(Nat)
      /\ Len(Rebase(a, b, a)) = Len(b) + Len(a) - Len(a)
      /\ \A i \in 1..Len(b) : Rebase(a, b, a)[i] = b[i]
    BY <1>1, RebaseAt
<1>3. Len(b) \in Nat /\ Len(a) \in Nat
    OBVIOUS
<1> QED BY <1>1, <1>2, <1>3, PathEqual

(* An entry of a folder goes into the copy of the folder.                  *)
LEMMA RebaseChild ==
    ASSUME NEW a \in Seq(Nat), NEW b \in Seq(Nat),
           NEW q \in Seq(Nat), Len(q) > 0, IsPrefix(a, Front(q))
    PROVE  /\ Rebase(a, b, q) = Append(Rebase(a, b, Front(q)), Last(q))
           /\ IsPrefix(a, q)
<1> DEFINE n == Len(a)
           m == Len(b)
           p == Front(q)
           r == Rebase(a, b, q)
           s == Rebase(a, b, p)
           z == Append(s, Last(q))
<1>1. /\ p \in Seq(Nat) /\ Last(q) \in Nat /\ Len(p) = Len(q) - 1
      /\ \A i \in 1..(Len(q) - 1) : p[i] = q[i]
      /\ IsPrefix(p, q)
    BY FrontOK
<1>2. IsPrefix(a, q)
    BY <1>1, PrefixTrans
<1>3. /\ r \in Seq(Nat) /\ Len(r) = m + Len(q) - n
      /\ \A i \in 1..m : r[i] = b[i]
      /\ \A i \in 1..(Len(q) - n) : r[m + i] = q[n + i]
    BY <1>2, RebaseAt
<1>4. /\ s \in Seq(Nat) /\ Len(s) = m + Len(p) - n
      /\ \A i \in 1..m : s[i] = b[i]
      /\ \A i \in 1..(Len(p) - n) : s[m + i] = p[n + i]
    BY ZenonT(30), <1>1, RebaseAt
<1>5. n <= Len(p) /\ n \in Nat /\ m \in Nat /\ Len(q) \in Nat
    BY <1>1, PrefixAt
<1>6. q[Len(q)] = Last(q)
    BY DEF Last
<1> HIDE DEF n, m, p, r, s
<1>7. /\ z \in Seq(Nat) /\ Len(z) = Len(s) + 1 /\ z[Len(s) + 1] = Last(q)
      /\ \A i \in 1..Len(s) : z[i] = s[i]
    BY <1>1, <1>4
<1>8. Len(z) = Len(r) /\ Len(s) = m + Len(q) - 1 - n
    BY <1>1, <1>3, <1>4, <1>5, <1>7
<1> HIDE DEF z
<1>9. ASSUME NEW i \in 1..Len(r) PROVE z[i] = r[i]
  <2>1. CASE i <= m
    <3>1. i \in 1..m /\ i \in 1..Len(s)
      BY <1>1, <1>4, <1>5, <2>1
    <3> QED BY <1>3, <1>4, <1>7, <3>1
  <2>2. CASE i > m /\ i <= Len(s)
    <3>1. /\ i - m \in 1..(Len(p) - n) /\ i - m \in 1..(Len(q) - n) /\ m + (i - m) = i
          /\ i \in 1..Len(s) /\ n + (i - m) \in 1..(Len(q) - 1)
      BY <1>1, <1>4, <1>5, <1>8, <2>2
    <3>2. s[i] = p[n + (i - m)] /\ r[i] = q[n + (i - m)]
      BY <1>3, <1>4, <3>1
    <3> QED BY <1>1, <1>7, <3>1, <3>2
  <2>3. CASE i = Len(s) + 1 /\ i > m
    <3>1. i - m = Len(q) - n /\ i - m \in 1..(Len(q) - n) /\ m + (i - m) = i
          /\ n + (i - m) = Len(q)
      BY <1>1, <1>5, <1>8, <2>3
    <3>2. r[i] = q[Len(q)]
      BY <1>3, <3>1
    <3> QED BY <1>6, <1>7, <2>3, <3>2
  <2>4. i \in Int /\ i <= Len(s) + 1
    BY <1>5, <1>7, <1>8
  <2>5. Len(s) \in Nat
    BY <1>4
  <2>6. i <= m \/ (i > m /\ i <= Len(s)) \/ (i = Len(s) + 1 /\ i > m)
    BY <1>5, <2>4, <2>5
  <2> QED BY <2>1, <2>2, <2>3, <2>6
<1>10. r = z
    BY <1>3, <1>7, <1>8, <1>9, PathEqual
<1> QED BY <1>2, <1>10 DEF z, r, s, p

-----------------------------------------------------------------------------
(***************************************************************************)
(* Disks.                                                                  *)
(***************************************************************************)
LEMMA PathsOK ==
    /\ Paths \subseteq Seq(Nat)
    /\ \A p \in Paths : Len(p) \in Nat /\ Len(p) > 0
<1>1. Paths \subseteq Seq(Nat) \ {<<>>}
    BY FileCopyAssumption
<1>2. ASSUME NEW p \in Paths PROVE Len(p) \in Nat /\ Len(p) > 0
  <2>1. p \in Seq(Nat) /\ p # <<>>
    BY <1>1
  <2> QED BY <2>1, EmptySeq
<1> QED BY <1>1, <1>2

(* The kinds of entries.                                                   *)
LEMMA EntryOK ==
    ASSUME NEW e \in Entry
    PROVE  /\ e.kind \in {"none", "dir", "mount", "file"} /\ e.rw \in BOOLEAN
           /\ e.kind = "none" <=> e = None
           /\ e.kind \in {"dir", "mount"} => e = [kind |-> e.kind, data |-> <<>>, rw |-> e.rw]
           /\ e.kind = "file" => /\ e.data \in Seq(Chunks \cup {Junk})
                                 /\ e = [kind |-> "file", data |-> e.data, rw |-> e.rw]
<1>1. CASE e = None
    BY <1>1 DEF None
<1>2. CASE e \in [kind : {"dir", "mount"}, data : {<<>>}, rw : BOOLEAN]
  <2>1. e.kind \in {"dir", "mount"} /\ e.data = <<>> /\ e.rw \in BOOLEAN
    BY <1>2
  <2>2. e = [kind |-> e.kind, data |-> e.data, rw |-> e.rw]
    BY <1>2
  <2> QED BY <2>1, <2>2 DEF None
<1>3. CASE e \in [kind : {"file"}, data : Seq(Chunks \cup {Junk}), rw : BOOLEAN]
  <2>1. e.kind = "file" /\ e.data \in Seq(Chunks \cup {Junk}) /\ e.rw \in BOOLEAN
    BY <1>3
  <2>2. e = [kind |-> e.kind, data |-> e.data, rw |-> e.rw]
    BY <1>3
  <2> QED BY <2>1, <2>2 DEF None
<1> QED BY <1>1, <1>2, <1>3 DEF Entry

(* A prefix is the beginning of what it is a prefix of.                    *)
LEMMA PrefixSub ==
    ASSUME NEW p \in Seq(Nat)
    PROVE  /\ \A n \in 1..Len(p) : /\ SubSeq(p, 1, n) \in Seq(Nat)
                                   /\ Len(SubSeq(p, 1, n)) = n /\ IsPrefix(SubSeq(p, 1, n), p)
           /\ \A q \in Seq(Nat) : IsPrefix(q, p) => q = SubSeq(p, 1, Len(q))
<1>1. ASSUME NEW n \in 1..Len(p)
      PROVE  /\ SubSeq(p, 1, n) \in Seq(Nat) /\ Len(SubSeq(p, 1, n)) = n
             /\ IsPrefix(SubSeq(p, 1, n), p)
  <2> DEFINE s == SubSeq(p, 1, n)
  <2>1. 1 \in Nat \ {0} /\ n \in Nat /\ n <= Len(p) /\ 1 <= n /\ n - 1 + 1 = n
    OBVIOUS
  <2>2. /\ s \in Seq(Nat) /\ Len(s) = IF 1 <= n THEN n - 1 + 1 ELSE 0
        /\ \A i \in 1..(n - 1 + 1) : s[i] = p[1 + i - 1]
    BY <2>1, SubPath
  <2> HIDE DEF s
  <2>3. Len(s) = n /\ \A i \in 1..n : s[i] = p[i]
    <3>1. \A i \in 1..n : 1 + i - 1 = i
      BY <2>1
    <3> QED BY <2>1, <2>2, <3>1
  <2>4. IsPrefix(s, p)
    BY <2>1, <2>2, <2>3, PrefixAt
  <2> QED BY <2>2, <2>3, <2>4 DEF s
<1>2. ASSUME NEW q \in Seq(Nat), IsPrefix(q, p) PROVE q = SubSeq(p, 1, Len(q))
  <2>1. SubSeq(q, 1, Len(q)) = SubSeq(p, 1, Len(q))
    BY <1>2 DEF IsPrefix
  <2> QED BY <2>1, SubSeqFull
<1> QED BY <1>1, <1>2

(* What is above an item is there, and is a folder.                        *)
LEMMA TreeAbove ==
    ASSUME NEW d, IsTree(d), NEW p \in Paths, d[p].kind # "none",
           NEW q \in Seq(Nat), Len(q) > 0, IsPrefix(q, p)
    PROVE  /\ q \in Paths /\ d[q].kind # "none"
           /\ q # p => d[q].kind \in {"dir", "mount"}
<1>1. p \in Seq(Nat) /\ q = SubSeq(p, 1, Len(q))
    BY PathsOK, PrefixSub
<1>2. Len(q) <= Len(p) /\ Len(q) \in Nat /\ Len(p) \in Nat
    BY <1>1, PrefixAt
<1>3. CASE Len(q) = Len(p)
  <2>1. p = SubSeq(p, 1, Len(p))
    BY <1>1, SubSeqFull
  <2> QED BY <1>1, <1>3, <2>1
<1>4. CASE Len(q) # Len(p)
  <2>1. Len(q) \in 1..(Len(p) - 1)
    BY <1>2, <1>4
  <2>2. SubSeq(p, 1, Len(q)) \in Paths /\ d[SubSeq(p, 1, Len(q))].kind \in {"dir", "mount"}
    BY <2>1 DEF IsTree
  <2> QED BY <1>1, <2>2
<1> QED BY <1>3, <1>4

(* A disk is a tree if it has what is above each item.                     *)
LEMMA TreeFrom ==
    ASSUME NEW d,
           \A p, q \in Paths : d[p].kind # "none" /\ IsPrefix(q, p) /\ q # p
                                  => d[q].kind \in {"dir", "mount"},
           \A p \in Paths, q \in Seq(Nat) :
               d[p].kind # "none" /\ IsPrefix(q, p) /\ Len(q) > 0 => q \in Paths
    PROVE  IsTree(d)
<1> SUFFICES ASSUME NEW p \in Paths, d[p].kind # "none", NEW n \in 1..(Len(p) - 1)
             PROVE  /\ SubSeq(p, 1, n) \in Paths
                    /\ d[SubSeq(p, 1, n)].kind \in {"dir", "mount"}
    BY DEF IsTree
<1> DEFINE s == SubSeq(p, 1, n)
<1>1. p \in Seq(Nat) /\ Len(p) \in Nat
    BY PathsOK
<1>2. n \in 1..Len(p) /\ n > 0 /\ n # Len(p)
    BY <1>1
<1>3. s \in Seq(Nat) /\ Len(s) = n /\ IsPrefix(s, p)
    BY <1>1, <1>2, PrefixSub
<1> HIDE DEF s
<1>4. s # p
    BY <1>2, <1>3
<1>5. s \in Paths
    BY <1>2, <1>3
<1>6. d[s].kind \in {"dir", "mount"}
    BY <1>3, <1>4, <1>5
<1> QED BY <1>5, <1>6 DEF s

(* A new item in a folder.                                                 *)
LEMMA TreeGrow ==
    ASSUME NEW d, IsTree(d), NEW p \in Paths, d[p].kind = "none",
           Len(p) > 1 => Front(p) \in Paths /\ d[Front(p)].kind \in {"dir", "mount"},
           NEW e, \A q \in Paths \ {p} : e[q] = d[q]
    PROVE  IsTree(e)
<1>1. ASSUME NEW r \in Paths, NEW q \in Seq(Nat), e[r].kind # "none", IsPrefix(q, r),
             Len(q) > 0, q # r
      PROVE  q \in Paths /\ e[q].kind \in {"dir", "mount"}
  <2>1. CASE r # p
    <3>1. d[r].kind # "none"
      BY <1>1, <2>1
    <3>2. q \in Paths /\ d[q].kind \in {"dir", "mount"}
      BY <1>1, <3>1, TreeAbove
    <3>3. q # p
      BY <3>2
    <3> QED BY <3>2, <3>3
  <2>2. CASE r = p
    <3>1. p \in Seq(Nat) /\ Len(p) > 0 /\ Len(p) \in Nat
      BY PathsOK
    <3>2. IsPrefix(q, Front(p))
      BY <1>1, <2>2, <3>1, PrefixFront
    <3>3. /\ Len(q) <= Len(Front(p)) /\ Len(Front(p)) = Len(p) - 1 /\ Front(p) \in Seq(Nat)
          /\ Len(q) \in Nat
      BY <3>1, <3>2, FrontOK, PrefixAt
    <3>4. Len(p) > 1
      BY <1>1, <3>1, <3>3
    <3>5. q \in Paths /\ d[q].kind # "none" /\ (q # Front(p) => d[q].kind \in {"dir", "mount"})
      BY <1>1, <3>2, <3>4, TreeAbove
    <3>6. d[q].kind \in {"dir", "mount"} /\ q # p
      BY <1>1, <2>2, <3>4, <3>5
    <3> QED BY <3>5, <3>6
  <2> QED BY <2>1, <2>2
<1>2. \A r, q \in Paths : e[r].kind # "none" /\ IsPrefix(q, r) /\ q # r
                             => e[q].kind \in {"dir", "mount"}
    BY <1>1, PathsOK
<1>3. \A r \in Paths, q \in Seq(Nat) :
          e[r].kind # "none" /\ IsPrefix(q, r) /\ Len(q) > 0 => q \in Paths
    BY <1>1
<1> QED BY <1>2, <1>3, TreeFrom

(* Items change, but not what they are.                                    *)
LEMMA TreeKinds ==
    ASSUME NEW d, IsTree(d), NEW e, \A q \in Paths : e[q].kind = d[q].kind
    PROVE  IsTree(e)
    BY DEF IsTree

(* An item is removed with everything below it.                            *)
LEMMA TreeCut ==
    ASSUME NEW d, IsTree(d), NEW x \in Paths, NEW e,
           \A q \in Paths : e[q] = IF IsPrefix(x, q) THEN None ELSE d[q]
    PROVE  IsTree(e)
<1>1. ASSUME NEW r \in Paths, NEW q \in Seq(Nat), e[r].kind # "none", IsPrefix(q, r),
             Len(q) > 0
      PROVE  q \in Paths /\ (q # r => e[q].kind \in {"dir", "mount"})
  <2>1. ~IsPrefix(x, r) /\ d[r].kind # "none"
    BY <1>1 DEF None
  <2>2. q \in Paths /\ (q # r => d[q].kind \in {"dir", "mount"})
    BY <1>1, <2>1, TreeAbove
  <2>3. ~IsPrefix(x, q)
    <3>1. x \in Seq(Nat) /\ r \in Seq(Nat)
      BY PathsOK
    <3> QED BY <1>1, <2>1, <3>1, PrefixTrans
  <2> QED BY <2>2, <2>3
<1>2. \A r, q \in Paths : e[r].kind # "none" /\ IsPrefix(q, r) /\ q # r
                             => e[q].kind \in {"dir", "mount"}
    BY <1>1, PathsOK
<1>3. \A r \in Paths, q \in Seq(Nat) :
          e[r].kind # "none" /\ IsPrefix(q, r) /\ Len(q) > 0 => q \in Paths
    BY <1>1
<1> QED BY <1>2, <1>3, TreeFrom

-----------------------------------------------------------------------------
(***************************************************************************)
(* The entries of a folder and their numbers.                              *)
(***************************************************************************)
LEMMA IndexOK ==
    ASSUME NEW d, NEW p
    PROVE  /\ IsFiniteSet(EntriesIn(d, p)) /\ Cardinality(EntriesIn(d, p)) \in Nat
           /\ \A q : IndexIn(d, q) \in Nat
           /\ \A q \in EntriesIn(d, p) : /\ q \in Paths /\ Front(q) = p
                                         /\ IndexIn(d, q) < Cardinality(EntriesIn(d, p))
<1>1. \A x : IsFiniteSet(EntriesIn(d, x)) /\ Cardinality(EntriesIn(d, x)) \in Nat
  <2>1. \A x : EntriesIn(d, x) \in SUBSET Paths
    BY DEF EntriesIn
  <2> QED BY <2>1, FileCopyAssumption, FS_Subset, FS_CardinalityType
<1>2. ASSUME NEW q PROVE IndexIn(d, q) \in Nat
  <2> DEFINE E == EntriesIn(d, Front(q))
             S == {r \in E : Last(r) < Last(q)}
  <2>1. IsFiniteSet(E)
    BY <1>1
  <2>2. S \in SUBSET E
    OBVIOUS
  <2> HIDE DEF E, S
  <2>3. Cardinality(S) \in Nat
    BY <2>1, <2>2, FS_Subset, FS_CardinalityType
  <2> QED BY <2>3 DEF IndexIn, E, S
<1>3. ASSUME NEW q \in EntriesIn(d, p)
      PROVE  q \in Paths /\ Front(q) = p /\ IndexIn(d, q) < Cardinality(EntriesIn(d, p))
  <2> DEFINE E == EntriesIn(d, p)
             S == {r \in E : Last(r) < Last(q)}
  <2>1. q \in Paths /\ Front(q) = p
    BY DEF EntriesIn
  <2>2. IndexIn(d, q) = Cardinality(S)
    BY <2>1 DEF IndexIn
  <2>3. q \in E /\ q \notin S
    <3>1. Last(q) \in Nat
      BY <2>1, PathsOK, FrontOK
    <3> QED BY <3>1
  <2>4. IsFiniteSet(E) /\ Cardinality(E) \in Nat /\ S \in SUBSET E
    BY <1>1
  <2> HIDE DEF E, S
  <2>5. /\ IsFiniteSet(S) /\ Cardinality(S) <= Cardinality(E)
        /\ Cardinality(E) = Cardinality(S) => E = S
    BY <2>4, FS_Subset
  <2>6. Cardinality(S) \in Nat
    BY <2>5, FS_CardinalityType
  <2>7. Cardinality(S) < Cardinality(E)
    BY <2>3, <2>4, <2>5, <2>6
  <2> QED BY <2>1, <2>2, <2>7 DEF E
<1> QED BY <1>1, <1>2, <1>3

(* No two entries of a folder have the same number.                        *)
LEMMA IndexGrows ==
    ASSUME NEW d, NEW p, NEW q \in EntriesIn(d, p), NEW r \in EntriesIn(d, p),
           Last(q) < Last(r)
    PROVE  IndexIn(d, q) < IndexIn(d, r)
<1> DEFINE E == EntriesIn(d, p)
           S == {x \in E : Last(x) < Last(q)}
           U == {x \in E : Last(x) < Last(r)}
<1>1. Front(q) = p /\ Front(r) = p /\ q \in Paths /\ r \in Paths
    BY DEF EntriesIn
<1>2. IndexIn(d, q) = Cardinality(S) /\ IndexIn(d, r) = Cardinality(U)
    BY <1>1 DEF IndexIn
<1>3. \A x \in E : Last(x) \in Nat
    BY PathsOK, FrontOK DEF EntriesIn
<1>4. S \in SUBSET U /\ q \in U /\ q \notin S /\ U \in SUBSET E
    BY <1>3
<1>5. IsFiniteSet(E)
    BY IndexOK
<1> HIDE DEF E, S, U
<1>6. IsFiniteSet(U) /\ Cardinality(U) \in Nat
    BY <1>4, <1>5, FS_Subset, FS_CardinalityType
<1>7. /\ IsFiniteSet(S) /\ Cardinality(S) <= Cardinality(U)
      /\ Cardinality(U) = Cardinality(S) => U = S
    BY <1>4, <1>6, FS_Subset
<1>8. Cardinality(S) \in Nat
    BY <1>7, FS_CardinalityType
<1>9. Cardinality(S) < Cardinality(U)
    BY <1>4, <1>6, <1>7, <1>8
<1> QED BY <1>2, <1>9

(* Two entries of a folder have different numbers.                         *)
LEMMA IndexInjective ==
    ASSUME NEW d, NEW p, NEW q \in EntriesIn(d, p), NEW r \in EntriesIn(d, p),
           IndexIn(d, q) = IndexIn(d, r)
    PROVE  q = r
<1>1. /\ q \in Paths /\ Front(q) = p /\ r \in Paths /\ Front(r) = p
      /\ IndexIn(d, q) \in Nat
    BY IndexOK
<1>2. q \in Seq(Nat) /\ r \in Seq(Nat) /\ Len(q) > 0 /\ Len(r) > 0
    BY <1>1, PathsOK
<1>3. Last(q) \in Nat /\ Last(r) \in Nat
    BY <1>2, FrontOK
<1>4. ~(Last(q) < Last(r)) /\ ~(Last(r) < Last(q))
    BY <1>1, IndexGrows
<1>5. Last(q) = Last(r)
    BY <1>3, <1>4
<1> QED BY <1>1, <1>2, <1>5, FrontLast

-----------------------------------------------------------------------------
(***************************************************************************)
(* Jobs.                                                                   *)
(***************************************************************************)
Idle == {"wait", "woken", "jobs"}

(* The places of the copy thread, listed.                                  *)
LEMMA Places ==
    ASSUME NEW l
    PROVE  /\ l \in FilePcs <=> l \in {"filedone", "trunc", "sized", "read", "write", "wrote",
                                       "reread", "compare", "compared", "iofail"}
           /\ l \in ItemPcs <=> l \in FilePcs \/ l \in {"enter", "dir", "failed", "copied"}
           /\ l \in Unlocked <=> l \in {"wait", "woken"} \/ l \in FilePcs \ {"filedone"}
    BY DEF FilePcs, ItemPcs, Unlocked

(* The running job changes.                                                *)
LEMMA JobsHead ==
    ASSUME NEW J, NEW l, NEW r, JobsOK(J, l, r), J # <<>>,
           NEW j \in Job, NEW m, JobOK(j, m)
    PROVE  JobsOK([J EXCEPT ![1] = j], m, r)
<1> DEFINE K == [J EXCEPT ![1] = j]
<1>1. J \in Seq(Job) /\ Len(J) \in Nat /\ Len(J) > 0
    BY DEF JobsOK
<1>2. K \in Seq(Job) /\ Len(K) = Len(J) /\ K[1] = j /\ \A k \in 2..Len(J) : K[k] = J[k]
    BY <1>1
<1> HIDE DEF K
<1>3. K # <<>> /\ \A k \in 2..Len(K) : Fresh(K[k])
    BY <1>1, <1>2 DEF JobsOK
<1>4. r.cancelled \/ r.copied + r.failed + r.skipped >= r.items
    BY DEF JobsOK
<1>5. JobsOK(K, m, r)
    BY <1>2, <1>3, <1>4 DEF JobsOK
<1> QED BY <1>5 DEF K

(* The thread moves on.                                                    *)
LEMMA JobsMove ==
    ASSUME NEW J, NEW l, NEW r, JobsOK(J, l, r), NEW m,
           J # <<>> => JobOK(J[1], m), m \notin Idle => J # <<>>
    PROVE  JobsOK(J, m, r)
    BY DEF JobsOK, Idle

(* The job's fields and their types.                                       *)
LEMMA JobFields ==
    ASSUME NEW j \in Job
    PROVE  /\ j.items \in Seq(Request) /\ Len(j.items) \in Nat
           /\ j.move \in BOOLEAN /\ j.rename \in BOOLEAN /\ j.cancel \in BOOLEAN
           /\ j.cancelled \in BOOLEAN
           /\ j.index \in Nat /\ j.copied \in Nat /\ j.failed \in Nat /\ j.skipped \in Nat
           /\ Counted(j) \in Nat
    BY DEF Job, Counted

(* The running job is in order.                                            *)
LEMMA JobsHeadOK ==
    ASSUME NEW J, NEW l, NEW r, JobsOK(J, l, r), J # <<>>
    PROVE  J[1] \in Job /\ Head(J) = J[1] /\ JobOK(J[1], l) /\ J \in Seq(Job)
    BY DEF JobsOK

(* A job with other counts.                                                *)
JobWith(j, i, a, b, s) ==
    [j EXCEPT !.index = i, !.copied = a, !.failed = b, !.skipped = s]

JobCounted(j, i, a, b, s, k) ==
    /\ k \in Job /\ k.items = j.items /\ k.index = i /\ Counted(k) = a + b + s
    /\ k.cancelled = j.cancelled /\ k.cancel = j.cancel

(* The counts of a job that is given new ones.                             *)
LEMMA JobCounts ==
    ASSUME NEW j \in Job, NEW i \in Nat, NEW a \in Nat, NEW b \in Nat, NEW s \in Nat
    PROVE  JobCounted(j, i, a, b, s, JobWith(j, i, a, b, s))
    BY DEF Job, Counted, JobWith, JobCounted

(* The steps inside an item leave the counts alone, and go on with a file  *)
(* or a folder only if Cancel was not pressed.                             *)
ItemStep ==
    \/ EnterRefused \/ EnterDirectory \/ EnterFile
    \/ DirectoryEntry \/ DirectoryDone \/ FileDone
    \/ Truncate \/ Sized \/ Read \/ Write \/ Wrote \/ Reread \/ Compare \/ Compared
    \/ GiveUp

(* A step inside an item leaves the jobs alone.                            *)
LEMMA ItemStepPlaces ==
    ASSUME ItemStep
    PROVE  /\ pc \in ItemPcs /\ pc' \in ItemPcs
           /\ jobs' = jobs /\ report' = report /\ signaled' = signaled
           /\ others' = others /\ asked' = asked
           /\ pc' \in {"filedone", "copied", "dir"} =>
                 pc \in {"filedone", "dir"} \/ ~job.cancel
<1>1. CASE EnterRefused
    BY <1>1, Places DEF EnterRefused, Enter, Goto
<1>2. CASE EnterDirectory
    BY <1>2, Places DEF EnterDirectory, Enter, Goto
<1>3. CASE EnterFile
    BY <1>3, Places DEF EnterFile, Enter, Goto
<1>4. CASE DirectoryEntry
    BY <1>4, Places DEF DirectoryEntry, Goto
<1>5. CASE DirectoryDone
    BY <1>5, Places DEF DirectoryDone, Goto, Return
<1>6. CASE FileDone
    BY <1>6, Places DEF FileDone, Goto, Return
<1>7. CASE Truncate
    BY <1>7, Places DEF Truncate, Goto, Quiet
<1>8. CASE Sized
    BY <1>8, Places DEF Sized, Goto, Quiet
<1>9. CASE Read \/ Reread
    BY <1>9, Places DEF Read, Reread, ReadChunk, Goto, Quiet
<1>10. CASE Write
    BY <1>10, Places DEF Write, Goto, Quiet
<1>11. CASE Wrote \/ Compared
    BY <1>11, Places DEF Wrote, Compared, ChunkDone, Goto, Quiet
<1>12. CASE Compare
    BY <1>12, Places DEF Compare, Goto, Quiet
<1>13. CASE GiveUp
    BY <1>13, Places DEF GiveUp, Goto, Quiet
<1> QED BY <1>1, <1>2, <1>3, <1>4, <1>5, <1>6, <1>7, <1>8, <1>9, <1>10, <1>11, <1>12, <1>13
        DEF ItemStep

(* Inside an item the jobs stay in order.                                  *)
LEMMA ItemStepJobs ==
    ASSUME JobsOK(jobs, pc, report), ItemStep
    PROVE  JobsOK(jobs', pc', report')
<1>1. /\ pc \in ItemPcs /\ pc' \in ItemPcs /\ jobs' = jobs /\ report' = report
      /\ pc' \in {"filedone", "copied", "dir"} => pc \in {"filedone", "dir"} \/ ~job.cancel
    BY ItemStepPlaces
<1>2. jobs # <<>>
    BY <1>1, Places DEF JobsOK
<1>3. jobs[1] \in Job /\ job = jobs[1] /\ JobOK(jobs[1], pc)
    BY <1>2, JobsHeadOK DEF job
<1>4. JobOK(jobs[1], pc')
  <2>1. jobs[1].index <= Len(jobs[1].items) /\ jobs[1].index <= Counted(jobs[1]) + 1
    BY <1>1, <1>3 DEF JobOK
  <2>2. pc' \in {"filedone", "copied", "dir"} => ~jobs[1].cancel
    BY <1>1, <1>3 DEF JobOK
  <2>3. pc' \notin Idle /\ pc' # "items" /\ pc' # "end"
    BY <1>1, Places DEF Idle
  <2> QED BY <2>1, <2>2, <2>3 DEF JobOK, Idle
<1>5. JobsOK(jobs, pc', report)
    BY <1>2, <1>4, JobsMove
<1> QED BY <1>1, <1>5

(* So they do when the copy thread wakes up.                               *)
LEMMA WakeJobs ==
    ASSUME JobsOK(jobs, pc, report), Wake \/ TakeLock
    PROVE  JobsOK(jobs', pc', report')
<1>1. jobs' = jobs /\ report' = report /\ pc \in Idle /\ pc' \in Idle
    BY DEF Wake, TakeLock, Goto, Idle
<1>2. jobs # <<>> => JobOK(jobs[1], pc')
  <2>1. jobs # <<>> => Fresh(jobs[1])
    BY <1>1, JobsHeadOK DEF JobOK, Idle
  <2>2. pc' \notin ItemPcs /\ pc' # "items" /\ pc' # "end"
    BY <1>1, Places DEF Idle
  <2>3. pc' \notin {"filedone", "copied", "dir"}
    BY <1>1 DEF Idle
  <2> QED BY <2>1, <2>2, <2>3 DEF JobOK
<1>3. JobsOK(jobs, pc', report)
    BY <1>1, <1>2, JobsMove
<1> QED BY <1>1, <1>3

(* fc_run_job takes a job up, or fails all of it without memory.           *)
LEMMA NextJobJobs ==
    ASSUME JobsOK(jobs, pc, report), NextJob
    PROVE  JobsOK(jobs', pc', report')
<1>1. report' = report /\ pc = "jobs"
    BY DEF NextJob
<1>2. CASE jobs = <<>> /\ pc' = "wait" /\ jobs' = jobs
  <2>1. JobsOK(jobs, pc', report)
    BY <1>2, JobsMove DEF Idle
  <2> QED BY <1>1, <1>2, <2>1
<1>3. ASSUME jobs # <<>>
      PROVE  /\ jobs[1] \in Job /\ job = jobs[1] /\ jobs[1].index = 0
             /\ jobs \in Seq(Job) /\ Counted(jobs[1]) \in Nat
  <2>1. jobs[1] \in Job /\ job = jobs[1] /\ JobOK(jobs[1], "jobs") /\ jobs \in Seq(Job)
    BY <1>1, <1>3, JobsHeadOK DEF job
  <2>2. Fresh(jobs[1])
    BY <2>1 DEF JobOK
  <2>3. /\ jobs[1].index \in Nat /\ jobs[1].copied \in Nat /\ jobs[1].failed \in Nat
        /\ jobs[1].skipped \in Nat /\ Counted(jobs[1]) \in Nat
    BY <2>1, JobFields
  <2>4. jobs[1].index = 0
    BY <2>2, <2>3 DEF Fresh
  <2> QED BY <2>1, <2>3, <2>4
<1>4. CASE jobs # <<>> /\ pc' = "items" /\ jobs' = jobs
  <2>1. JobOK(jobs[1], "items")
    BY <1>3, <1>4, JobFields, Places DEF JobOK
  <2>2. JobsOK(jobs, pc', report)
    BY <1>4, <2>1, JobsMove
  <2> QED BY <1>1, <1>4, <2>2
<1>5. CASE jobs # <<>> /\ SetJob("failed", Len(job.items)) /\ pc' = "end"
  <2> DEFINE j == jobs[1]
             k == [j EXCEPT !.failed = Len(j.items)]
  <2>1. jobs' = [jobs EXCEPT ![1] = k]
    BY <1>3, <1>5 DEF SetJob
  <2>2. j \in Job
    BY <1>3, <1>5
  <2>3. k = JobWith(j, j.index, j.copied, Len(j.items), j.skipped)
    BY <2>2 DEF Job, JobWith
  <2> HIDE DEF j, k
  <2>4. /\ j.index \in Nat /\ j.copied \in Nat /\ Len(j.items) \in Nat /\ j.skipped \in Nat
    BY <2>2, JobFields
  <2>7. /\ k \in Job /\ k.items = j.items
        /\ Counted(k) = j.copied + Len(j.items) + j.skipped
    <3>1. JobCounted(j, j.index, j.copied, Len(j.items), j.skipped, k)
      BY <2>2, <2>3, <2>4, JobCounts
    <3> QED BY <3>1 DEF JobCounted
  <2>5. k \in Job /\ Len(k.items) <= Counted(k)
    BY <2>4, <2>7
  <2>6. JobOK(k, "end")
    BY <2>5, Places DEF JobOK
  <2>8. JobsOK([jobs EXCEPT ![1] = k], "end", report)
    BY <1>5, <2>5, <2>6, JobsHead
  <2> QED BY <1>1, <1>5, <2>1, <2>8
<1> QED BY <1>2, <1>4, <1>5 DEF NextJob, Goto

(* The running job is marked as cancelled.                                 *)
LEMMA JobCancelled ==
    ASSUME NEW j \in Job
    PROVE  [j EXCEPT !.cancelled = TRUE] \in Job /\ [j EXCEPT !.cancelled = TRUE].cancelled
    BY DEF Job

(* A cancelled job ends with what it has.                                  *)
LEMMA JobsCancelled ==
    ASSUME JobsOK(jobs, pc, report), jobs # <<>>, SetJob("cancelled", TRUE)
    PROVE  JobsOK(jobs', "end", report)
<1> DEFINE k == [jobs[1] EXCEPT !.cancelled = TRUE]
<1>1. jobs[1] \in Job /\ jobs \in Seq(Job)
    BY JobsHeadOK
<1>2. jobs' = [jobs EXCEPT ![1] = k]
    BY <1>1 DEF SetJob
<1>3. k \in Job /\ k.cancelled
    BY <1>1, JobCancelled
<1> HIDE DEF k
<1>4. JobOK(k, "end")
    BY <1>3, Places DEF JobOK
<1>5. JobsOK([jobs EXCEPT ![1] = k], "end", report)
    BY <1>3, <1>4, JobsHead
<1> QED BY <1>2, <1>5

(* The running job counts an item.                                         *)
LEMMA JobsCounted ==
    ASSUME JobsOK(jobs, pc, report), jobs # <<>>,
           NEW i \in Nat, NEW a \in Nat, NEW b \in Nat, NEW s \in Nat, NEW m,
           jobs' = [jobs EXCEPT ![1] = JobWith(jobs[1], i, a, b, s)],
           i <= Len(jobs[1].items),
           \/ m = "items" /\ i <= a + b + s
           \/ m = "enter" /\ i <= a + b + s + 1
    PROVE  JobsOK(jobs', m, report)
<1> DEFINE k == JobWith(jobs[1], i, a, b, s)
<1>1. jobs[1] \in Job /\ jobs \in Seq(Job)
    BY JobsHeadOK
<1>2. JobCounted(jobs[1], i, a, b, s, k)
    BY <1>1, JobCounts
<1>3. jobs' = [jobs EXCEPT ![1] = k]
    OBVIOUS
<1> HIDE DEF k
<1>4. k \in Job /\ k.items = jobs[1].items /\ k.index = i /\ Counted(k) = a + b + s
    BY <1>2 DEF JobCounted
<1>5. JobOK(k, m)
  <2>1. CASE m = "items" /\ i <= a + b + s
    BY <1>4, <2>1, Places DEF JobOK
  <2>2. CASE m = "enter" /\ i <= a + b + s + 1
    BY <1>4, <2>2, Places DEF JobOK
  <2> QED BY <2>1, <2>2
<1>6. JobsOK([jobs EXCEPT ![1] = k], m, report)
    BY <1>4, <1>5, JobsHead
<1> QED BY <1>3, <1>6

(* The sums of the counts.                                                 *)
LEMMA Sums ==
    ASSUME NEW i \in Nat, NEW a \in Nat, NEW b \in Nat, NEW s \in Nat, i <= a + b + s + 1
    PROVE  /\ a + 1 \in Nat /\ b + 1 \in Nat /\ s + 1 \in Nat
           /\ i <= a + (b + 1) + s /\ i <= (a + 1) + b + s /\ i <= a + b + (s + 1)
           /\ i <= (a + 1) + (b + 1) + s
    OBVIOUS

(* The next item is taken off the list.                                    *)
LEMMA NextItemJobs ==
    ASSUME JobsOK(jobs, pc, report), NextItem
    PROVE  JobsOK(jobs', pc', report')
<1> DEFINE j == jobs[1]
           n == j.index + 1
<1>1. report' = report /\ pc = "items"
    BY DEF NextItem
<1>2. jobs # <<>>
    BY <1>1 DEF JobsOK
<1>3. j \in Job /\ job = j /\ JobOK(j, "items") /\ jobs \in Seq(Job)
    BY <1>1, <1>2, JobsHeadOK DEF job
<1>4. /\ j.index \in Nat /\ j.copied \in Nat /\ j.failed \in Nat /\ j.skipped \in Nat
      /\ Len(j.items) \in Nat /\ j.index <= Len(j.items)
      /\ j.index <= j.copied + j.failed + j.skipped
    BY <1>3, JobFields DEF JobOK, Counted
<1>5. /\ jobs' = [jobs EXCEPT ![1].index = n, ![1].failed = @ + 1] =>
            jobs' = [jobs EXCEPT ![1] = JobWith(j, n, j.copied, j.failed + 1, j.skipped)]
      /\ jobs' = [jobs EXCEPT ![1].index = n, ![1].skipped = @ + 1] =>
            jobs' = [jobs EXCEPT ![1] = JobWith(j, n, j.copied, j.failed, j.skipped + 1)]
      /\ SetJob("index", n) =>
            jobs' = [jobs EXCEPT ![1] = JobWith(j, n, j.copied, j.failed, j.skipped)]
    BY <1>2, <1>3 DEF SetJob, Job, JobWith
<1>6. \/ /\ MoreItems
         /\ \/ /\ pc' = "items"
               /\ \/ jobs' = [jobs EXCEPT ![1].index = n, ![1].failed = @ + 1]
                  \/ jobs' = [jobs EXCEPT ![1].index = n, ![1].skipped = @ + 1]
            \/ pc' = "enter" /\ SetJob("index", n)
      \/ pc' = "end" /\ SetJob("cancelled", TRUE)
      \/ pc' = "end" /\ ~MoreItems /\ jobs' = jobs
    BY <1>1, <1>3 DEF NextItem, Goto
<1>7. MoreItems <=> n <= Len(j.items)
    BY <1>3, <1>4 DEF MoreItems
<1>8. /\ n <= j.copied + (j.failed + 1) + j.skipped
      /\ n <= j.copied + j.failed + (j.skipped + 1)
      /\ n <= j.copied + j.failed + j.skipped + 1
      /\ n \in Nat /\ j.failed + 1 \in Nat /\ j.skipped + 1 \in Nat
  <2> HIDE DEF j
  <2> DEFINE i == j.index + 1
  <2>1. i \in Nat /\ i <= j.copied + j.failed + j.skipped + 1
    BY <1>4
  <2> HIDE DEF i
  <2>2. /\ i <= j.copied + (j.failed + 1) + j.skipped
        /\ i <= j.copied + j.failed + (j.skipped + 1)
        /\ j.failed + 1 \in Nat /\ j.skipped + 1 \in Nat
    BY <1>4, <2>1, Sums
  <2> QED BY <2>1, <2>2 DEF i
<1>9. CASE pc' = "end" /\ SetJob("cancelled", TRUE)
    BY <1>1, <1>2, <1>9, JobsCancelled
<1>10. CASE pc' = "end" /\ ~MoreItems /\ jobs' = jobs
  <2>1. Len(j.items) <= Counted(j)
    BY <1>4, <1>7, <1>10 DEF Counted
  <2>2. JobOK(j, "end")
    BY <2>1, Places DEF JobOK
  <2>3. JobsOK(jobs, "end", report)
    BY <1>2, <2>2, JobsMove
  <2> QED BY <1>1, <1>10, <2>3
<1>11. CASE pc' = "items" /\ MoreItems
            /\ jobs' = [jobs EXCEPT ![1].index = n, ![1].failed = @ + 1]
  <2> HIDE DEF n
  <2>1. jobs' = [jobs EXCEPT ![1] = JobWith(jobs[1], n, j.copied, j.failed + 1, j.skipped)]
    BY <1>5, <1>11
  <2> HIDE DEF j
  <2> QED BY <1>1, <1>2, <1>4, <1>7, <1>8, <1>11, <2>1, JobsCounted DEF j
<1>12. CASE pc' = "items" /\ MoreItems
            /\ jobs' = [jobs EXCEPT ![1].index = n, ![1].skipped = @ + 1]
  <2> HIDE DEF n
  <2>1. jobs' = [jobs EXCEPT ![1] = JobWith(jobs[1], n, j.copied, j.failed, j.skipped + 1)]
    BY <1>5, <1>12
  <2> HIDE DEF j
  <2> QED BY <1>1, <1>2, <1>4, <1>7, <1>8, <1>12, <2>1, JobsCounted DEF j
<1>13. CASE pc' = "enter" /\ MoreItems /\ SetJob("index", n)
  <2> HIDE DEF n
  <2>1. jobs' = [jobs EXCEPT ![1] = JobWith(jobs[1], n, j.copied, j.failed, j.skipped)]
    BY <1>5, <1>13
  <2> HIDE DEF j
  <2> QED BY <1>1, <1>2, <1>4, <1>7, <1>8, <1>13, <2>1, JobsCounted DEF j
<1> QED BY <1>6, <1>9, <1>10, <1>11, <1>12, <1>13

(* The end of an item counts it.                                           *)
LEMMA ItemEndJobs ==
    ASSUME JobsOK(jobs, pc, report), ItemFailed \/ ItemCopied
    PROVE  JobsOK(jobs', pc', report')
<1> DEFINE j == jobs[1]
<1>1. report' = report /\ pc \in {"failed", "copied"}
    BY DEF ItemFailed, ItemCopied
<1>2. jobs # <<>>
    BY <1>1 DEF JobsOK
<1>3. j \in Job /\ job = j /\ JobOK(j, pc) /\ jobs \in Seq(Job)
    BY <1>2, JobsHeadOK DEF job
<1>4. /\ j.index \in Nat /\ j.copied \in Nat /\ j.failed \in Nat /\ j.skipped \in Nat
      /\ Len(j.items) \in Nat /\ j.index <= Len(j.items)
      /\ j.index <= j.copied + j.failed + j.skipped + 1
  <2>1. pc \in ItemPcs
    BY <1>1, Places
  <2> QED BY <1>3, <2>1, JobFields DEF JobOK, Counted
<1>5. /\ Bump("failed") =>
            jobs' = [jobs EXCEPT ![1] = JobWith(j, j.index, j.copied, j.failed + 1, j.skipped)]
      /\ Bump("copied") =>
            jobs' = [jobs EXCEPT ![1] = JobWith(j, j.index, j.copied + 1, j.failed, j.skipped)]
      /\ jobs' = [jobs EXCEPT ![1].copied = @ + 1, ![1].failed = @ + 1] =>
            jobs' = [jobs EXCEPT ![1] = JobWith(j, j.index, j.copied + 1, j.failed + 1,
                                                j.skipped)]
    BY <1>2, <1>3 DEF Bump, SetJob, Job, JobWith
<1>6. \/ pc' = "end" /\ SetJob("cancelled", TRUE)
      \/ /\ pc' = "items"
         /\ \/ Bump("failed")
            \/ Bump("copied")
            \/ jobs' = [jobs EXCEPT ![1].copied = @ + 1, ![1].failed = @ + 1]
    BY DEF ItemFailed, ItemCopied, Goto
<1>7. /\ j.index <= j.copied + (j.failed + 1) + j.skipped
      /\ j.index <= (j.copied + 1) + j.failed + j.skipped
      /\ j.index <= (j.copied + 1) + (j.failed + 1) + j.skipped
      /\ j.failed + 1 \in Nat /\ j.copied + 1 \in Nat
  <2> HIDE DEF j
  <2> QED BY <1>4, Sums
<1>8. CASE pc' = "end" /\ SetJob("cancelled", TRUE)
    BY <1>1, <1>2, <1>8, JobsCancelled
<1>9. CASE pc' = "items" /\ Bump("failed")
  <2>1. jobs' = [jobs EXCEPT ![1] = JobWith(jobs[1], j.index, j.copied, j.failed + 1, j.skipped)]
    BY <1>5, <1>9
  <2> HIDE DEF j
  <2> QED BY <1>1, <1>2, <1>4, <1>7, <1>9, <2>1, JobsCounted DEF j
<1>10. CASE pc' = "items" /\ Bump("copied")
  <2>1. jobs' = [jobs EXCEPT ![1] = JobWith(jobs[1], j.index, j.copied + 1, j.failed, j.skipped)]
    BY <1>5, <1>10
  <2> HIDE DEF j
  <2> QED BY <1>1, <1>2, <1>4, <1>7, <1>10, <2>1, JobsCounted DEF j
<1>11. CASE pc' = "items" /\ jobs' = [jobs EXCEPT ![1].copied = @ + 1, ![1].failed = @ + 1]
  <2>1. jobs' = [jobs EXCEPT ![1] = JobWith(jobs[1], j.index, j.copied + 1, j.failed + 1,
                                            j.skipped)]
    BY <1>5, <1>11
  <2> DEFINE a == j.copied + 1
             b == j.failed + 1
  <2>2. /\ jobs' = [jobs EXCEPT ![1] = JobWith(jobs[1], j.index, a, b, j.skipped)]
        /\ a \in Nat /\ b \in Nat /\ j.index <= a + b + j.skipped
    BY <1>7, <2>1
  <2>3. j.index \in Nat /\ j.skipped \in Nat /\ j.index <= Len(jobs[1].items)
    BY <1>4
  <2> HIDE DEF a, b, j
  <2>4. JobsOK(jobs', "items", report)
    BY <1>2, <2>2, <2>3, JobsCounted
  <2> QED BY <1>1, <1>11, <2>4
<1> QED BY <1>6, <1>8, <1>9, <1>10, <1>11

(* A job ends.                                                             *)
LEMMA EndJobJobs ==
    ASSUME JobsOK(jobs, pc, report), EndJob
    PROVE  JobsOK(jobs', pc', report')
<1> DEFINE j == jobs[1]
           K == Tail(jobs)
<1>1. pc = "end" /\ pc' = "jobs" /\ report' = Result /\ jobs' = K
    BY DEF EndJob, Goto
<1>2. jobs # <<>>
    BY <1>1 DEF JobsOK
<1>3. j \in Job /\ job = j /\ JobOK(j, "end") /\ jobs \in Seq(Job)
    BY <1>1, <1>2, JobsHeadOK DEF job
<1>4. /\ Len(jobs) \in Nat /\ Len(jobs) > 0
      /\ K \in Seq(Job) /\ Len(K) = Len(jobs) - 1
      /\ \A k \in 1..Len(K) : K[k] = jobs[k + 1]
    BY <1>2, <1>3
<1> HIDE DEF K
<1>5. \A k \in 1..Len(K) : Fresh(K[k])
  <2>1. \A k \in 2..Len(jobs) : Fresh(jobs[k])
    BY DEF JobsOK
  <2> QED BY <1>4, <2>1
<1>6. K # <<>> => JobOK(K[1], "jobs")
  <2>1. K # <<>> => Fresh(K[1])
    BY <1>4, <1>5
  <2> QED BY <2>1, Places DEF JobOK
<1>7. Result.cancelled \/ Result.copied + Result.failed + Result.skipped >= Result.items
  <2> HIDE DEF j
  <2>1. j.cancelled \/ Len(j.items) <= Counted(j)
    BY <1>3 DEF JobOK
  <2>2. /\ j.copied \in Nat /\ j.failed \in Nat /\ j.skipped \in Nat /\ Len(j.items) \in Nat
    BY <1>3, JobFields
  <2>3. /\ Result.cancelled = j.cancelled /\ Result.copied = j.copied
        /\ Result.failed = j.failed /\ Result.skipped = j.skipped
        /\ Result.items = Len(j.items)
    BY <1>3 DEF Result
  <2> QED BY <2>1, <2>2, <2>3 DEF Counted
<1>8. \A k \in 2..Len(K) : Fresh(K[k])
    BY <1>4, <1>5
<1>9. JobsOK(K, "jobs", Result)
    BY <1>4, <1>6, <1>7, <1>8 DEF JobsOK
<1> QED BY <1>1, <1>9

(* One job changes while the copy thread waits or is inside an item.       *)
LEMMA JobsAt ==
    ASSUME JobsOK(jobs, pc, report), pc \in Unlocked, NEW i \in 1..Len(jobs), NEW j \in Job,
           jobs' = [jobs EXCEPT ![i] = j], Fresh(jobs[i]) => Fresh(j),
           JobOK(jobs[i], pc) => JobOK(j, pc)
    PROVE  JobsOK(jobs', pc, report)
<1>1. jobs \in Seq(Job) /\ Len(jobs) \in Nat
    BY DEF JobsOK
<1>2. /\ jobs' \in Seq(Job) /\ Len(jobs') = Len(jobs) /\ jobs'[i] = j
      /\ \A k \in 1..Len(jobs) : k # i => jobs'[k] = jobs[k]
    BY <1>1
<1>3. jobs # <<>> /\ jobs' # <<>>
    BY <1>1, <1>2
<1>4. JobOK(jobs'[1], pc)
  <2>1. JobOK(jobs[1], pc) /\ 1 \in 1..Len(jobs)
    BY <1>1, <1>3 DEF JobsOK
  <2> QED BY <1>2, <2>1
<1>5. \A k \in 2..Len(jobs') : Fresh(jobs'[k])
  <2>1. \A k \in 2..Len(jobs) : Fresh(jobs[k])
    BY DEF JobsOK
  <2> QED BY <1>1, <1>2, <2>1
<1>6. report.cancelled \/ report.copied + report.failed + report.skipped >= report.items
    BY DEF JobsOK
<1> QED BY <1>2, <1>3, <1>4, <1>5, <1>6 DEF JobsOK

(* A window asks for an item.                                              *)
LEMMA SummonJobs ==
    ASSUME JobsOK(jobs, pc, report), NEW r \in Requests, NEW m, dwm_summon_filecopy(r, m)
    PROVE  JobsOK(jobs', pc', report')
<1> DEFINE j == NewJob(r, m)
           J == Append(jobs, j)
<1>1. pc \in Unlocked /\ pc' = pc /\ report' = report /\ jobs' = J
    BY DEF dwm_summon_filecopy, Outside
<1>2. j \in Job /\ Fresh(j)
  <2>1. r \in Request
    BY FileCopyAssumption DEF Request
  <2>2. <<r>> \in Seq(Request)
    BY <2>1
  <2> QED BY <2>2 DEF NewJob, Job, Fresh
<1> HIDE DEF j
<1>3. jobs \in Seq(Job) /\ Len(jobs) \in Nat
    BY DEF JobsOK
<1>4. /\ J \in Seq(Job) /\ Len(J) = Len(jobs) + 1 /\ J[Len(jobs) + 1] = j
      /\ \A k \in 1..Len(jobs) : J[k] = jobs[k]
    BY <1>2, <1>3
<1> HIDE DEF J
<1>5. \A k \in 2..Len(J) : Fresh(J[k])
  <2>1. \A k \in 2..Len(jobs) : Fresh(jobs[k])
    BY DEF JobsOK
  <2> QED BY <1>2, <1>3, <1>4, <2>1
<1>6. JobOK(J[1], pc)
  <2>1. CASE jobs = <<>>
    <3>1. pc \in Idle
      BY <2>1 DEF JobsOK, Idle
    <3>2. J[1] = j
      BY <1>4, <2>1
    <3> QED BY <1>2, <3>1, <3>2, Places DEF JobOK, Idle
  <2>2. CASE jobs # <<>>
    <3>1. JobOK(jobs[1], pc) /\ 1 \in 1..Len(jobs)
      BY <1>3, <2>2 DEF JobsOK
    <3> QED BY <1>4, <3>1
  <2> QED BY <2>1, <2>2
<1>7. report.cancelled \/ report.copied + report.failed + report.skipped >= report.items
    BY DEF JobsOK
<1>8. J # <<>>
    BY <1>3, <1>4
<1>9. JobsOK(J, pc, report)
    BY <1>4, <1>5, <1>6, <1>7, <1>8 DEF JobsOK
<1> QED BY <1>1, <1>9

(* A window adds an item to a job, or wants it cancelled.                  *)
LEMMA UserJobs ==
    ASSUME JobsOK(jobs, pc, report), NEW i \in 1..Len(jobs),
           (\E r \in Requests : dwm_filecopy_add(i, r)) \/ fc_request_cancel(i)
    PROVE  JobsOK(jobs', pc', report')
<1> DEFINE j == jobs[i]
<1>1. pc \in Unlocked /\ pc' = pc /\ report' = report
    BY DEF dwm_filecopy_add, fc_request_cancel, Outside
<1>2. jobs \in Seq(Job) /\ j \in Job
    BY DEF JobsOK
<1>3. pc \notin {"items", "end", "filedone", "copied", "dir"}
    BY <1>1 DEF Unlocked
<1>4. ASSUME NEW r \in Requests, dwm_filecopy_add(i, r)
      PROVE  JobsOK(jobs', pc, report)
  <2> DEFINE n == Append(j.items, r)
             k == [j EXCEPT !.items = n]
  <2>1. jobs' = [jobs EXCEPT ![i] = k]
    BY <1>2, <1>4 DEF dwm_filecopy_add
  <2>2. r \in Request
    BY FileCopyAssumption DEF Request
  <2>3. j.items \in Seq(Request) /\ Len(j.items) \in Nat /\ j.index \in Nat /\ Counted(j) \in Nat
    BY <1>2, JobFields
  <2>4. n \in Seq(Request) /\ Len(n) = Len(j.items) + 1
    BY <2>2, <2>3
  <2> HIDE DEF n, j
  <2>5. /\ k \in Job /\ k.items = n /\ k.index = j.index /\ Counted(k) = Counted(j)
        /\ Fresh(j) => Fresh(k)
    BY <1>2, <2>4 DEF Job, Counted, Fresh
  <2> HIDE DEF k
  <2>6. JobOK(j, pc) => JobOK(k, pc)
    BY <1>3, <2>3, <2>4, <2>5 DEF JobOK
  <2> QED BY <1>1, <2>1, <2>5, <2>6, JobsAt DEF j
<1>5. ASSUME fc_request_cancel(i)
      PROVE  JobsOK(jobs', pc, report)
  <2> DEFINE k == [j EXCEPT !.cancel = TRUE]
  <2>1. jobs' = [jobs EXCEPT ![i] = k]
    BY <1>2, <1>5 DEF fc_request_cancel
  <2> HIDE DEF j
  <2>2. /\ k \in Job /\ k.items = j.items /\ k.index = j.index /\ Counted(k) = Counted(j)
        /\ Fresh(j) => Fresh(k)
    BY <1>2 DEF Job, Counted, Fresh
  <2> HIDE DEF k
  <2>3. JobOK(j, pc) => JobOK(k, pc)
    BY <1>3, <2>2 DEF JobOK
  <2> QED BY <1>1, <2>1, <2>2, <2>3, JobsAt DEF j
<1> QED BY <1>1, <1>4, <1>5

(* The list of jobs, at every step.                                        *)
LEMMA NextJobs ==
    ASSUME JobsOK(jobs, pc, report), [Next]_vars
    PROVE  JobsOK(jobs', pc', report')
<1>1. CASE ItemStep
    BY <1>1, ItemStepJobs
<1>2. CASE Wake \/ TakeLock
    BY <1>2, WakeJobs
<1>3. CASE NextJob
    BY <1>3, NextJobJobs
<1>4. CASE NextItem
    BY <1>4, NextItemJobs
<1>5. CASE ItemFailed \/ ItemCopied
    BY <1>5, ItemEndJobs
<1>6. CASE EndJob
    BY <1>6, EndJobJobs
<1>7. CASE Users
    BY <1>7, SummonJobs, UserJobs DEF Users
<1>8. CASE OtherThreads
  <2>1. jobs' = jobs /\ pc' = pc /\ report' = report
    BY <1>8 DEF OtherThreads, OtherEdit, OtherCreate, Meddle, Outside
  <2> QED BY <2>1
<1>9. CASE UNCHANGED vars
    BY <1>9 DEF vars
<1> QED BY <1>1, <1>2, <1>3, <1>4, <1>5, <1>6, <1>7, <1>8, <1>9 DEF Next, Copier, ItemStep

-----------------------------------------------------------------------------
(***************************************************************************)
(* The disk, the stack and what the copier created.                        *)
(***************************************************************************)
Shape ==
    /\ fs \in [Paths -> Entry] /\ IsTree(fs)
    /\ StackOK(fs, cp, frames, pc)
    /\ OwnOK(fs, cp, frames, pc, own)
    /\ own \subseteq Paths
    /\ Len(frames) <= FC_MAX_DEPTH

(* What is on a disk stays there as what it is.                            *)
KindsStay(d, e) == \A p \in Paths : d[p].kind # "none" => e[p].kind = d[p].kind

SameItem(c, b) ==
    b \in Copy /\ b.src = c.src /\ b.dest = c.dest /\ b.isrc = c.isrc /\ b.idest = c.idest

(* An entry changes, but not what it is.                                   *)
LEMMA DiskChanged ==
    ASSUME fs \in [Paths -> Entry], IsTree(fs), NEW x \in Paths, NEW e \in Entry,
           e.kind = fs[x].kind, fs' = [fs EXCEPT ![x] = e]
    PROVE  /\ fs' \in [Paths -> Entry] /\ IsTree(fs')
           /\ \A p \in Paths : fs'[p].kind = fs[p].kind
           /\ \A p \in Paths \ {x} : fs'[p] = fs[p]
           /\ fs'[x] = e
<1>1. fs' \in [Paths -> Entry] /\ fs'[x] = e /\ \A p \in Paths \ {x} : fs'[p] = fs[p]
    OBVIOUS
<1>2. \A p \in Paths : fs'[p].kind = fs[p].kind
    BY <1>1
<1>3. IsTree(fs')
    BY <1>2, TreeKinds
<1> QED BY <1>1, <1>2, <1>3

(* A new entry in a folder.                                                *)
LEMMA DiskGrown ==
    ASSUME fs \in [Paths -> Entry], IsTree(fs), NEW x \in Paths, NEW e \in Entry,
           fs[x].kind = "none", HasFolder(x), fs' = [fs EXCEPT ![x] = e]
    PROVE  /\ fs' \in [Paths -> Entry] /\ IsTree(fs') /\ KindsStay(fs, fs')
           /\ \A p \in Paths \ {x} : fs'[p] = fs[p]
           /\ fs'[x] = e
<1>1. fs' \in [Paths -> Entry] /\ fs'[x] = e /\ \A p \in Paths \ {x} : fs'[p] = fs[p]
    OBVIOUS
<1>2. KindsStay(fs, fs')
    BY <1>1 DEF KindsStay
<1>3. Len(x) > 1 => Front(x) \in Paths /\ fs[Front(x)].kind \in {"dir", "mount"}
    BY DEF HasFolder, fc_parent
<1>4. IsTree(fs')
    BY <1>1, <1>3, TreeGrow
<1> QED BY <1>1, <1>2, <1>4

(* An entry is removed with what is below it.                              *)
LEMMA DiskCut ==
    ASSUME fs \in [Paths -> Entry], IsTree(fs), NEW x \in Paths
    PROVE  Without(x) \in [Paths -> Entry] /\ IsTree(Without(x))
<1>1. \A p \in Paths : Without(x)[p] = IF IsPrefix(x, p) THEN None ELSE fs[p]
    BY DEF Without
<1>2. None \in Entry
    BY DEF Entry
<1>3. Without(x) \in [Paths -> Entry]
    BY <1>2 DEF Without
<1>4. IsTree(Without(x))
    BY <1>1, TreeCut
<1> QED BY <1>3, <1>4

(* The kinds of entries there can be.                                      *)
LEMMA EntriesOK ==
    /\ None \in Entry /\ None.kind = "none"
    /\ Dir(TRUE) \in Entry /\ Dir(TRUE).kind = "dir" /\ Dir(TRUE).rw
    /\ Created \in Entry /\ Created.kind = "file" /\ Created.rw
    /\ \A s \in Seq(Chunks \cup {Junk}), w \in BOOLEAN :
          File(s, w) \in Entry /\ File(s, w).kind = "file"
<1>1. <<>> \in Seq(Chunks \cup {Junk})
    OBVIOUS
<1> QED BY <1>1 DEF Entry, None, Dir, Created, File

(* The stack outside an item.                                              *)
LEMMA StackIdle ==
    ASSUME NEW d, NEW c \in Copy, NEW l, l \notin ItemPcs
    PROVE  \A F : StackOK(d, c, F, l) <=> F = <<>>
<1>1. l # "copied" /\ l # "dir" /\ ~Entering(l) /\ l \notin FilePcs
    BY Places DEF Entering
<1>2. <<>> \in Seq(Frame)
    OBVIOUS
<1> QED BY <1>1, <1>2 DEF StackOK

(* The stack does not mind the file being written or the disk growing.     *)
LEMMA StackKeeps ==
    ASSUME NEW d, NEW e, NEW c, NEW b, NEW F, NEW l, NEW m,
           StackOK(d, c, F, l), KindsStay(d, e), SameItem(c, b), l \in ItemPcs,
           \/ m = l
           \/ m = "failed"
           \/ m \in FilePcs /\ Entering(l) /\ (l \in FilePcs \/ e[c.dest].kind = "file")
    PROVE  StackOK(e, b, F, m)
<1>1. /\ F \in Seq(Frame) /\ m \in ItemPcs
      /\ {b.src, b.dest, b.isrc, b.idest} \subseteq Paths
      /\ ~IsPrefix(b.isrc, b.idest) /\ ~IsPrefix(b.idest, b.isrc)
      /\ \A k \in 2..Len(F) : Front(F[k].src) = F[k - 1].src
    BY Places DEF StackOK, SameItem
<1>2. b \in Copy /\ b.isrc = c.isrc /\ b.idest = c.idest
    BY DEF SameItem
<1>3. \A k \in 1..Len(F) : At(b, F[k].src, F[k].dest, k - 1) /\ e[F[k].dest].kind = "dir"
  <2> SUFFICES ASSUME NEW k \in 1..Len(F)
               PROVE  At(b, F[k].src, F[k].dest, k - 1) /\ e[F[k].dest].kind = "dir"
    OBVIOUS
  <2>1. At(c, F[k].src, F[k].dest, k - 1) /\ d[F[k].dest].kind = "dir"
    BY DEF StackOK
  <2>2. At(b, F[k].src, F[k].dest, k - 1) /\ F[k].dest \in Paths
    BY <1>2, <2>1 DEF At, RebasedAt
  <2>3. e[F[k].dest].kind = "dir"
    BY <2>1, <2>2 DEF KindsStay
  <2> QED BY <2>2, <2>3
<1>4. Entering(m) => /\ At(b, b.src, b.dest, Len(F))
                     /\ F # <<>> => Front(b.src) = F[Len(F)].src
  <2> SUFFICES ASSUME Entering(m)
               PROVE  /\ At(b, b.src, b.dest, Len(F))
                      /\ F # <<>> => Front(b.src) = F[Len(F)].src
    OBVIOUS
  <2>1. Entering(l)
    BY Places DEF Entering
  <2>2. At(c, c.src, c.dest, Len(F)) /\ (F # <<>> => Front(c.src) = F[Len(F)].src)
    BY <2>1 DEF StackOK
  <2> QED BY <2>2 DEF SameItem, At, RebasedAt
<1>5. m \in FilePcs => e[b.dest].kind = "file"
  <2> SUFFICES ASSUME m \in FilePcs PROVE e[b.dest].kind = "file"
    OBVIOUS
  <2>1. b.dest = c.dest
    BY DEF SameItem
  <2>2. CASE l \in FilePcs
    <3>1. d[c.dest].kind = "file"
      BY <2>2 DEF StackOK
    <3> QED BY <1>1, <2>1, <3>1 DEF KindsStay
  <2>3. CASE l \notin FilePcs
    BY <2>1, <2>3, Places
  <2> QED BY <2>2, <2>3
<1>6. (m = "copied" => F = <<>>) /\ (m = "dir" => F # <<>>)
    BY Places DEF StackOK
<1> QED BY <1>1, <1>2, <1>3, <1>4, <1>5, <1>6 DEF StackOK

(* What the copier created is still there.                                 *)
LEMMA OwnKeeps ==
    ASSUME NEW d, NEW e, NEW c, NEW b, NEW F, NEW l, NEW m, NEW o,
           OwnOK(d, c, F, l, o), KindsStay(d, e), b.idest = c.idest, c.idest \in Paths,
           l \in ItemPcs, m = "copied" \/ (l # "copied" /\ e[c.idest].rw = d[c.idest].rw)
    PROVE  OwnOK(e, b, F, m, o)
    BY DEF OwnOK, KindsStay

(* What the copier created is still there when the item is copied.         *)
LEMMA OwnCopied ==
    ASSUME NEW d, NEW e, NEW c, NEW F, NEW l, NEW o,
           OwnOK(d, c, F, l, o), KindsStay(d, e), c.idest \in Paths, l \in ItemPcs
    PROVE  \A G : OwnOK(e, c, G, "copied", o)
    BY DEF OwnOK, KindsStay

(* Where the copy thread is, it is below the item.                         *)
LEMMA AtOK ==
    ASSUME NEW c, NEW s, NEW t, NEW k, At(c, s, t, k), k \in Nat,
           {c.isrc, c.idest} \subseteq Paths
    PROVE  /\ s \in Paths /\ t \in Paths /\ s \in Seq(Nat) /\ t \in Seq(Nat)
           /\ IsPrefix(c.idest, t) /\ IsPrefix(c.isrc, s)
           /\ Len(t) = Len(c.idest) + k /\ (k > 0 => t # c.idest)
           /\ k = 0 => s = c.isrc /\ t = c.idest
<1> DEFINE a == c.isrc
           b == c.idest
<1>1. /\ a \in Seq(Nat) /\ b \in Seq(Nat) /\ Len(a) \in Nat /\ Len(b) \in Nat
      /\ s \in Paths /\ t \in Paths /\ s \in Seq(Nat) /\ t \in Seq(Nat)
    BY PathsOK DEF At
<1>2. Len(s) = Len(a) + k /\ IsPrefix(a, s) /\ t = Rebase(a, b, s)
    BY DEF At, RebasedAt
<1> HIDE DEF a, b
<1>3. Len(t) = Len(b) + Len(s) - Len(a) /\ IsPrefix(b, t)
  <2>1. Len(Rebase(a, b, s)) = Len(b) + Len(s) - Len(a) /\ IsPrefix(b, Rebase(a, b, s))
    BY <1>1, <1>2, RebaseAt
  <2> QED BY <1>2, <2>1
<1>4. Len(t) = Len(b) + k
    BY <1>1, <1>2, <1>3
<1>5. k > 0 => t # b
    BY <1>1, <1>4
<1>6. ASSUME k = 0 PROVE s = a /\ t = b
  <2>1. Len(s) = Len(a)
    BY <1>1, <1>2, <1>6
  <2>2. s = a
    BY <1>1, <1>2, <2>1, PrefixSelf, PrefixLinear
  <2>3. Rebase(a, b, a) = b
    BY <1>1, RebaseRoot
  <2> QED BY <1>2, <2>2, <2>3
<1> QED BY <1>1, <1>2, <1>3, <1>4, <1>5, <1>6 DEF a, b

-----------------------------------------------------------------------------
(***************************************************************************)
(* Steps of the copy thread inside a file.                                 *)
(***************************************************************************)
FileStep ==
    \/ Truncate \/ Sized \/ Read \/ Write \/ Wrote \/ Reread \/ Compare \/ Compared
    \/ GiveUp

FileWritten(e) ==
    e \in Entry /\ e.kind = "file" /\ e.rw = fs[cp.dest].rw /\ fs' = [fs EXCEPT ![cp.dest] = e]

(* In a file, its copy is a file.                                          *)
LEMMA InFile ==
    ASSUME Shape, pc \in FilePcs
    PROVE  /\ cp \in Copy /\ cp.src \in Paths /\ cp.dest \in Paths
           /\ {cp.isrc, cp.idest} \subseteq Paths
           /\ fs[cp.dest] \in Entry /\ fs[cp.dest].kind = "file" /\ fs[cp.src] \in Entry
           /\ fs[cp.dest].data \in Seq(Chunks \cup {Junk}) /\ fs[cp.dest].rw \in BOOLEAN
           /\ Len(fs[cp.dest].data) \in Nat
           /\ cp.size \in Nat /\ cp.off \in Nat /\ cp.buf \in Chunks \cup {Junk}
<1>1. cp \in Copy /\ {cp.src, cp.dest, cp.isrc, cp.idest} \subseteq Paths
      /\ fs[cp.dest].kind = "file" /\ fs \in [Paths -> Entry]
    BY Places DEF Shape, StackOK
<1>2. cp.size \in Nat /\ cp.off \in Nat /\ cp.buf \in Chunks \cup {Junk}
    BY <1>1 DEF Copy
<1>3. fs[cp.dest] \in Entry /\ fs[cp.src] \in Entry
    BY <1>1
<1>4. fs[cp.dest].data \in Seq(Chunks \cup {Junk}) /\ fs[cp.dest].rw \in BOOLEAN
    BY <1>1, <1>3, EntryOK
<1> QED BY <1>1, <1>2, <1>3, <1>4

(* Every entry has a content, folders an empty one.                        *)
LEMMA EntryData ==
    ASSUME NEW e \in Entry
    PROVE  e.data \in Seq(Chunks \cup {Junk}) /\ Len(e.data) \in Nat
<1> DEFINE S == Seq(Chunks \cup {Junk})
<1>1. <<>> \in S
    OBVIOUS
<1>2. e.kind # "file" => e.data = <<>>
  <2>1. e.kind = "none" => e = None
    BY EntryOK
  <2>2. None.data = <<>>
    BY DEF None
  <2>3. e.kind \in {"dir", "mount"} => e = [kind |-> e.kind, data |-> <<>>, rw |-> e.rw]
    BY EntryOK
  <2>4. [kind |-> e.kind, data |-> <<>>, rw |-> e.rw].data = <<>>
    OBVIOUS
  <2>5. e.kind \in {"none", "dir", "mount", "file"}
    BY EntryOK
  <2> QED BY <2>1, <2>2, <2>3, <2>4, <2>5
<1>3. e.kind = "file" => e.data \in S
    BY EntryOK
<1> HIDE DEF S
<1>4. e.data \in S
    BY <1>1, <1>2, <1>3
<1> QED BY <1>4 DEF S

(* The same file, with other contents.                                     *)
LEMMA FileData ==
    ASSUME NEW e \in Entry, e.kind = "file", NEW s \in Seq(Chunks \cup {Junk})
    PROVE  /\ [e EXCEPT !.data = s] \in Entry /\ [e EXCEPT !.data = s].kind = "file"
           /\ [e EXCEPT !.data = s].rw = e.rw /\ [e EXCEPT !.data = s].data = s
<1>1. e = [kind |-> "file", data |-> e.data, rw |-> e.rw] /\ e.rw \in BOOLEAN
    BY EntryOK
<1>2. [e EXCEPT !.data = s] = [kind |-> "file", data |-> s, rw |-> e.rw]
    BY <1>1
<1> QED BY <1>1, <1>2 DEF Entry

(* The same entry, with other permissions.                                 *)
LEMMA EntryRw ==
    ASSUME NEW e \in Entry, e.kind # "none", NEW w \in BOOLEAN
    PROVE  /\ [e EXCEPT !.rw = w] \in Entry /\ [e EXCEPT !.rw = w].kind = e.kind
           /\ [e EXCEPT !.rw = w].rw = w /\ [e EXCEPT !.rw = w].data = e.data
<1>1. CASE e.kind = "file"
  <2>1. e = [kind |-> "file", data |-> e.data, rw |-> e.rw]
        /\ e.data \in Seq(Chunks \cup {Junk})
    BY <1>1, EntryOK
  <2>2. [e EXCEPT !.rw = w] = [kind |-> "file", data |-> e.data, rw |-> w]
    BY <2>1
  <2> QED BY <1>1, <2>1, <2>2 DEF Entry
<1>2. CASE e.kind \in {"dir", "mount"}
  <2>1. e = [kind |-> e.kind, data |-> <<>>, rw |-> e.rw]
    BY <1>2, EntryOK
  <2>2. [e EXCEPT !.rw = w] = [kind |-> e.kind, data |-> <<>>, rw |-> w] /\ e.data = <<>>
    BY <2>1
  <2> QED BY <1>2, <2>2 DEF Entry
<1> QED BY <1>1, <1>2, EntryOK

(* What fs_file_resize returns.                                            *)
LEMMA ResizedOK ==
    ASSUME NEW s \in Seq(Chunks \cup {Junk}), NEW n \in Nat
    PROVE  Resized(s, n) \in Seq(Chunks \cup {Junk}) /\ Len(Resized(s, n)) = n
<1>1. \A i \in 1..n : (IF i <= Len(s) THEN s[i] ELSE Junk) \in Chunks \cup {Junk}
    OBVIOUS
<1>2. Resized(s, n) \in [1..n -> Chunks \cup {Junk}]
    BY <1>1 DEF Resized
<1> QED BY <1>2

(* Only the buffer and the position change in cp.                          *)
LEMMA CopyFields ==
    ASSUME NEW c \in Copy
    PROVE  /\ SameItem(c, c)
           /\ \A b \in Chunks \cup {Junk} :
                SameItem(c, [c EXCEPT !.buf = b]) /\ [c EXCEPT !.buf = b].buf = b
                /\ [c EXCEPT !.buf = b].off = c.off /\ [c EXCEPT !.buf = b].size = c.size
           /\ \A n \in Nat :
                SameItem(c, [c EXCEPT !.off = n]) /\ [c EXCEPT !.off = n].off = n
                /\ [c EXCEPT !.off = n].size = c.size /\ [c EXCEPT !.off = n].buf = c.buf
           /\ \A n \in Nat :
                SameItem(c, [c EXCEPT !.size = n, !.off = 0])
                /\ [c EXCEPT !.size = n, !.off = 0].off = 0
                /\ [c EXCEPT !.size = n, !.off = 0].size = n
<1>1. \A b \in Chunks \cup {Junk} :
          SameItem(c, [c EXCEPT !.buf = b]) /\ [c EXCEPT !.buf = b].buf = b
          /\ [c EXCEPT !.buf = b].off = c.off /\ [c EXCEPT !.buf = b].size = c.size
    BY DEF Copy, SameItem
<1>2. \A n \in Nat :
          SameItem(c, [c EXCEPT !.off = n]) /\ [c EXCEPT !.off = n].off = n
          /\ [c EXCEPT !.off = n].size = c.size /\ [c EXCEPT !.off = n].buf = c.buf
    BY DEF Copy, SameItem
<1>3. \A n \in Nat :
          SameItem(c, [c EXCEPT !.size = n, !.off = 0])
          /\ [c EXCEPT !.size = n, !.off = 0].off = 0
          /\ [c EXCEPT !.size = n, !.off = 0].size = n
    BY DEF Copy, SameItem
<1> QED BY <1>1, <1>2, <1>3 DEF SameItem

(* Reading a chunk changes the buffer only.                                *)
LEMMA ReadChunkOK ==
    ASSUME Shape, pc \in FilePcs, NEW l, ReadChunk(l)
    PROVE  SameItem(cp, cp') /\ pc' \in {l, "iofail"}
<1>1. cp \in Copy /\ cp.off \in Nat /\ fs[cp.src] \in Entry
    BY InFile
<1>2. CASE cp' = cp
    BY <1>1, <1>2, CopyFields DEF ReadChunk, Goto
<1>3. CASE cp.off < Len(fs[cp.src].data) /\ cp' = [cp EXCEPT !.buf = fs[cp.src].data[cp.off + 1]]
  <2>1. fs[cp.src].data \in Seq(Chunks \cup {Junk})
    BY <1>1, EntryData
  <2>2. fs[cp.src].data[cp.off + 1] \in Chunks \cup {Junk}
    BY <1>1, <1>3, <2>1
  <2> QED BY <1>1, <1>3, <2>2, CopyFields DEF ReadChunk, Goto
<1> QED BY <1>2, <1>3 DEF ReadChunk, Goto

(* The end of a chunk changes the position only.                           *)
LEMMA ChunkDoneOK ==
    ASSUME Shape, pc \in FilePcs, NEW l, NEW m, ChunkDone(l, m)
    PROVE  SameItem(cp, cp') /\ pc' \in {l, m, "failed"}
<1>1. cp \in Copy /\ cp.off \in Nat /\ 0 \in Nat /\ cp.off + 1 \in Nat
    BY InFile
<1>2. \/ cp' = cp
      \/ cp' = [cp EXCEPT !.off = cp.off + 1]
      \/ cp' = [cp EXCEPT !.off = 0]
    BY DEF ChunkDone
<1>3. SameItem(cp, cp)
    BY <1>1, CopyFields
<1>4. SameItem(cp, [cp EXCEPT !.off = cp.off + 1]) /\ SameItem(cp, [cp EXCEPT !.off = 0])
    BY <1>1, CopyFields
<1>5. SameItem(cp, cp')
    BY <1>2, <1>3, <1>4
<1> QED BY <1>5 DEF ChunkDone, Goto

(* The steps on a file write the copy only.                                *)
LEMMA FileSteps ==
    ASSUME Shape, FileStep
    PROVE  /\ pc \in FilePcs /\ pc' \in FilePcs \cup {"failed"}
           /\ frames' = frames /\ own' = own /\ SameItem(cp, cp')
           /\ \E e : FileWritten(e)
<1>1. pc \in FilePcs
    BY Places DEF FileStep, Truncate, Sized, Read, Write, Wrote, Reread, Compare, Compared,
                  GiveUp
<1>2. /\ cp \in Copy /\ cp.dest \in Paths /\ fs[cp.dest] \in Entry
      /\ fs[cp.dest].kind = "file" /\ fs \in [Paths -> Entry]
      /\ fs[cp.dest].data \in Seq(Chunks \cup {Junk})
      /\ cp.size \in Nat /\ cp.off \in Nat /\ cp.buf \in Chunks \cup {Junk}
    BY <1>1, InFile DEF Shape
<1>3. frames' = frames /\ own' = own
    BY DEF FileStep, Truncate, Sized, Read, Write, Wrote, Reread, Compare, Compared, GiveUp,
           Quiet
<1>4. fs' = fs => FileWritten(fs[cp.dest])
  <2>1. fs = [fs EXCEPT ![cp.dest] = fs[cp.dest]]
    BY <1>2
  <2> QED BY <1>2, <2>1 DEF FileWritten
<1>5. \A s \in Seq(Chunks \cup {Junk}) :
          fs' = [fs EXCEPT ![cp.dest].data = s] => FileWritten([fs[cp.dest] EXCEPT !.data = s])
    BY <1>2, FileData DEF FileWritten
<1>6. cp' = cp => SameItem(cp, cp')
    BY <1>2, CopyFields
<1>7. CASE Truncate
  <2>1. Resized(fs[cp.dest].data, cp.size) \in Seq(Chunks \cup {Junk})
    BY <1>2, ResizedOK
  <2>2. fs' = fs \/ fs' = [fs EXCEPT ![cp.dest].data = Resized(fs[cp.dest].data, cp.size)]
    BY <1>7 DEF Truncate
  <2>3. pc' \in FilePcs /\ cp' = cp
    BY <1>7, Places DEF Truncate, Goto
  <2> QED BY <1>1, <1>3, <1>4, <1>5, <1>6, <2>1, <2>2, <2>3
<1>8. CASE Sized \/ Compare \/ GiveUp
  <2>1. pc' \in FilePcs \cup {"failed"} /\ cp' = cp /\ fs' = fs
    BY <1>8, Places DEF Sized, Compare, GiveUp, Goto
  <2> QED BY <1>1, <1>3, <1>4, <1>6, <2>1
<1>9. CASE Read \/ Reread
  <2>1. fs' = fs /\ (ReadChunk("write") \/ ReadChunk("compare"))
    BY <1>9 DEF Read, Reread
  <2>2. SameItem(cp, cp') /\ pc' \in FilePcs
    BY <1>1, <2>1, ReadChunkOK, Places
  <2> QED BY <1>1, <1>3, <1>4, <2>1, <2>2
<1>10. CASE Wrote \/ Compared
  <2>1. fs' = fs /\ (ChunkDone("read", "reread") \/ ChunkDone("reread", "filedone"))
    BY <1>10 DEF Wrote, Compared
  <2>2. SameItem(cp, cp') /\ pc' \in FilePcs \cup {"failed"}
    BY <1>1, <2>1, ChunkDoneOK, Places
  <2> QED BY <1>1, <1>3, <1>4, <2>1, <2>2
<1>11. CASE Write
  <2>1. cp' = cp /\ pc' \in FilePcs
    BY <1>11, Places DEF Write, Goto
  <2>2. CASE fs' = fs
    BY <1>1, <1>3, <1>4, <1>6, <2>1, <2>2
  <2>3. CASE fs' # fs
    <3>1. PICK v \in {cp.buf, Junk} :
              cp.off < Len(fs[cp.dest].data) /\ fs' = [fs EXCEPT ![cp.dest].data[cp.off + 1] = v]
      BY <1>11, <2>3 DEF Write
    <3> DEFINE s == [fs[cp.dest].data EXCEPT ![cp.off + 1] = v]
    <3>2. s \in Seq(Chunks \cup {Junk})
      BY <1>2, <3>1
    <3>3. fs' = [fs EXCEPT ![cp.dest].data = s]
      BY <1>2, <3>1
    <3> HIDE DEF s
    <3> QED BY <1>1, <1>3, <1>5, <1>6, <2>1, <3>2, <3>3
  <2> QED BY <2>2, <2>3
<1> QED BY <1>7, <1>8, <1>9, <1>10, <1>11 DEF FileStep

(* The steps on a file keep disk and stack in order.                       *)
LEMMA FileStepShape ==
    ASSUME Shape, FileStep
    PROVE  Shape'
<1>1. /\ pc \in FilePcs /\ pc' \in FilePcs \cup {"failed"} /\ frames' = frames /\ own' = own
      /\ SameItem(cp, cp')
    BY FileSteps
<1>2. PICK e : FileWritten(e)
    BY FileSteps
<1>3. /\ cp.dest \in Paths /\ fs[cp.dest].kind = "file" /\ cp.idest \in Paths
    BY <1>1, InFile
<1>4. /\ fs' \in [Paths -> Entry] /\ IsTree(fs')
      /\ \A p \in Paths : fs'[p].kind = fs[p].kind
      /\ \A p \in Paths \ {cp.dest} : fs'[p] = fs[p]
      /\ fs'[cp.dest] = e
    BY <1>2, <1>3, DiskChanged DEF Shape, FileWritten
<1>5. KindsStay(fs, fs') /\ fs'[cp.idest].rw = fs[cp.idest].rw
    BY <1>2, <1>3, <1>4 DEF KindsStay, FileWritten
<1>6. pc \in ItemPcs /\ pc # "copied"
    BY <1>1, Places
<1>7. StackOK(fs', cp', frames, pc')
    BY <1>1, <1>5, <1>6, StackKeeps DEF Shape, Entering
<1>8. OwnOK(fs', cp', frames, pc', own)
    BY <1>1, <1>3, <1>5, <1>6, OwnKeeps DEF Shape, SameItem
<1> QED BY <1>1, <1>4, <1>7, <1>8 DEF Shape

-----------------------------------------------------------------------------
(***************************************************************************)
(* Steps that enter an item, and that end one.                             *)
(***************************************************************************)
LEMMA InEnter ==
    ASSUME Shape, pc = "enter" \/ pc \in FilePcs
    PROVE  /\ cp \in Copy /\ cp.src \in Paths /\ cp.dest \in Paths
           /\ {cp.isrc, cp.idest} \subseteq Paths
           /\ ~IsPrefix(cp.isrc, cp.idest) /\ ~IsPrefix(cp.idest, cp.isrc)
           /\ fs[cp.src] \in Entry /\ fs[cp.dest] \in Entry
           /\ frames \in Seq(Frame) /\ Len(frames) \in Nat
           /\ At(cp, cp.src, cp.dest, Len(frames))
           /\ frames # <<>> => Front(cp.src) = frames[Len(frames)].src
           /\ IsPrefix(cp.idest, cp.dest) /\ IsPrefix(cp.isrc, cp.src)
           /\ frames = <<>> <=> cp.dest = cp.idest
           /\ frames = <<>> => cp.src = cp.isrc
<1>1. /\ cp \in Copy /\ {cp.src, cp.dest, cp.isrc, cp.idest} \subseteq Paths
      /\ fs \in [Paths -> Entry] /\ frames \in Seq(Frame) /\ At(cp, cp.src, cp.dest, Len(frames))
      /\ ~IsPrefix(cp.isrc, cp.idest) /\ ~IsPrefix(cp.idest, cp.isrc)
      /\ frames # <<>> => Front(cp.src) = frames[Len(frames)].src
    BY Places DEF Shape, StackOK, Entering
<1>2. Len(frames) \in Nat /\ (frames = <<>> <=> Len(frames) = 0)
    BY <1>1
<1>3. /\ IsPrefix(cp.idest, cp.dest) /\ IsPrefix(cp.isrc, cp.src)
      /\ Len(frames) > 0 => cp.dest # cp.idest
      /\ Len(frames) = 0 => cp.src = cp.isrc /\ cp.dest = cp.idest
    BY <1>1, <1>2, AtOK
<1> QED BY <1>1, <1>2, <1>3

(* The copier makes an item.                                               *)
LEMMA Creates ==
    ASSUME Shape, pc = "enter", NEW e \in Entry, e.rw, e.kind # "none",
           fs[cp.dest].kind = "none", HasFolder(cp.dest),
           fs' = [fs EXCEPT ![cp.dest] = e], own' = own \cup {cp.dest}, SameItem(cp, cp')
    PROVE  /\ fs' \in [Paths -> Entry] /\ IsTree(fs') /\ KindsStay(fs, fs')
           /\ \A p \in Paths \ {cp.dest} : fs'[p] = fs[p]
           /\ fs'[cp.dest] = e
           /\ own' \subseteq Paths
           /\ \A F, m : OwnOK(fs', cp', F, m, own')
<1>1. /\ cp.dest \in Paths /\ cp.idest \in Paths /\ IsPrefix(cp.idest, cp.dest)
      /\ frames = <<>> <=> cp.dest = cp.idest
    BY InEnter
<1>2. /\ fs' \in [Paths -> Entry] /\ IsTree(fs') /\ KindsStay(fs, fs')
      /\ \A p \in Paths \ {cp.dest} : fs'[p] = fs[p]
      /\ fs'[cp.dest] = e
    BY <1>1, DiskGrown DEF Shape
<1>3. fs'[cp.idest].kind # "none"
  <2>1. cp.idest \in Seq(Nat) /\ Len(cp.idest) > 0
    BY <1>1, PathsOK
  <2> QED BY <1>1, <1>2, <2>1, TreeAbove
<1>4. fs'[cp.idest].rw
  <2>1. CASE frames = <<>>
    BY <1>1, <1>2, <2>1
  <2>2. CASE frames # <<>>
    <3>1. fs[cp.idest].rw
      BY <2>2, Places DEF Shape, OwnOK
    <3> QED BY <1>1, <1>2, <2>2, <3>1
  <2> QED BY <2>1, <2>2
<1>5. own' \subseteq Paths /\ \A p \in own' : IsPrefix(cp.idest, p)
  <2>1. \A p \in own : IsPrefix(cp.idest, p)
    BY Places DEF Shape, OwnOK
  <2> QED BY <1>1, <2>1 DEF Shape
<1>6. ASSUME NEW F, NEW m PROVE OwnOK(fs', cp', F, m, own')
    BY <1>3, <1>4, <1>5 DEF OwnOK, SameItem
<1> QED BY <1>2, <1>5, <1>6

(* So does an item that is refused,                                        *)
LEMMA EnterRefusedShape ==
    ASSUME Shape, EnterRefused
    PROVE  Shape'
<1>1. /\ pc = "enter" /\ pc' = "failed" /\ fs' = fs /\ frames' = frames /\ cp' = cp
      /\ own' = own /\ "enter" \in ItemPcs
    BY Places DEF EnterRefused, Enter, Goto
<1>2. SameItem(cp, cp) /\ KindsStay(fs, fs) /\ cp.idest \in Paths
    BY <1>1, InEnter, CopyFields DEF KindsStay
<1>3. StackOK(fs, cp, frames, "failed")
    BY <1>1, <1>2, StackKeeps DEF Shape
<1>4. OwnOK(fs, cp, frames, "failed", own)
    BY <1>1, <1>2, OwnKeeps DEF Shape
<1> QED BY <1>1, <1>3, <1>4 DEF Shape

(* What vfs_directory_get_item_count counts.                               *)
LEMMA CountOK ==
    vfs_directory_get_item_count(cp.src) = Cardinality(EntriesIn(fs, cp.src))
<1>1. Entries(cp.src) = EntriesIn(fs, cp.src)
    BY DEF Entries, EntriesIn, vfs_exists
<1> QED BY <1>1 DEF vfs_directory_get_item_count

(* A folder is entered.                                                    *)
LEMMA StackPush ==
    ASSUME NEW d, NEW c, NEW F, NEW i \in Nat, NEW n \in Nat,
           StackOK(d, c, F, "enter"), d[c.dest].kind = "dir"
    PROVE  StackOK(d, c, Append(F, [src |-> c.src, dest |-> c.dest, i |-> i, count |-> n]), "dir")
<1> DEFINE f == [src |-> c.src, dest |-> c.dest, i |-> i, count |-> n]
           G == Append(F, f)
<1>1. /\ F \in Seq(Frame) /\ c \in Copy /\ {c.src, c.dest, c.isrc, c.idest} \subseteq Paths
      /\ ~IsPrefix(c.isrc, c.idest) /\ ~IsPrefix(c.idest, c.isrc)
      /\ \A k \in 1..Len(F) : /\ At(c, F[k].src, F[k].dest, k - 1)
                              /\ d[F[k].dest].kind = "dir"
      /\ \A k \in 2..Len(F) : Front(F[k].src) = F[k - 1].src
      /\ At(c, c.src, c.dest, Len(F))
      /\ F # <<>> => Front(c.src) = F[Len(F)].src
    BY Places DEF StackOK, Entering
<1>2. f \in Frame /\ f.src = c.src /\ f.dest = c.dest
    BY <1>1 DEF Frame
<1> HIDE DEF f
<1>3. /\ G \in Seq(Frame) /\ Len(G) = Len(F) + 1 /\ Len(F) \in Nat /\ G # <<>>
      /\ G[Len(F) + 1] = f /\ \A k \in 1..Len(F) : G[k] = F[k]
    BY <1>1, <1>2
<1> HIDE DEF G
<1>4. \A k \in 1..Len(G) : At(c, G[k].src, G[k].dest, k - 1) /\ d[G[k].dest].kind = "dir"
  <2> SUFFICES ASSUME NEW k \in 1..Len(G)
               PROVE  At(c, G[k].src, G[k].dest, k - 1) /\ d[G[k].dest].kind = "dir"
    OBVIOUS
  <2>1. CASE k \in 1..Len(F)
    BY <1>1, <1>3, <2>1
  <2>2. CASE k = Len(F) + 1
    <3>1. k - 1 = Len(F)
      BY <1>3, <2>2
    <3> QED BY <1>1, <1>2, <1>3, <2>2, <3>1
  <2> QED BY <1>3, <2>1, <2>2
<1>5. \A k \in 2..Len(G) : Front(G[k].src) = G[k - 1].src
  <2> SUFFICES ASSUME NEW k \in 2..Len(G) PROVE Front(G[k].src) = G[k - 1].src
    OBVIOUS
  <2>1. CASE k \in 2..Len(F)
    <3>1. k - 1 \in 1..Len(F) /\ k \in 1..Len(F)
      BY <1>3, <2>1
    <3> QED BY <1>1, <1>3, <2>1, <3>1
  <2>2. CASE k = Len(F) + 1
    <3>1. k - 1 = Len(F) /\ Len(F) \in 1..Len(F) /\ F # <<>>
      BY <1>3, <2>2
    <3> QED BY <1>1, <1>2, <1>3, <2>2, <3>1
  <2> QED BY <1>3, <2>1, <2>2
<1>6. StackOK(d, c, G, "dir")
    BY <1>1, <1>3, <1>4, <1>5, Places DEF StackOK, Entering
<1> QED BY <1>6 DEF G, f

(* ... a folder that is entered,                                           *)
LEMMA EnterDirectoryShape ==
    ASSUME Shape, EnterDirectory
    PROVE  Shape'
<1>1. pc = "enter" /\ cp' = cp /\ ~TooDeep /\ "enter" \in ItemPcs
    BY Places DEF EnterDirectory, Enter
<1>2. /\ cp \in Copy /\ cp.src \in Paths /\ cp.dest \in Paths /\ cp.idest \in Paths
      /\ fs[cp.dest] \in Entry /\ SameItem(cp, cp) /\ Len(frames) \in Nat
      /\ frames \in Seq(Frame)
    BY <1>1, InEnter, CopyFields
<1>3. CASE pc' = "failed" /\ fs' = fs /\ own' = own /\ frames' = frames
  <2>1. KindsStay(fs, fs)
    BY DEF KindsStay
  <2>2. StackOK(fs, cp, frames, "failed")
    BY <1>1, <1>2, <2>1, StackKeeps DEF Shape
  <2>3. OwnOK(fs, cp, frames, "failed", own)
    BY <1>1, <1>2, <2>1, OwnKeeps DEF Shape
  <2> QED BY <1>1, <1>3, <2>2, <2>3 DEF Shape
<1>4. CASE /\ CanMakeDirectory(cp.dest)
           /\ fs' = [fs EXCEPT ![cp.dest] = Dir(TRUE)] /\ own' = own \cup {cp.dest}
  <2>1. fs[cp.dest].kind = "none" /\ HasFolder(cp.dest)
    BY <1>2, <1>4 DEF CanMakeDirectory, vfs_exists
  <2>2. Dir(TRUE) \in Entry /\ Dir(TRUE).rw /\ Dir(TRUE).kind = "dir"
    BY EntriesOK
  <2>3. /\ fs' \in [Paths -> Entry] /\ IsTree(fs') /\ KindsStay(fs, fs')
        /\ fs'[cp.dest] = Dir(TRUE)
        /\ own' \subseteq Paths /\ \A F, m : OwnOK(fs', cp', F, m, own')
    BY <1>1, <1>2, <1>4, <2>1, <2>2, Creates
  <2>4. CASE pc' = "failed" /\ frames' = frames
    <3>1. StackOK(fs', cp, frames, "failed")
      BY <1>1, <1>2, <2>3, StackKeeps DEF Shape
    <3> QED BY <1>1, <2>3, <2>4, <3>1 DEF Shape
  <2>5. CASE /\ pc' = "dir"
             /\ frames' = Append(frames, [src |-> cp.src, dest |-> cp.dest, i |-> 0,
                                          count |-> vfs_directory_get_item_count(cp.src)])
    <3>1. vfs_directory_get_item_count(cp.src) \in Nat /\ 0 \in Nat
      BY CountOK, IndexOK
    <3>2. StackOK(fs', cp, frames, "enter")
      BY <1>1, <1>2, <2>3, StackKeeps DEF Shape
    <3>3. StackOK(fs', cp, frames', "dir")
      BY <2>2, <2>3, <2>5, <3>1, <3>2, StackPush
    <3>4. Len(frames') <= FC_MAX_DEPTH
      <4>1. Len(frames') = Len(frames) + 1
        BY <1>2, <2>5
      <4> QED BY <1>1, <1>2, <4>1, FileCopyAssumption DEF TooDeep
    <3> QED BY <1>1, <2>3, <2>5, <3>3, <3>4 DEF Shape
  <2> QED BY <1>3, <1>4, <2>4, <2>5 DEF EnterDirectory, Goto
<1> QED BY <1>1, <1>3, <1>4 DEF EnterDirectory, Goto

(* What opening the copy does.                                             *)
LEMMA EnterFileSteps ==
    ASSUME Shape, EnterFile
    PROVE  /\ pc = "enter" /\ frames' = frames /\ SameItem(cp, cp')
           /\ \/ pc' = "failed" /\ fs' = fs /\ own' = own /\ cp' = cp
              \/ /\ pc' \in {"trunc", "failed"} /\ fs[cp.src].kind = "file"
                 /\ cp'.size = Len(fs[cp.src].data) /\ cp'.off = 0
                 /\ \/ fs[cp.dest].kind = "file" /\ fs' = fs /\ own' = own
                    \/ /\ fs[cp.dest].kind = "none" /\ HasFolder(cp.dest)
                       /\ fs' = [fs EXCEPT ![cp.dest] = Created]
                       /\ own' = own \cup {cp.dest}
<1>1. pc = "enter" /\ frames' = frames
    BY DEF EnterFile, Enter
<1>2. /\ cp \in Copy /\ cp.src \in Paths /\ cp.dest \in Paths /\ fs[cp.dest] \in Entry
      /\ fs[cp.src] \in Entry /\ SameItem(cp, cp) /\ fs \in [Paths -> Entry]
    BY <1>1, InEnter, CopyFields DEF Shape
<1>3. CASE pc' = "failed" /\ fs' = fs /\ own' = own /\ cp' = cp
    BY <1>1, <1>2, <1>3
<1>4. CASE /\ fs[cp.src].kind = "file" /\ CanOpen(cp.dest)
           /\ fs' = [fs EXCEPT ![cp.dest] = IF @ = None THEN Created ELSE @]
           /\ own' = IF vfs_exists(cp.dest) THEN own ELSE own \cup {cp.dest}
           /\ cp' = [cp EXCEPT !.size = Len(fs[cp.src].data), !.off = 0]
           /\ pc' \in {"trunc", "failed"}
  <2>1. Len(fs[cp.src].data) \in Nat
    BY <1>2, EntryData
  <2>2. SameItem(cp, cp') /\ cp'.off = 0 /\ cp'.size = Len(fs[cp.src].data)
    BY <1>2, <1>4, <2>1, CopyFields
  <2>3. CASE fs[cp.dest].kind = "file"
    <3>1. fs[cp.dest] # None /\ vfs_exists(cp.dest)
      BY <1>2, <2>3 DEF None, vfs_exists
    <3>2. fs' = fs /\ own' = own
      BY <1>2, <1>4, <3>1
    <3> QED BY <1>1, <1>4, <2>2, <2>3, <3>2
  <2>4. CASE fs[cp.dest].kind # "file"
    <3>1. ~vfs_exists(cp.dest) /\ HasFolder(cp.dest)
      BY <1>4, <2>4 DEF CanOpen
    <3>2. fs[cp.dest].kind = "none" /\ fs[cp.dest] = None
      BY <1>2, <3>1, EntryOK DEF vfs_exists
    <3>3. fs' = [fs EXCEPT ![cp.dest] = Created] /\ own' = own \cup {cp.dest}
      BY <1>2, <1>4, <3>1, <3>2
    <3> QED BY <1>1, <1>4, <2>2, <3>1, <3>2, <3>3
  <2> QED BY <2>3, <2>4
<1> QED BY <1>3, <1>4 DEF EnterFile, Goto

(* ... a file that is created,                                             *)
LEMMA EnterFileShape ==
    ASSUME Shape, EnterFile
    PROVE  Shape'
<1>1. pc = "enter" /\ frames' = frames /\ SameItem(cp, cp') /\ "enter" \in ItemPcs
    BY EnterFileSteps, Places
<1>2. /\ cp.dest \in Paths /\ cp.idest \in Paths /\ cp'.idest = cp.idest
    BY <1>1, InEnter DEF SameItem
<1>3. pc' \in {"trunc", "failed"}
    BY EnterFileSteps
<1>4. ASSUME KindsStay(fs, fs'), pc' = "failed" \/ fs'[cp.dest].kind = "file"
      PROVE  StackOK(fs', cp', frames, pc')
    BY <1>1, <1>3, <1>4, StackKeeps, Places DEF Shape, Entering
<1>5. CASE fs' = fs /\ own' = own /\ (pc' = "failed" \/ fs[cp.dest].kind = "file")
  <2>1. KindsStay(fs, fs')
    BY <1>5 DEF KindsStay
  <2>2. StackOK(fs', cp', frames, pc')
    BY <1>4, <1>5, <2>1
  <2>3. OwnOK(fs', cp', frames, pc', own)
    BY <1>1, <1>2, <1>5, <2>1, OwnKeeps DEF Shape
  <2> QED BY <1>1, <1>5, <2>2, <2>3 DEF Shape
<1>6. CASE /\ fs[cp.dest].kind = "none" /\ HasFolder(cp.dest)
           /\ fs' = [fs EXCEPT ![cp.dest] = Created] /\ own' = own \cup {cp.dest}
  <2>1. Created \in Entry /\ Created.rw /\ Created.kind = "file"
    BY EntriesOK
  <2>2. /\ fs' \in [Paths -> Entry] /\ IsTree(fs') /\ KindsStay(fs, fs')
        /\ fs'[cp.dest] = Created
        /\ own' \subseteq Paths /\ \A F, m : OwnOK(fs', cp', F, m, own')
    BY <1>1, <1>6, <2>1, Creates
  <2>3. StackOK(fs', cp', frames, pc')
    BY <1>4, <2>1, <2>2
  <2> QED BY <1>1, <2>2, <2>3 DEF Shape
<1> QED BY <1>5, <1>6, EnterFileSteps

(* In a folder, its copy is a folder.                                      *)
LEMMA InFolder ==
    ASSUME Shape, pc = "dir"
    PROVE  /\ cp \in Copy /\ {cp.isrc, cp.idest} \subseteq Paths
           /\ ~IsPrefix(cp.isrc, cp.idest) /\ ~IsPrefix(cp.idest, cp.isrc)
           /\ frames \in Seq(Frame) /\ Len(frames) \in Nat /\ Len(frames) > 0
           /\ top = frames[Len(frames)] /\ top \in Frame
           /\ At(cp, top.src, top.dest, Len(frames) - 1)
           /\ fs[top.dest].kind = "dir" /\ fs[top.dest] \in Entry /\ fs[top.src] \in Entry
           /\ top.src \in Paths /\ top.dest \in Paths
           /\ top.src \in Seq(Nat) /\ top.dest \in Seq(Nat)
           /\ IsPrefix(cp.idest, top.dest) /\ IsPrefix(cp.isrc, top.src)
           /\ Len(frames) = 1 => top.src = cp.isrc /\ top.dest = cp.idest
           /\ Len(frames) > 1 => top.dest # cp.idest
<1>1. /\ cp \in Copy /\ {cp.isrc, cp.idest} \subseteq Paths
      /\ ~IsPrefix(cp.isrc, cp.idest) /\ ~IsPrefix(cp.idest, cp.isrc)
      /\ frames \in Seq(Frame) /\ frames # <<>> /\ fs \in [Paths -> Entry]
      /\ \A k \in 1..Len(frames) : /\ At(cp, frames[k].src, frames[k].dest, k - 1)
                                   /\ fs[frames[k].dest].kind = "dir"
    BY Places DEF Shape, StackOK
<1>2. Len(frames) \in Nat /\ Len(frames) > 0 /\ Len(frames) \in 1..Len(frames)
    BY <1>1
<1>3. top = frames[Len(frames)] /\ top \in Frame
    BY <1>1, <1>2 DEF top, Last
<1>4. At(cp, top.src, top.dest, Len(frames) - 1) /\ fs[top.dest].kind = "dir"
    BY <1>1, <1>2, <1>3
<1>5. Len(frames) - 1 \in Nat
    BY <1>2
<1> DEFINE n == Len(frames) - 1
<1>6. n \in Nat /\ At(cp, top.src, top.dest, n)
    BY <1>4, <1>5
<1> HIDE DEF n
<1>7. /\ top.src \in Paths /\ top.dest \in Paths
      /\ top.src \in Seq(Nat) /\ top.dest \in Seq(Nat)
      /\ IsPrefix(cp.idest, top.dest) /\ IsPrefix(cp.isrc, top.src)
      /\ (n > 0 => top.dest # cp.idest)
      /\ n = 0 => top.src = cp.isrc /\ top.dest = cp.idest
    BY <1>1, <1>6, AtOK
<1>8. (Len(frames) = 1 <=> n = 0) /\ (Len(frames) > 1 <=> n > 0)
    BY <1>2 DEF n
<1>9. fs[top.dest] \in Entry /\ fs[top.src] \in Entry
    BY <1>1, <1>7
<1> QED BY <1>1, <1>2, <1>3, <1>4, <1>7, <1>8, <1>9

(* The entry a folder is at.                                               *)
LEMMA FrameStep ==
    ASSUME NEW F \in Seq(Frame), F # <<>>
    PROVE  LET G == [F EXCEPT ![Len(F)].i = @ + 1]
           IN  /\ G \in Seq(Frame) /\ Len(G) = Len(F)
               /\ \A k \in 1..Len(F) : /\ G[k].src = F[k].src /\ G[k].dest = F[k].dest
                                       /\ G[k].count = F[k].count
                                       /\ k # Len(F) => G[k].i = F[k].i
               /\ G[Len(F)].i = F[Len(F)].i + 1
<1> DEFINE n == Len(F)
           f == [F[n] EXCEPT !.i = @ + 1]
           G == [F EXCEPT ![n] = f]
<1>1. n \in Nat /\ n \in 1..Len(F) /\ F[n] \in Frame
    OBVIOUS
<1>2. f \in Frame /\ f.src = F[n].src /\ f.dest = F[n].dest /\ f.count = F[n].count
      /\ f.i = F[n].i + 1
    BY <1>1 DEF Frame
<1>3. [F EXCEPT ![Len(F)].i = @ + 1] = G
    BY <1>1
<1> HIDE DEF f
<1>4. G \in Seq(Frame) /\ Len(G) = n /\ G[n] = f /\ \A k \in 1..n : k # n => G[k] = F[k]
    BY <1>1, <1>2
<1> HIDE DEF G, n
<1>5. \A k \in 1..n : /\ G[k].src = F[k].src /\ G[k].dest = F[k].dest
                      /\ G[k].count = F[k].count
                      /\ k # n => G[k].i = F[k].i
    BY <1>2, <1>4
<1> QED BY <1>2, <1>3, <1>4, <1>5 DEF n

(* The folder's next entry, found by its number.                           *)
LEMMA EntrySteps ==
    ASSUME DirectoryEntry
    PROVE  /\ pc = "dir" /\ fs' = fs /\ own' = own /\ top.i < top.count
           /\ frames' = [frames EXCEPT ![Len(frames)].i = @ + 1]
           /\ \/ /\ pc' = "dir" /\ cp' = cp
                 /\ \A q \in EntriesIn(fs, top.src) : IndexIn(fs, q) # top.i
              \/ pc' = "failed" /\ cp' = cp
              \/ \E q \in EntriesIn(fs, top.src) :
                    /\ IndexIn(fs, q) = top.i /\ pc' = "enter"
                    /\ Append(top.dest, Last(q)) \in Paths
                    /\ cp' = [cp EXCEPT !.src = q, !.dest = Append(top.dest, Last(q))]
<1>1. \A p : Entries(p) = EntriesIn(fs, p)
    BY DEF Entries, EntriesIn, vfs_exists
<1>2. \A q : Index(q) = IndexIn(fs, q)
    BY <1>1 DEF Index, IndexIn, fc_parent
<1>3. vfs_directory_get_item(top.src, top.i) =
          {q \in EntriesIn(fs, top.src) : IndexIn(fs, q) = top.i}
    BY <1>1, <1>2 DEF vfs_directory_get_item
<1>4. /\ pc = "dir" /\ fs' = fs /\ own' = own /\ top.i < top.count
      /\ frames' = [frames EXCEPT ![Len(frames)].i = @ + 1]
    BY DEF DirectoryEntry
<1>5. CASE vfs_directory_get_item(top.src, top.i) = {} /\ UNCHANGED <<pc, cp>>
  <2>1. \A q \in EntriesIn(fs, top.src) : IndexIn(fs, q) # top.i
    BY <1>3, <1>5
  <2> QED BY <1>4, <1>5, <2>1
<1>6. CASE pc' = "failed" /\ cp' = cp
    BY <1>4, <1>6
<1>7. ASSUME NEW q \in vfs_directory_get_item(top.src, top.i),
             fc_join(top.dest, Last(q)) \in Paths, pc' = "enter",
             cp' = [cp EXCEPT !.src = q, !.dest = fc_join(top.dest, Last(q))]
      PROVE  \E x \in EntriesIn(fs, top.src) :
                    /\ IndexIn(fs, x) = top.i /\ pc' = "enter"
                    /\ Append(top.dest, Last(x)) \in Paths
                    /\ cp' = [cp EXCEPT !.src = x, !.dest = Append(top.dest, Last(x))]
    BY <1>3, <1>7 DEF fc_join
<1> QED BY <1>4, <1>5, <1>6, <1>7 DEF DirectoryEntry, Goto

(* The position in a folder is not part of the stack's shape.              *)
LEMMA StackFrames ==
    ASSUME NEW d, NEW c, NEW F, NEW l, StackOK(d, c, F, l), l \in ItemPcs,
           NEW G \in Seq(Frame), Len(G) = Len(F),
           \A k \in 1..Len(F) : G[k].src = F[k].src /\ G[k].dest = F[k].dest
    PROVE  StackOK(d, c, G, l)
<1>1. /\ F \in Seq(Frame) /\ Len(F) \in Nat /\ Len(G) \in Nat /\ (F = <<>> <=> G = <<>>)
    BY DEF StackOK
<1>2. /\ \A k \in 1..Len(G) : /\ At(c, G[k].src, G[k].dest, k - 1)
                              /\ d[G[k].dest].kind = "dir"
    BY DEF StackOK
<1>3. \A k \in 2..Len(G) : Front(G[k].src) = G[k - 1].src
  <2> SUFFICES ASSUME NEW k \in 2..Len(G) PROVE Front(G[k].src) = G[k - 1].src
    OBVIOUS
  <2>1. k \in 1..Len(F) /\ k - 1 \in 1..Len(F) /\ k \in 2..Len(F)
    BY <1>1
  <2> QED BY <2>1 DEF StackOK
<1>4. G # <<>> => G[Len(G)].src = F[Len(F)].src
  <2>1. G # <<>> => Len(F) \in 1..Len(F)
    BY <1>1
  <2> QED BY <2>1
<1> QED BY <1>1, <1>2, <1>3, <1>4 DEF StackOK

(* An entry goes below where its folder goes.                              *)
LEMMA StackEnter ==
    ASSUME NEW d, NEW c, NEW F, StackOK(d, c, F, "dir"), NEW q \in Paths,
           Len(q) = Len(F[Len(F)].src) + 1, Front(q) = F[Len(F)].src,
           Append(F[Len(F)].dest, Last(q)) \in Paths
    PROVE  StackOK(d, [c EXCEPT !.src = q, !.dest = Append(F[Len(F)].dest, Last(q))], F, "enter")
<1> DEFINE n == Len(F)
           p == F[n].src
           t == F[n].dest
           u == Append(t, Last(q))
           b == [c EXCEPT !.src = q, !.dest = u]
<1>1. /\ F \in Seq(Frame) /\ F # <<>> /\ c \in Copy
      /\ {c.isrc, c.idest} \subseteq Paths
      /\ ~IsPrefix(c.isrc, c.idest) /\ ~IsPrefix(c.idest, c.isrc)
      /\ \A k \in 1..Len(F) : At(c, F[k].src, F[k].dest, k - 1) /\ d[F[k].dest].kind = "dir"
      /\ \A k \in 2..Len(F) : Front(F[k].src) = F[k - 1].src
    BY Places DEF StackOK
<1>2. n \in Nat /\ n > 0 /\ n \in 1..n
    BY <1>1
<1>3. At(c, p, t, n - 1) /\ n - 1 \in Nat
    BY <1>1, <1>2
<1>4. u \in Paths
    OBVIOUS
<1> HIDE DEF u
<1>5. b \in Copy /\ b.src = q /\ b.dest = u /\ b.isrc = c.isrc /\ b.idest = c.idest
    BY <1>1, <1>4 DEF Copy
<1> HIDE DEF b
<1>6. /\ Len(p) = Len(c.isrc) + (n - 1) /\ IsPrefix(c.isrc, p) /\ t = Rebase(c.isrc, c.idest, p)
      /\ c.isrc \in Seq(Nat) /\ c.idest \in Seq(Nat) /\ q \in Seq(Nat) /\ Len(q) > 0
      /\ Len(c.isrc) \in Nat
    BY <1>1, <1>3, PathsOK DEF At, RebasedAt
<1>7. /\ Rebase(c.isrc, c.idest, q) = Append(Rebase(c.isrc, c.idest, p), Last(q))
      /\ IsPrefix(c.isrc, q)
  <2>1. IsPrefix(c.isrc, Front(q)) /\ Front(q) = p
    BY <1>6
  <2>2. Rebase(c.isrc, c.idest, q) = Append(Rebase(c.isrc, c.idest, Front(q)), Last(q))
        /\ IsPrefix(c.isrc, q)
    BY <1>6, <2>1, RebaseChild
  <2> QED BY <2>1, <2>2
<1>8. u = Rebase(c.isrc, c.idest, q)
    BY <1>6, <1>7 DEF u
<1>9. Len(q) = Len(c.isrc) + n
    BY <1>2, <1>6
<1>10. At(b, b.src, b.dest, n)
    BY <1>4, <1>5, <1>7, <1>8, <1>9 DEF At, RebasedAt
<1>11. \A k \in 1..n : At(b, F[k].src, F[k].dest, k - 1)
    BY <1>1, <1>5 DEF At, RebasedAt
<1>12. Front(b.src) = F[n].src
    BY <1>5
<1>13. {b.src, b.dest, b.isrc, b.idest} \subseteq Paths
    BY <1>1, <1>4, <1>5
<1>14. "enter" \notin FilePcs /\ "enter" \in ItemPcs
    BY Places
<1>15. StackOK(d, b, F, "enter")
    BY <1>1, <1>5, <1>10, <1>11, <1>12, <1>13, <1>14 DEF StackOK
<1> QED BY <1>15 DEF b, u

(* ... the next entry of a folder.                                         *)
LEMMA DirectoryEntryShape ==
    ASSUME Shape, DirectoryEntry
    PROVE  Shape'
<1>1. /\ pc = "dir" /\ fs' = fs /\ own' = own /\ "dir" \in ItemPcs
      /\ frames' = [frames EXCEPT ![Len(frames)].i = @ + 1]
    BY EntrySteps, Places
<1>2. /\ frames \in Seq(Frame) /\ Len(frames) > 0 /\ frames # <<>> /\ cp \in Copy
      /\ top = frames[Len(frames)] /\ cp.idest \in Paths /\ Len(frames) \in Nat
    BY <1>1, InFolder
<1>3. /\ frames' \in Seq(Frame) /\ Len(frames') = Len(frames)
      /\ \A k \in 1..Len(frames) : /\ frames'[k].src = frames[k].src
                                   /\ frames'[k].dest = frames[k].dest
    BY <1>1, <1>2, FrameStep
<1>4. StackOK(fs, cp, frames', "dir")
    BY <1>1, <1>3, StackFrames DEF Shape
<1>5. KindsStay(fs, fs) /\ SameItem(cp, cp)
    BY <1>2, CopyFields DEF KindsStay
<1>6. /\ fs' \in [Paths -> Entry] /\ IsTree(fs') /\ own' \subseteq Paths
      /\ Len(frames') <= FC_MAX_DEPTH
    BY <1>1, <1>3 DEF Shape
<1>7. frames' # <<>> /\ frames # <<>>
    BY <1>2, <1>3
<1>8. \A b, m : b.idest = cp.idest /\ m # "copied" => OwnOK(fs, b, frames', m, own)
    BY <1>1, <1>7 DEF Shape, OwnOK
<1>9. CASE pc' \in {"dir", "failed"} /\ cp' = cp
  <2>1. StackOK(fs, cp, frames', pc')
    BY <1>1, <1>4, <1>5, <1>9, StackKeeps
  <2>2. OwnOK(fs, cp, frames', pc', own)
    BY <1>8, <1>9
  <2> QED BY <1>1, <1>6, <1>9, <2>1, <2>2 DEF Shape
<1>10. ASSUME NEW q \in EntriesIn(fs, top.src), pc' = "enter",
              Append(top.dest, Last(q)) \in Paths,
              cp' = [cp EXCEPT !.src = q, !.dest = Append(top.dest, Last(q))]
       PROVE  Shape'
  <2>1. q \in Paths /\ Len(q) = Len(top.src) + 1 /\ Front(q) = top.src
    BY DEF EntriesIn
  <2>2. /\ top.src = frames'[Len(frames')].src /\ top.dest = frames'[Len(frames')].dest
    BY <1>2, <1>3
  <2>3. StackOK(fs, cp', frames', "enter")
    BY <1>4, <1>10, <2>1, <2>2, StackEnter
  <2>4. cp'.idest = cp.idest
    BY <1>2, <1>10 DEF Copy
  <2>5. OwnOK(fs, cp', frames', "enter", own)
    BY <1>8, <2>4
  <2> QED BY <1>1, <1>6, <1>10, <2>3, <2>5 DEF Shape
<1> QED BY <1>9, <1>10, EntrySteps

(* A copy gets the permissions of its original.                            *)
Permitted(s, x, e) ==
    /\ e \in Entry /\ fs' = [fs EXCEPT ![x] = e]
    /\ e.kind = fs[x].kind /\ e.data = fs[x].data
    /\ e.rw = IF fs[s].kind # "none" THEN fs[s].rw ELSE fs[x].rw

(* Copying the permissions changes nothing else.                           *)
LEMMA PermissionsOK ==
    ASSUME fs \in [Paths -> Entry], NEW s \in Paths, NEW x \in Paths, fs[x].kind # "none",
           fs' = PermissionsCopied(s, x)
    PROVE  \E e : Permitted(s, x, e)
<1> DEFINE w == IF fs[s].kind # "none" THEN fs[s].rw ELSE fs[x].rw
           e == [fs[x] EXCEPT !.rw = w]
<1>1. fs[s] \in Entry /\ fs[x] \in Entry
    OBVIOUS
<1>2. w \in BOOLEAN
    BY <1>1, EntryOK
<1>3. fs' = [fs EXCEPT ![x] = e]
    BY DEF PermissionsCopied, vfs_exists
<1> HIDE DEF w
<1>4. e \in Entry /\ e.kind = fs[x].kind /\ e.data = fs[x].data /\ e.rw = w
    BY <1>1, <1>2, EntryRw
<1> HIDE DEF e
<1>5. Permitted(s, x, e)
    BY <1>3, <1>4 DEF w, Permitted
<1> QED BY <1>5

(* The innermost folder is left.                                           *)
LEMMA StackPop ==
    ASSUME NEW d, NEW c, NEW F, StackOK(d, c, F, "dir")
    PROVE  /\ StackOK(d, c, Front(F), IF Front(F) = <<>> THEN "copied" ELSE "dir")
           /\ Len(Front(F)) = Len(F) - 1 /\ \A k \in 1..(Len(F) - 1) : Front(F)[k] = F[k]
<1> DEFINE G == Front(F)
           n == Len(F) - 1
           m == IF G = <<>> THEN "copied" ELSE "dir"
<1>1. /\ F \in Seq(Frame) /\ F # <<>> /\ c \in Copy
      /\ {c.src, c.dest, c.isrc, c.idest} \subseteq Paths
      /\ ~IsPrefix(c.isrc, c.idest) /\ ~IsPrefix(c.idest, c.isrc)
      /\ \A k \in 1..Len(F) : At(c, F[k].src, F[k].dest, k - 1) /\ d[F[k].dest].kind = "dir"
      /\ \A k \in 2..Len(F) : Front(F[k].src) = F[k - 1].src
    BY Places DEF StackOK
<1>2. Len(F) \in Nat /\ Len(F) > 0
    BY <1>1
<1>3. G = SubSeq(F, 1, n) /\ n \in Nat
    BY <1>2 DEF Front
<1> HIDE DEF G
<1>4. G \in Seq(Frame) /\ Len(G) = n /\ \A k \in 1..n : G[k] = F[k]
  <2>1. \A i \in 1..n : F[i] \in Frame
    BY <1>1, <1>2
  <2>2. n - 1 + 1 = n /\ n <= Len(F) /\ 1 \in Nat /\ \A k \in 1..n : 1 + k - 1 = k
    BY <1>2
  <2> HIDE DEF n
  <2>3. /\ SubSeq(F, 1, n) \in Seq(Frame)
        /\ Len(SubSeq(F, 1, n)) = IF 1 <= n THEN n - 1 + 1 ELSE 0
        /\ \A k \in 1..(n - 1 + 1) : SubSeq(F, 1, n)[k] = F[1 + k - 1]
    BY <1>1, <1>3, <2>1, <2>2, SubSeqProperties
  <2> QED BY <1>3, <2>2, <2>3
<1>5. \A k \in 1..Len(G) : At(c, G[k].src, G[k].dest, k - 1) /\ d[G[k].dest].kind = "dir"
  <2> SUFFICES ASSUME NEW k \in 1..Len(G)
               PROVE  At(c, G[k].src, G[k].dest, k - 1) /\ d[G[k].dest].kind = "dir"
    OBVIOUS
  <2>1. k \in 1..n /\ k \in 1..Len(F)
    BY <1>2, <1>4
  <2> QED BY <1>1, <1>4, <2>1
<1>6. \A k \in 2..Len(G) : Front(G[k].src) = G[k - 1].src
  <2> SUFFICES ASSUME NEW k \in 2..Len(G) PROVE Front(G[k].src) = G[k - 1].src
    OBVIOUS
  <2>1. k \in 2..Len(F) /\ k \in 1..n /\ k - 1 \in 1..n
    BY <1>2, <1>4
  <2> QED BY <1>1, <1>4, <2>1
<1>7. ~Entering(m) /\ m \notin FilePcs /\ m \in ItemPcs
    BY Places DEF Entering
<1>8. (m = "copied" => G = <<>>) /\ (m = "dir" => G # <<>>)
    OBVIOUS
<1> HIDE DEF m
<1>9. StackOK(d, c, G, m)
    BY <1>1, <1>4, <1>5, <1>6, <1>7, <1>8 DEF StackOK
<1> QED BY <1>2, <1>4, <1>9 DEF G, m, n

(* A finished folder keeps disk and stack in order,                        *)
LEMMA DirectoryDoneShape ==
    ASSUME Shape, DirectoryDone
    PROVE  Shape'
<1>1. /\ pc = "dir" /\ fs' = PermissionsCopied(top.src, top.dest) /\ frames' = Front(frames)
      /\ pc' = (IF frames' = <<>> THEN "copied" ELSE "dir") /\ cp' = cp /\ own' = own
      /\ "dir" \in ItemPcs
    BY Places DEF DirectoryDone, Return, Goto
<1>2. /\ top.src \in Paths /\ top.dest \in Paths /\ fs[top.dest].kind = "dir"
      /\ cp \in Copy /\ cp.idest \in Paths /\ Len(frames) > 0 /\ frames \in Seq(Frame)
      /\ Len(frames) > 1 => top.dest # cp.idest
    BY <1>1, InFolder
<1>3. PICK e \in Entry : fs' = [fs EXCEPT ![top.dest] = e] /\ e.kind = fs[top.dest].kind
  <2>1. fs \in [Paths -> Entry] /\ fs[top.dest].kind # "none"
    BY <1>2 DEF Shape
  <2>2. \E e : Permitted(top.src, top.dest, e)
    BY <1>1, <1>2, <2>1, PermissionsOK
  <2> QED BY <2>2 DEF Permitted
<1>4. /\ fs' \in [Paths -> Entry] /\ IsTree(fs')
      /\ \A p \in Paths : fs'[p].kind = fs[p].kind
      /\ \A p \in Paths \ {top.dest} : fs'[p] = fs[p]
    BY <1>2, <1>3, DiskChanged DEF Shape
<1>5. KindsStay(fs, fs') /\ SameItem(cp, cp)
    BY <1>2, <1>4, CopyFields DEF KindsStay
<1>6. StackOK(fs', cp, frames, "dir")
    BY <1>1, <1>5, StackKeeps DEF Shape
<1>7. /\ StackOK(fs', cp, frames', pc') /\ Len(frames') = Len(frames) - 1
    BY <1>1, <1>6, StackPop
<1>8. Len(frames') <= FC_MAX_DEPTH
    BY <1>2, <1>7, FileCopyAssumption DEF Shape
<1>9. OwnOK(fs', cp', frames', pc', own)
  <2>1. CASE pc' = "copied"
    <3>1. OwnOK(fs', cp, frames, "copied", own)
      BY <1>1, <1>2, <1>5, OwnCopied DEF Shape
    <3> QED BY <1>1, <2>1, <3>1 DEF OwnOK
  <2>2. CASE pc' # "copied"
    <3>1. frames' # <<>> /\ Len(frames) \in Nat
      BY <1>1, <1>2, <2>2
    <3>2. Len(frames') # 0
      <4>1. frames' \in Seq(Frame)
        BY <1>7 DEF StackOK
      <4> QED BY <3>1, <4>1
    <3>3. top.dest # cp.idest
      BY <1>2, <1>7, <3>1, <3>2
    <3>4. fs'[cp.idest].rw = fs[cp.idest].rw /\ frames # <<>>
      BY <1>2, <1>4, <3>3
    <3>5. OwnOK(fs', cp, frames, "dir", own)
      BY <1>1, <1>2, <1>5, <3>4, OwnKeeps DEF Shape
    <3> QED BY <1>1, <3>4, <3>5 DEF OwnOK
  <2> QED BY <2>1, <2>2
<1> QED BY <1>1, <1>4, <1>7, <1>8, <1>9 DEF Shape

(* ... and so does a finished file.                                        *)
LEMMA FileDoneShape ==
    ASSUME Shape, FileDone
    PROVE  Shape'
<1>1. /\ pc = "filedone" /\ fs' = PermissionsCopied(cp.src, cp.dest) /\ frames' = frames
      /\ pc' = (IF frames = <<>> THEN "copied" ELSE "dir") /\ cp' = cp /\ own' = own
      /\ "filedone" \in ItemPcs /\ "filedone" \in FilePcs
    BY Places DEF FileDone, Return, Goto
<1>2. /\ cp.src \in Paths /\ cp.dest \in Paths /\ fs[cp.dest].kind = "file"
      /\ cp \in Copy /\ cp.idest \in Paths
      /\ frames = <<>> <=> cp.dest = cp.idest
    BY <1>1, InFile, InEnter
<1>3. PICK e \in Entry : fs' = [fs EXCEPT ![cp.dest] = e] /\ e.kind = fs[cp.dest].kind
  <2>1. fs \in [Paths -> Entry] /\ fs[cp.dest].kind # "none"
    BY <1>2 DEF Shape
  <2>2. \E e : Permitted(cp.src, cp.dest, e)
    BY <1>1, <1>2, <2>1, PermissionsOK
  <2> QED BY <2>2 DEF Permitted
<1>4. /\ fs' \in [Paths -> Entry] /\ IsTree(fs')
      /\ \A p \in Paths : fs'[p].kind = fs[p].kind
      /\ \A p \in Paths \ {cp.dest} : fs'[p] = fs[p]
    BY <1>2, <1>3, DiskChanged DEF Shape
<1>5. KindsStay(fs, fs') /\ SameItem(cp, cp)
    BY <1>2, <1>4, CopyFields DEF KindsStay
<1>6. StackOK(fs', cp, frames, "filedone")
    BY <1>1, <1>5, StackKeeps DEF Shape
<1>7. StackOK(fs', cp, frames, pc')
  <2>1. pc' \notin FilePcs /\ pc' \in ItemPcs /\ ~Entering(pc')
    BY <1>1, Places DEF Entering
  <2> QED BY <1>1, <1>6, <2>1 DEF StackOK
<1>8. OwnOK(fs', cp, frames, pc', own)
  <2>1. CASE frames = <<>>
    <3>1. OwnOK(fs', cp, frames, "copied", own)
      BY <1>1, <1>2, <1>5, OwnCopied DEF Shape
    <3> QED BY <1>1, <2>1, <3>1
  <2>2. CASE frames # <<>>
    <3>1. fs'[cp.idest].rw = fs[cp.idest].rw
      BY <1>2, <1>4, <2>2
    <3> QED BY <1>1, <1>2, <1>5, <2>2, <3>1, OwnKeeps DEF Shape
  <2> QED BY <2>1, <2>2
<1> QED BY <1>1, <1>4, <1>7, <1>8 DEF Shape

(* The next item: an original, and a destination that is free.             *)
ItemStarts(s, t) ==
    /\ s \in Paths /\ t \in Paths /\ fs[s].kind # "none" /\ fs[t].kind = "none"
    /\ ~IsPrefix(s, t)
    /\ cp' = [NoCopy EXCEPT !.src = s, !.dest = t, !.isrc = s, !.idest = t]

(* fc_run_item starts an item where nothing is yet, or goes on.            *)
LEMMA NextItemSteps ==
    ASSUME JobsOK(jobs, pc, report), NextItem
    PROVE  /\ pc = "items" /\ fs' = fs /\ frames' = frames /\ own' = {}
           /\ \/ pc' \in {"items", "end"} /\ cp' = cp
              \/ pc' = "enter" /\ \E s, t : ItemStarts(s, t)
<1>1. pc = "items" /\ fs' = fs /\ frames' = frames /\ own' = {}
    BY DEF NextItem
<1>2. CASE pc' \in {"items", "end"} /\ cp' = cp
    BY <1>1, <1>2
<1>3. ASSUME job.index < Len(job.items), NEW r \in {job.items[job.index + 1]}, vfs_exists(r.src),
             NEW d \in Destinations(r),
             cp' = [NoCopy EXCEPT !.src = r.src, !.dest = d, !.isrc = r.src, !.idest = d]
      PROVE  ItemStarts(r.src, d)
  <2>1. r \in Request
    <3>1. jobs # <<>>
      BY <1>1 DEF JobsOK
    <3>2. job \in Job
      BY <3>1, JobsHeadOK DEF job
    <3>3. job.items \in Seq(Request) /\ job.index \in Nat
      BY <3>2, JobFields
    <3> QED BY <1>3, <3>3
  <2>2. r.src \in Paths /\ r.dest \in Paths /\ fs[r.src].kind # "none"
    BY <1>3, <2>1 DEF Request, vfs_exists
  <2>3. d \in FinalDest(r) /\ ~IsPrefix(r.src, d)
    BY DEF Destinations, fc_path_is_within
  <2>4. d \in Paths /\ ~vfs_exists(d)
    BY <2>2, <2>3 DEF FinalDest, dwm_path_unique
  <2> QED BY <1>3, <2>2, <2>3, <2>4 DEF ItemStarts, vfs_exists
<1>4. \/ pc' \in {"items", "end"} /\ cp' = cp
      \/ /\ job.index < Len(job.items) /\ pc' = "enter"
         /\ \E r \in {job.items[job.index + 1]} :
              /\ vfs_exists(r.src)
              /\ \E d \in Destinations(r) :
                    cp' = [NoCopy EXCEPT !.src = r.src, !.dest = d, !.isrc = r.src, !.idest = d]
    BY <1>1 DEF NextItem, MoreItems, Goto
<1> QED BY <1>1, <1>2, <1>3, <1>4

(* The locals at the start of an item.                                     *)
LEMMA StartsOK ==
    ASSUME fs \in [Paths -> Entry], IsTree(fs), NEW s, NEW t, ItemStarts(s, t)
    PROVE  /\ cp' \in Copy /\ cp'.src = s /\ cp'.dest = t /\ cp'.isrc = s /\ cp'.idest = t
           /\ s \in Seq(Nat) /\ t \in Seq(Nat)
           /\ ~IsPrefix(s, t) /\ ~IsPrefix(t, s) /\ At(cp', s, t, 0)
           /\ \A p \in Paths : IsPrefix(t, p) => fs[p].kind = "none"
<1>1. s \in Paths /\ t \in Paths /\ fs[s].kind # "none" /\ fs[t].kind = "none" /\ ~IsPrefix(s, t)
      /\ cp' = [NoCopy EXCEPT !.src = s, !.dest = t, !.isrc = s, !.idest = t]
    BY DEF ItemStarts
<1>2. cp' \in Copy /\ cp'.src = s /\ cp'.dest = t /\ cp'.isrc = s /\ cp'.idest = t
    BY <1>1 DEF NoCopy, Copy
<1>3. s \in Seq(Nat) /\ t \in Seq(Nat) /\ Len(t) > 0 /\ Len(s) \in Nat
    BY <1>1, PathsOK
<1>4. \A p \in Paths : IsPrefix(t, p) => fs[p].kind = "none"
    BY <1>1, <1>3, TreeAbove
<1>5. Rebase(s, t, s) = t /\ IsPrefix(s, s)
    BY <1>3, RebaseRoot
<1>6. At(cp', s, t, 0)
    BY <1>1, <1>2, <1>3, <1>5 DEF At, RebasedAt
<1> QED BY <1>1, <1>2, <1>3, <1>4, <1>6

(* A new item starts with an empty stack.                                  *)
LEMMA NextItemShape ==
    ASSUME Shape, JobsOK(jobs, pc, report), NextItem
    PROVE  Shape'
<1>1. pc = "items" /\ fs' = fs /\ frames' = frames /\ own' = {} /\ pc \notin ItemPcs
    BY NextItemSteps, Places
<1>2. cp \in Copy /\ frames = <<>>
    BY <1>1, Places DEF Shape, StackOK
<1>3. CASE pc' \in {"items", "end"} /\ cp' = cp
  <2>1. pc' \notin ItemPcs
    BY <1>3, Places
  <2>2. StackOK(fs', cp', frames', pc')
    BY <1>1, <1>2, <1>3, <2>1, StackIdle
  <2> QED BY <1>1, <2>1, <2>2 DEF Shape, OwnOK
<1>4. ASSUME pc' = "enter", NEW s, NEW t, ItemStarts(s, t)
      PROVE  Shape'
  <2>1. /\ cp' \in Copy /\ cp'.src = s /\ cp'.dest = t /\ cp'.isrc = s /\ cp'.idest = t
        /\ ~IsPrefix(s, t) /\ ~IsPrefix(t, s) /\ At(cp', s, t, 0)
        /\ s \in Paths /\ t \in Paths
    BY <1>4, StartsOK DEF Shape, ItemStarts
  <2>2. "enter" \notin FilePcs /\ Len(<<>>) = 0 /\ <<>> \in Seq(Frame)
    BY Places
  <2>3. StackOK(fs, cp', <<>>, "enter")
    BY <2>1, <2>2 DEF StackOK
  <2>4. OwnOK(fs, cp', <<>>, "enter", {})
    BY DEF OwnOK
  <2> QED BY <1>1, <1>2, <1>4, <2>3, <2>4 DEF Shape
<1> QED BY <1>3, <1>4, NextItemSteps

(* The end of an item removes whole trees only.                            *)
LEMMA ItemEndShape ==
    ASSUME Shape, ItemFailed \/ ItemCopied
    PROVE  Shape'
<1>1. /\ pc \in {"failed", "copied"} /\ pc' \in {"items", "end"} /\ cp' = cp /\ own' = own
      /\ frames' = frames \/ frames' = <<>>
      /\ pc = "copied" => frames' = frames
      /\ pc = "failed" => frames' = <<>>
      /\ fs' = fs \/ fs' = Without(cp.idest) \/ fs' = Without(cp.isrc)
    BY DEF ItemFailed, ItemCopied, Goto
<1>2. pc \in ItemPcs /\ pc' \notin ItemPcs
    BY <1>1, Places
<1>3. cp \in Copy /\ cp.idest \in Paths /\ cp.isrc \in Paths /\ frames' = <<>>
    BY <1>1, <1>2 DEF Shape, StackOK
<1>4. fs' \in [Paths -> Entry] /\ IsTree(fs')
    BY <1>1, <1>3, DiskCut DEF Shape
<1>5. StackOK(fs', cp', frames', pc')
    BY <1>1, <1>2, <1>3, StackIdle
<1>6. Len(frames') <= FC_MAX_DEPTH
    BY <1>3, FileCopyAssumption
<1> QED BY <1>1, <1>2, <1>4, <1>5, <1>6 DEF Shape, OwnOK

(* Steps outside an item.                                                  *)
LEMMA IdleShape ==
    ASSUME Shape, fs' = fs, frames' = frames, cp' = cp, own' = own,
           pc \notin ItemPcs, pc' \notin ItemPcs
    PROVE  Shape'
<1>1. cp \in Copy
    BY DEF Shape, StackOK
<1>2. StackOK(fs, cp, frames, pc')
    BY <1>1, StackIdle DEF Shape
<1> QED BY <1>2 DEF Shape, OwnOK

(* Another thread writes a file or makes one.                              *)
LEMMA OtherSteps ==
    ASSUME Shape, OtherThreads
    PROVE  /\ pc \in Unlocked /\ UNCHANGED <<pc, frames, cp, own>> /\ others' = others + 1
           /\ fs' \in [Paths -> Entry] /\ IsTree(fs') /\ KindsStay(fs, fs')
           /\ \A p \in Paths : fs'[p].rw = fs[p].rw
<1>1. PICK p \in Paths, c \in NewChunks : OtherEdit(p, c) \/ OtherCreate(p, c)
    BY DEF OtherThreads
<1>2. pc \in Unlocked /\ UNCHANGED <<pc, frames, cp, own>> /\ others' = others + 1
    BY <1>1 DEF OtherEdit, OtherCreate, Meddle, Outside
<1>3. c \in Chunks \cup {Junk} /\ fs \in [Paths -> Entry] /\ IsTree(fs)
    BY DEF NewChunks, Shape
<1>4. CASE OtherEdit(p, c)
  <2> DEFINE s == [fs[p].data EXCEPT ![1] = c]
             e == [fs[p] EXCEPT !.data = s]
  <2>1. fs[p].kind = "file" /\ fs[p].data # <<>> /\ fs' = [fs EXCEPT ![p].data[1] = c]
    BY <1>4 DEF OtherEdit
  <2>2. fs[p] \in Entry /\ fs[p].data \in Seq(Chunks \cup {Junk})
    BY <1>3, EntryData
  <2>3. s \in Seq(Chunks \cup {Junk})
    BY <1>3, <2>1, <2>2
  <2>4. fs' = [fs EXCEPT ![p] = e]
    BY <1>3, <2>1
  <2> HIDE DEF s
  <2>5. e \in Entry /\ e.kind = fs[p].kind /\ e.rw = fs[p].rw
    BY <2>1, <2>2, <2>3, FileData
  <2> HIDE DEF e
  <2>6. /\ fs' \in [Paths -> Entry] /\ IsTree(fs')
        /\ \A q \in Paths : fs'[q].kind = fs[q].kind
        /\ \A q \in Paths \ {p} : fs'[q] = fs[q]
        /\ fs'[p] = e
    BY <1>3, <2>4, <2>5, DiskChanged
  <2> QED BY <1>2, <2>5, <2>6 DEF KindsStay
<1>5. CASE OtherCreate(p, c)
  <2>1. fs[p].kind = "none" /\ HasFolder(p) /\ fs' = [fs EXCEPT ![p] = File(<<c>>, TRUE)]
    BY <1>5 DEF OtherCreate, vfs_exists
  <2>2. File(<<c>>, TRUE) \in Entry
    <3>1. <<c>> \in Seq(Chunks \cup {Junk}) /\ TRUE \in BOOLEAN
      BY <1>3
    <3> QED BY <3>1, EntriesOK
  <2>3. /\ fs' \in [Paths -> Entry] /\ IsTree(fs') /\ KindsStay(fs, fs')
        /\ \A q \in Paths \ {p} : fs'[q] = fs[q]
        /\ fs'[p] = File(<<c>>, TRUE)
    BY <1>3, <2>1, <2>2, DiskGrown
  <2>4. fs[p] = None
    BY <1>3, <2>1, EntryOK
  <2>5. fs'[p].rw = fs[p].rw
    BY <2>3, <2>4 DEF File, None
  <2> QED BY <1>2, <2>3, <2>5
<1> QED BY <1>1, <1>4, <1>5

(* Other threads keep the disk a tree.                                     *)
LEMMA OtherShape ==
    ASSUME Shape, OtherThreads
    PROVE  Shape'
<1>1. /\ pc \in Unlocked /\ UNCHANGED <<pc, frames, cp, own>>
      /\ fs' \in [Paths -> Entry] /\ IsTree(fs') /\ KindsStay(fs, fs')
      /\ \A p \in Paths : fs'[p].rw = fs[p].rw
    BY OtherSteps
<1>2. cp \in Copy /\ SameItem(cp, cp)
    BY CopyFields DEF Shape, StackOK
<1>3. CASE pc \notin ItemPcs
  <2>1. StackOK(fs', cp, frames, pc)
    BY <1>2, <1>3, StackIdle DEF Shape
  <2> QED BY <1>1, <1>3, <2>1 DEF Shape, OwnOK
<1>4. CASE pc \in ItemPcs
  <2>1. cp.idest \in Paths
    BY <1>4 DEF Shape, StackOK
  <2>2. StackOK(fs', cp, frames, pc)
    BY <1>1, <1>2, <1>4, StackKeeps DEF Shape
  <2>3. OwnOK(fs', cp, frames, pc, own)
    BY <1>1, <1>4, <2>1 DEF Shape, OwnOK, KindsStay
  <2> QED BY <1>1, <2>2, <2>3 DEF Shape
<1> QED BY <1>3, <1>4

(* Every step.                                                             *)
LEMMA NextShape ==
    ASSUME Shape, JobsOK(jobs, pc, report), [Next]_vars
    PROVE  Shape'
<1>1. CASE FileStep
    BY <1>1, FileStepShape
<1>2. CASE EnterRefused \/ EnterDirectory \/ EnterFile
    BY <1>2, EnterRefusedShape, EnterDirectoryShape, EnterFileShape
<1>3. CASE DirectoryEntry \/ DirectoryDone \/ FileDone
    BY <1>3, DirectoryEntryShape, DirectoryDoneShape, FileDoneShape
<1>4. CASE NextItem
    BY <1>4, NextItemShape
<1>5. CASE ItemFailed \/ ItemCopied
    BY <1>5, ItemEndShape
<1>6. CASE Wake \/ TakeLock \/ NextJob \/ EndJob
  <2>1. /\ fs' = fs /\ frames' = frames /\ cp' = cp /\ own' = own
        /\ {pc, pc'} \subseteq {"wait", "woken", "jobs", "items", "end"}
    BY <1>6 DEF Wake, TakeLock, NextJob, EndJob, Goto
  <2>2. pc \notin ItemPcs /\ pc' \notin ItemPcs
    BY <2>1, Places
  <2> QED BY <2>1, <2>2, IdleShape
<1>7. CASE Users
  <2>1. fs' = fs /\ frames' = frames /\ cp' = cp /\ own' = own /\ pc' = pc
    BY <1>7 DEF Users, dwm_summon_filecopy, dwm_filecopy_add, fc_request_cancel, Outside
  <2> QED BY <2>1 DEF Shape
<1>8. CASE OtherThreads
    BY <1>8, OtherShape
<1>9. CASE UNCHANGED vars
  <2>1. fs' = fs /\ frames' = frames /\ cp' = cp /\ own' = own /\ pc' = pc
    BY <1>9 DEF vars
  <2> QED BY <2>1 DEF Shape
<1> QED BY <1>1, <1>2, <1>3, <1>4, <1>5, <1>6, <1>7, <1>8, <1>9 DEF Next, Copier, FileStep

(* At the start.                                                           *)
LEMMA InitShape ==
    ASSUME Init
    PROVE  Shape /\ JobsOK(jobs, pc, report)
<1>1. /\ fs \in [Paths -> Entry] /\ IsTree(fs) /\ FC_MAX_DEPTH \in Nat
      /\ cp = NoCopy /\ frames = <<>> /\ pc = "wait" /\ own = {}
      /\ jobs = <<>> /\ report = NoReport
    BY FileCopyAssumption DEF Init
<1>2. cp \in Copy /\ pc \notin ItemPcs
    BY <1>1, Places DEF NoCopy, Copy
<1>3. StackOK(fs, cp, frames, pc)
    BY <1>1, <1>2, StackIdle
<1>4. Len(frames) <= FC_MAX_DEPTH
    BY <1>1
<1>5. jobs \in Seq(Job) /\ Len(jobs) = 0 /\ 2..0 = {}
    BY <1>1
<1>6. JobsOK(jobs, pc, report)
    BY <1>1, <1>5 DEF JobsOK, NoReport
<1> QED BY <1>1, <1>2, <1>3, <1>4, <1>6 DEF Shape, OwnOK

-----------------------------------------------------------------------------
(***************************************************************************)
(* The folders on the stack stay above one another.                        *)
(***************************************************************************)

(* The chain of folders when one is entered,                               *)
LEMMA ChainPush ==
    ASSUME Shape, Chained(cp, frames, pc), EnterDirectory
    PROVE  Chained(cp', frames', pc')
<1>1. pc = "enter" /\ cp' = cp /\ Entering("enter") /\ ~Entering("failed") /\ ~Entering("dir")
    BY Places DEF EnterDirectory, Enter, Entering
<1>2. CASE pc' = "failed" /\ frames' = frames
    BY <1>1, <1>2 DEF Chained
<1>3. ASSUME NEW n, pc' = "dir",
             frames' = Append(frames, [src |-> cp.src, dest |-> cp.dest, i |-> 0, count |-> n])
      PROVE  Chained(cp', frames', pc')
  <2> DEFINE F == frames
             G == frames'
             N == Len(F) + 1
  <2>1. F \in Seq(Frame) /\ Len(F) \in Nat /\ cp.src \in Paths
    BY <1>1, InEnter
  <2>2. /\ Len(G) = N /\ G[N].src = cp.src /\ \A k \in 1..Len(F) : G[k] = F[k]
    BY <1>3, <2>1
  <2>3. ASSUME NEW j \in 1..N, NEW k \in 1..N, j <= k
        PROVE  IsPrefix(G[j].src, G[k].src)
    <3>1. CASE k \in 1..Len(F)
      <4>1. j \in 1..Len(F)
        BY <2>1, <2>3, <3>1
      <4> QED BY <2>2, <2>3, <3>1, <4>1 DEF Chained
    <3>2. CASE k = N /\ j \in 1..Len(F)
      BY <1>1, <2>2, <3>2 DEF Chained
    <3>3. CASE k = N /\ j = N
      BY <2>1, <2>2, <3>3, PathsOK, PrefixSelf
    <3> QED BY <2>1, <3>1, <3>2, <3>3
  <2> QED BY <1>1, <1>3, <2>2, <2>3 DEF Chained
<1> QED BY <1>2, <1>3 DEF EnterDirectory, Goto

(* ... when an entry is looked at,                                         *)
LEMMA ChainChild ==
    ASSUME Shape, Chained(cp, frames, pc), DirectoryEntry
    PROVE  Chained(cp', frames', pc')
<1>1. pc = "dir" /\ frames' = [frames EXCEPT ![Len(frames)].i = @ + 1]
    BY EntrySteps
<1>2. /\ frames \in Seq(Frame) /\ Len(frames) \in Nat /\ Len(frames) > 0 /\ frames # <<>>
      /\ top = frames[Len(frames)] /\ cp \in Copy
    BY <1>1, InFolder
<1>3. /\ Len(frames') = Len(frames)
      /\ \A k \in 1..Len(frames) : frames'[k].src = frames[k].src
    BY <1>1, <1>2, FrameStep
<1>4. \A j \in 1..Len(frames'), k \in 1..Len(frames') :
          j <= k => IsPrefix(frames'[j].src, frames'[k].src)
    BY <1>3 DEF Chained
<1>5. CASE pc' \in {"dir", "failed"}
  <2>1. ~Entering(pc')
    BY <1>5, Places DEF Entering
  <2> QED BY <1>4, <2>1 DEF Chained
<1>6. ASSUME NEW q \in EntriesIn(fs, top.src),
             cp' = [cp EXCEPT !.src = q, !.dest = Append(top.dest, Last(q))]
      PROVE  Chained(cp', frames', pc')
  <2>1. q \in Seq(Nat) /\ Front(q) = top.src /\ cp'.src = q /\ Len(q) > 0
    BY <1>2, <1>6, PathsOK DEF EntriesIn, Copy
  <2>2. IsPrefix(top.src, q) /\ top.src \in Seq(Nat)
    BY <2>1, FrontOK
  <2>3. ASSUME NEW k \in 1..Len(frames') PROVE IsPrefix(frames'[k].src, q)
    <3>1. k \in 1..Len(frames) /\ Len(frames) \in 1..Len(frames) /\ k <= Len(frames)
      BY <1>2, <1>3
    <3>2. IsPrefix(frames[k].src, top.src)
      BY <1>2, <3>1 DEF Chained
    <3>3. frames[k].src \in Seq(Nat)
      <4>1. frames[k] \in Frame
        BY <1>2, <3>1
      <4> QED BY <4>1, PathsOK DEF Frame
    <3> QED BY <1>3, <2>1, <2>2, <3>1, <3>2, <3>3, PrefixTrans
  <2> QED BY <1>4, <2>1, <2>3 DEF Chained
<1> QED BY <1>5, <1>6, EntrySteps

(* ... when one is left,                                                   *)
LEMMA ChainPop ==
    ASSUME Shape, Chained(cp, frames, pc), DirectoryDone
    PROVE  Chained(cp', frames', pc')
<1>1. /\ pc = "dir" /\ frames' = Front(frames) /\ pc' \in {"copied", "dir"}
    BY DEF DirectoryDone, Return, Goto
<1>2. frames \in Seq(Frame) /\ Len(frames) \in Nat /\ Len(frames) > 0
    BY <1>1, InFolder
<1>3. /\ Len(frames') = Len(frames) - 1
      /\ \A k \in 1..(Len(frames) - 1) : frames'[k] = frames[k]
    BY <1>1, StackPop DEF Shape
<1>4. ~Entering(pc')
    BY <1>1, Places DEF Entering
<1>5. ASSUME NEW j \in 1..Len(frames'), NEW k \in 1..Len(frames'), j <= k
      PROVE  IsPrefix(frames'[j].src, frames'[k].src)
  <2>1. j \in 1..Len(frames) /\ k \in 1..Len(frames)
    BY <1>2, <1>3
  <2> QED BY <1>3, <1>5, <2>1 DEF Chained
<1> QED BY <1>4, <1>5 DEF Chained

(* ... and for every step.                                                 *)
LEMMA NextChained ==
    ASSUME Shape, Shape', JobsOK(jobs, pc, report), Chained(cp, frames, pc), [Next]_vars
    PROVE  Chained(cp', frames', pc')
<1>1. frames' = <<>> => Chained(cp', frames', pc')
    BY DEF Chained
<1>2. pc' \notin ItemPcs => Chained(cp', frames', pc')
    BY <1>1 DEF Shape, StackOK
<1>3. CASE FileStep
  <2>1. /\ pc \in FilePcs /\ pc' \in FilePcs \cup {"failed"} /\ frames' = frames
        /\ cp'.src = cp.src
    BY <1>3, FileSteps DEF SameItem
  <2>2. Entering(pc)
    BY <2>1 DEF Entering
  <2> QED BY <2>1, <2>2 DEF Chained
<1>4. CASE EnterRefused \/ FileDone
  <2>1. frames' = frames /\ pc' \in {"failed", "copied", "dir"}
    BY <1>4 DEF EnterRefused, Enter, FileDone, Return, Goto
  <2>2. ~Entering(pc')
    BY <2>1, Places DEF Entering
  <2> QED BY <2>1, <2>2 DEF Chained
<1>5. CASE EnterFile
  <2>1. pc = "enter" /\ frames' = frames /\ cp'.src = cp.src
    BY <1>5, EnterFileSteps DEF SameItem
  <2>2. Entering(pc)
    BY <2>1 DEF Entering
  <2> QED BY <2>1, <2>2 DEF Chained
<1>6. CASE EnterDirectory \/ DirectoryEntry \/ DirectoryDone
    BY <1>6, ChainPush, ChainChild, ChainPop
<1>7. CASE NextItem
  <2>1. pc \notin ItemPcs /\ frames' = frames
    BY <1>7, NextItemSteps, Places
  <2>2. frames' = <<>>
    BY <2>1 DEF Shape, StackOK
  <2> QED BY <1>1, <2>2
<1>8. CASE Wake \/ TakeLock \/ NextJob \/ EndJob \/ ItemFailed \/ ItemCopied
  <2>1. pc' \in {"wait", "woken", "jobs", "items", "end"}
    BY <1>8 DEF Wake, TakeLock, NextJob, EndJob, ItemFailed, ItemCopied, Goto
  <2> QED BY <1>2, <2>1, Places
<1>9. CASE Users \/ OtherThreads \/ UNCHANGED vars
  <2>1. frames' = frames /\ cp' = cp /\ pc' = pc
    BY <1>9 DEF Users, dwm_summon_filecopy, dwm_filecopy_add, fc_request_cancel, OtherThreads,
                OtherEdit, OtherCreate, Meddle, Outside, vars
  <2> QED BY <2>1 DEF Chained
<1> QED BY <1>3, <1>4, <1>5, <1>6, <1>7, <1>8, <1>9 DEF Next, Copier, FileStep

-----------------------------------------------------------------------------
(***************************************************************************)
(* A step writes only where the item it is at goes: the originals and the  *)
(* finished copies stay as they are.                                       *)
(***************************************************************************)
Apart(c) ==
    /\ c.isrc \in Paths /\ c.idest \in Paths
    /\ ~IsPrefix(c.isrc, c.idest) /\ ~IsPrefix(c.idest, c.isrc)

Below(c, w) == w \in Paths /\ IsPrefix(c.isrc, w)

Touched(d, e, c, w) ==
    /\ Below(c, w) /\ RebasedAt(c, w) \in Paths
    /\ \A p \in Paths : p # RebasedAt(c, w) => e[p] = d[p]

(* The originals and the copies do not meet.                               *)
LEMMA NoMeeting ==
    ASSUME NEW c, Apart(c), NEW p, Below(c, p), NEW q, Below(c, q)
    PROVE  /\ RebasedAt(c, q) \in Seq(Nat) /\ IsPrefix(c.idest, RebasedAt(c, q))
           /\ p # RebasedAt(c, q) /\ ~IsPrefix(c.isrc, RebasedAt(c, q))
<1> DEFINE a == c.isrc
           b == c.idest
           r == RebasedAt(c, q)
<1>1. a \in Seq(Nat) /\ b \in Seq(Nat) /\ ~IsPrefix(a, b) /\ ~IsPrefix(b, a)
      /\ Len(a) \in Nat /\ Len(b) \in Nat
    BY PathsOK DEF Apart
<1>2. p \in Seq(Nat) /\ q \in Seq(Nat) /\ IsPrefix(a, p) /\ IsPrefix(a, q)
    BY PathsOK DEF Below
<1>3. r = Rebase(a, b, q)
    BY DEF RebasedAt
<1> HIDE DEF a, b, r
<1>4. r \in Seq(Nat) /\ IsPrefix(b, r)
    BY <1>1, <1>2, <1>3, RebaseAt
<1>5. ~IsPrefix(a, r)
  <2> SUFFICES ASSUME IsPrefix(a, r) PROVE FALSE
    OBVIOUS
  <2>1. CASE Len(a) <= Len(b)
    BY <1>1, <1>4, <2>1, PrefixLinear
  <2>2. CASE Len(b) <= Len(a)
    BY <1>1, <1>4, <2>2, PrefixLinear
  <2> QED BY <1>1, <2>1, <2>2
<1> QED BY <1>2, <1>4, <1>5 DEF a, b, r

(* Different items have different copies.                                  *)
LEMMA RebasedApart ==
    ASSUME NEW c, Apart(c), NEW p, Below(c, p), NEW q, Below(c, q),
           RebasedAt(c, p) = RebasedAt(c, q)
    PROVE  p = q
<1>1. /\ c.isrc \in Seq(Nat) /\ c.idest \in Seq(Nat) /\ p \in Seq(Nat) /\ q \in Seq(Nat)
      /\ IsPrefix(c.isrc, p) /\ IsPrefix(c.isrc, q)
    BY PathsOK DEF Apart, Below
<1>2. Rebase(c.isrc, c.idest, p) = Rebase(c.isrc, c.idest, q)
    BY DEF RebasedAt
<1> QED BY <1>1, <1>2, RebaseInjective

(* A step leaves the originals as they are,                                *)
LEMMA SourceKeeps ==
    ASSUME NEW c, Apart(c), NEW d, NEW e, NEW w, Touched(d, e, c, w)
    PROVE  /\ \A p : Below(c, p) => e[p] = d[p]
           /\ \A p : Below(c, p) => EntriesIn(e, p) = EntriesIn(d, p)
           /\ \A q : Below(c, Front(q)) => IndexIn(e, q) = IndexIn(d, q)
<1>1. ASSUME NEW p, Below(c, p) PROVE e[p] = d[p]
  <2>1. p # RebasedAt(c, w)
    BY <1>1, NoMeeting DEF Touched
  <2> QED BY <1>1, <2>1 DEF Touched, Below
<1>2. ASSUME NEW p, Below(c, p) PROVE EntriesIn(e, p) = EntriesIn(d, p)
  <2>1. ASSUME NEW q \in Paths, Front(q) = p PROVE e[q] = d[q]
    <3>1. /\ c.isrc \in Seq(Nat) /\ p \in Seq(Nat) /\ q \in Seq(Nat) /\ Len(q) > 0
          /\ IsPrefix(c.isrc, p)
      BY <1>2, PathsOK DEF Apart, Below
    <3>2. IsPrefix(p, q)
      BY <2>1, <3>1, FrontOK
    <3>3. IsPrefix(c.isrc, q)
      BY <3>1, <3>2, PrefixTrans
    <3> QED BY <1>1, <3>3 DEF Below
  <2> QED BY <2>1 DEF EntriesIn
<1>3. ASSUME NEW q, Below(c, Front(q)) PROVE IndexIn(e, q) = IndexIn(d, q)
    BY <1>2, <1>3 DEF IndexIn
<1> QED BY <1>1, <1>2, <1>3

(* ... and what is copied already.                                         *)
LEMMA CopiedKeeps ==
    ASSUME NEW c, Apart(c), NEW d, NEW e, NEW w, Touched(d, e, c, w),
           NEW q, Below(c, q), ~IsPrefix(q, w), TreeCopied(d, c, q)
    PROVE  TreeCopied(e, c, q)
<1> SUFFICES ASSUME NEW p \in Paths, IsPrefix(q, p), e[p].kind # "none"
             PROVE  RebasedAt(c, p) \in Paths /\ e[RebasedAt(c, p)] = e[p]
    BY DEF TreeCopied
<1>1. Below(c, p)
  <2>1. /\ c.isrc \in Seq(Nat) /\ q \in Seq(Nat) /\ p \in Seq(Nat) /\ IsPrefix(c.isrc, q)
    BY PathsOK DEF Apart, Below
  <2>2. IsPrefix(c.isrc, p)
    BY <2>1, PrefixTrans
  <2> QED BY <2>2 DEF Below
<1>2. e[p] = d[p]
    BY <1>1, SourceKeeps
<1>3. RebasedAt(c, p) \in Paths /\ d[RebasedAt(c, p)] = d[p]
    BY <1>2 DEF TreeCopied
<1>4. p # w
    OBVIOUS
<1>5. RebasedAt(c, p) # RebasedAt(c, w)
    BY <1>1, <1>4, RebasedApart DEF Touched
<1> QED BY <1>2, <1>3, <1>5 DEF Touched

(* A copied item: itself, and what is in it.                               *)
LEMMA TreeWhole ==
    ASSUME NEW d, IsTree(d), NEW c, NEW p \in Paths,
           RebasedAt(c, p) \in Paths /\ d[RebasedAt(c, p)] = d[p],
           \A q \in EntriesIn(d, p) : TreeCopied(d, c, q)
    PROVE  TreeCopied(d, c, p)
<1> SUFFICES ASSUME NEW r \in Paths, IsPrefix(p, r), d[r].kind # "none"
             PROVE  RebasedAt(c, r) \in Paths /\ d[RebasedAt(c, r)] = d[r]
    BY DEF TreeCopied
<1>1. CASE r = p
    BY <1>1
<1>2. CASE r # p
  <2> DEFINE n == Len(p) + 1
             q == SubSeq(r, 1, n)
  <2>1. p \in Seq(Nat) /\ r \in Seq(Nat) /\ Len(p) \in Nat /\ Len(p) > 0 /\ Len(r) \in Nat
    BY PathsOK
  <2>2. Len(p) <= Len(r) /\ \A i \in 1..Len(p) : p[i] = r[i]
    BY <2>1, PrefixAt
  <2>3. Len(p) # Len(r)
    BY <1>2, <2>1, <2>2, PathEqual
  <2>4. n \in 1..Len(r)
    BY <2>1, <2>2, <2>3
  <2>5. q \in Seq(Nat) /\ Len(q) = n /\ IsPrefix(q, r)
    BY <2>1, <2>4, PrefixSub
  <2> HIDE DEF q
  <2>6. q \in Paths /\ d[q].kind # "none"
    BY <2>1, <2>5, TreeAbove
  <2>7. Front(q) = p
    <3>1. /\ Front(q) \in Seq(Nat) /\ Len(Front(q)) = Len(q) - 1
          /\ \A i \in 1..(Len(q) - 1) : Front(q)[i] = q[i]
      <4>1. q \in Seq(Nat) /\ Len(q) > 0
        BY <2>1, <2>5
      <4> QED BY <4>1, FrontOK
    <3>2. \A i \in 1..Len(q) : q[i] = r[i]
      BY <2>1, <2>5, PrefixAt
    <3>3. Len(q) - 1 = Len(p)
      BY <2>1, <2>5
    <3>4. \A i \in 1..Len(p) : Front(q)[i] = p[i]
      <4> SUFFICES ASSUME NEW i \in 1..Len(p) PROVE Front(q)[i] = p[i]
        OBVIOUS
      <4>1. i \in 1..Len(q) /\ i \in 1..(Len(q) - 1)
        BY <2>1, <2>5
      <4> QED BY <2>2, <3>1, <3>2, <4>1
    <3> QED BY <2>1, <3>1, <3>3, <3>4, PathEqual
  <2>8. q \in EntriesIn(d, p)
    BY <2>5, <2>6, <2>7 DEF EntriesIn
  <2> QED BY <2>5, <2>8 DEF TreeCopied
<1> QED BY <1>1, <1>2

-----------------------------------------------------------------------------
(***************************************************************************)
(* Folders being copied: in the middle of an entry, or about to look for   *)
(* the next one.                                                           *)
(***************************************************************************)
InMiddle(d, c, f, q) ==
    /\ d[f.src].kind = "dir" /\ f.count = Cardinality(EntriesIn(d, f.src))
    /\ FirstCopied(d, c, f.src, f.i - 1)
    /\ d[q].kind # "none" /\ IndexIn(d, q) = f.i - 1

AtEntry(d, c, f) ==
    /\ d[f.src].kind = "dir" /\ f.count = Cardinality(EntriesIn(d, f.src))
    /\ FirstCopied(d, c, f.src, f.i)

FramesExact(d, c, F, l) == \A k \in 1..Len(F) : FrameExact(d, c, F, l, k)

(* A folder on the stack is in the middle of an entry or before one.       *)
LEMMA FrameCases ==
    ASSUME NEW d, NEW c, NEW F, NEW l, NEW k
    PROVE  FrameExact(d, c, F, l, k) <=>
             IF k = Len(F) /\ l = "dir" THEN AtEntry(d, c, F[k])
             ELSE InMiddle(d, c, F[k], Current(F, c, k))
    BY DEF FrameExact, AtEntry, InMiddle

SamePlaces(c, b) == b.isrc = c.isrc /\ b.idest = c.idest

(* q is directly in the folder p.                                          *)
Inside(q, p) == q \in Paths /\ Len(q) = Len(p) + 1 /\ Front(q) = p

(* A step on an entry keeps the folders around it exact.                   *)
LEMMA MiddleKeeps ==
    ASSUME NEW c, Apart(c), NEW b, SamePlaces(c, b), NEW d, NEW e, NEW w, Touched(d, e, c, w),
           NEW f, Below(c, f.src), NEW q, Inside(q, f.src), Below(c, q), IsPrefix(q, w),
           InMiddle(d, c, f, q)
    PROVE  InMiddle(e, b, f, q)
<1> DEFINE p == f.src
<1>1. /\ e[p] = d[p] /\ e[q] = d[q] /\ EntriesIn(e, p) = EntriesIn(d, p)
      /\ \A r : Front(r) = p => IndexIn(e, r) = IndexIn(d, r)
    BY SourceKeeps
<1>2. ASSUME NEW r \in EntriesIn(e, p), IndexIn(e, r) < f.i - 1 PROVE TreeCopied(e, b, r)
  <2>1. r \in EntriesIn(d, p) /\ r \in Paths /\ Len(r) = Len(p) + 1 /\ Front(r) = p
    BY <1>1 DEF EntriesIn
  <2>2. IndexIn(d, r) < f.i - 1
    BY <1>1, <1>2, <2>1
  <2>3. TreeCopied(d, c, r)
    BY <2>1, <2>2 DEF InMiddle, FirstCopied
  <2>4. r # q
    BY <2>2, IndexOK DEF InMiddle
  <2>5. p \in Seq(Nat) /\ q \in Seq(Nat) /\ r \in Seq(Nat) /\ w \in Seq(Nat)
        /\ c.isrc \in Seq(Nat) /\ Len(q) = Len(r) /\ Len(r) \in Nat /\ Len(r) > 0
    BY <2>1, PathsOK DEF Inside, Below, Touched, Apart
  <2>6. ~IsPrefix(r, w)
    BY <2>4, <2>5, PrefixLinear
  <2>7. Below(c, r)
    <3>1. IsPrefix(p, r)
      BY <2>1, <2>5, FrontOK
    <3>2. IsPrefix(c.isrc, r)
      BY <2>5, <3>1, PrefixTrans DEF Below
    <3> QED BY <2>1, <3>2 DEF Below
  <2>8. TreeCopied(e, c, r)
    BY <2>3, <2>6, <2>7, CopiedKeeps
  <2> QED BY <2>8 DEF TreeCopied, RebasedAt, SamePlaces
<1>3. FirstCopied(e, b, p, f.i - 1)
    BY <1>2 DEF FirstCopied
<1>4. Front(q) = p
    BY DEF Inside
<1> QED BY <1>1, <1>3, <1>4 DEF InMiddle

(* The entry a folder is at was copied.                                    *)
LEMMA Advance ==
    ASSUME NEW d, NEW c, NEW f \in Frame, NEW q, Inside(q, f.src), InMiddle(d, c, f, q),
           TreeCopied(d, c, q)
    PROVE  AtEntry(d, c, f)
<1> DEFINE p == f.src
<1>1. q \in EntriesIn(d, p)
    BY DEF Inside, InMiddle, EntriesIn
<1>2. ASSUME NEW r \in EntriesIn(d, p), IndexIn(d, r) < f.i PROVE TreeCopied(d, c, r)
  <2>1. CASE IndexIn(d, r) < f.i - 1
    BY <2>1 DEF InMiddle, FirstCopied
  <2>2. CASE ~(IndexIn(d, r) < f.i - 1)
    <3>1. IndexIn(d, r) \in Nat /\ f.i \in Nat
      BY IndexOK DEF Frame
    <3>2. IndexIn(d, r) = IndexIn(d, q)
      BY <1>2, <2>2, <3>1 DEF InMiddle
    <3>3. r = q
      BY <1>1, <3>2, IndexInjective
    <3> QED BY <3>3
  <2> QED BY <2>1, <2>2
<1> QED BY <1>2 DEF AtEntry, InMiddle, FirstCopied

(* What is on the stack, seen from a folder on it.                         *)
LEMMA CurrentOK ==
    ASSUME NEW d, NEW c, NEW F, NEW l, StackOK(d, c, F, l), l \in ItemPcs,
           NEW k \in 1..Len(F)
    PROVE  /\ F[k] \in Frame /\ Below(c, F[k].src) /\ Apart(c)
           /\ Entering(l) \/ k < Len(F) =>
                Inside(Current(F, c, k), F[k].src) /\ Below(c, Current(F, c, k))
<1>1. /\ F \in Seq(Frame) /\ {c.isrc, c.idest} \subseteq Paths /\ F # <<>>
      /\ ~IsPrefix(c.isrc, c.idest) /\ ~IsPrefix(c.idest, c.isrc)
      /\ \A n \in 1..Len(F) : At(c, F[n].src, F[n].dest, n - 1)
      /\ \A n \in 2..Len(F) : Front(F[n].src) = F[n - 1].src
      /\ Entering(l) => At(c, c.src, c.dest, Len(F)) /\ Front(c.src) = F[Len(F)].src
    BY DEF StackOK
<1>2. Len(F) \in Nat /\ k \in Nat /\ Len(c.isrc) \in Nat
    BY <1>1, PathsOK
<1>3. F[k] \in Frame /\ At(c, F[k].src, F[k].dest, k - 1)
    BY <1>1
<1>4. Below(c, F[k].src) /\ Len(F[k].src) = Len(c.isrc) + (k - 1)
    BY <1>3 DEF At, Below
<1>5. CASE k < Len(F)
  <2>1. k + 1 \in 2..Len(F) /\ k + 1 \in 1..Len(F) /\ (k + 1) - 1 = k
    BY <1>2, <1>5
  <2>2. At(c, F[k + 1].src, F[k + 1].dest, (k + 1) - 1) /\ Front(F[k + 1].src) = F[(k + 1) - 1].src
    BY <1>1, <2>1
  <2>3. At(c, F[k + 1].src, F[k + 1].dest, k) /\ Front(F[k + 1].src) = F[k].src
    BY <2>1, <2>2
  <2>4. /\ F[k + 1].src \in Paths /\ IsPrefix(c.isrc, F[k + 1].src)
        /\ Len(F[k + 1].src) = Len(c.isrc) + k
    BY <2>3 DEF At
  <2>5. Len(F[k + 1].src) = Len(F[k].src) + 1
    BY <1>2, <1>4, <2>4
  <2>6. Current(F, c, k) = F[k + 1].src
    BY <1>5 DEF Current
  <2> QED BY <1>1, <1>3, <1>4, <2>3, <2>4, <2>5, <2>6 DEF Inside, Below, Apart
<1>6. CASE ~(k < Len(F))
  <2>1. k = Len(F) /\ Current(F, c, k) = c.src
    BY <1>2, <1>6 DEF Current
  <2>2. ASSUME Entering(l)
        PROVE  Inside(c.src, F[k].src) /\ Below(c, c.src)
    <3>1. /\ c.src \in Paths /\ IsPrefix(c.isrc, c.src) /\ Len(c.src) = Len(c.isrc) + k
          /\ Front(c.src) = F[k].src
      BY <1>1, <2>1, <2>2 DEF At
    <3>2. Len(c.src) = Len(F[k].src) + 1
      BY <1>2, <1>4, <3>1
    <3> QED BY <3>1, <3>2 DEF Inside, Below
  <2> QED BY <1>1, <1>3, <1>4, <1>6, <2>1, <2>2 DEF Apart
<1> QED BY <1>5, <1>6

(* ... and it is above where the copy thread is.                           *)
LEMMA CurrentAbove ==
    ASSUME NEW d, NEW c, NEW F, NEW l, StackOK(d, c, F, l), l \in ItemPcs, Chained(c, F, l),
           NEW k \in 1..Len(F)
    PROVE  /\ Entering(l) => IsPrefix(Current(F, c, k), c.src)
           /\ k < Len(F) => IsPrefix(Current(F, c, k), F[Len(F)].src)
<1>1. F \in Seq(Frame) /\ Len(F) \in Nat /\ k \in Nat
    BY DEF StackOK
<1>2. CASE k < Len(F)
  <2>1. k + 1 \in 1..Len(F) /\ Len(F) \in 1..Len(F) /\ k + 1 <= Len(F)
    BY <1>1, <1>2
  <2> QED BY <1>2, <2>1 DEF Current, Chained
<1>3. CASE ~(k < Len(F))
  <2>1. Entering(l) => c.src \in Seq(Nat)
    BY PathsOK DEF StackOK, At
  <2> QED BY <1>3, <2>1, PrefixSelf DEF Current
<1> QED BY <1>2, <1>3

(* The folders on the stack at the kinds of steps.                         *)
LEMMA FramesKeep ==
    ASSUME NEW d, NEW c, NEW F, NEW l, StackOK(d, c, F, l), l \in ItemPcs, Entering(l),
           Chained(c, F, l), FramesExact(d, c, F, l),
           NEW e, Touched(d, e, c, c.src), NEW b, SameItem(c, b), NEW m, m # "dir"
    PROVE  FramesExact(e, b, F, m)
<1> SUFFICES ASSUME NEW k \in 1..Len(F) PROVE FrameExact(e, b, F, m, k)
    BY DEF FramesExact
<1> DEFINE q == Current(F, c, k)
<1>1. /\ Below(c, F[k].src) /\ Apart(c) /\ Inside(q, F[k].src) /\ Below(c, q)
      /\ IsPrefix(q, c.src)
    BY CurrentOK, CurrentAbove
<1>2. l # "dir" /\ SamePlaces(c, b)
    BY Places DEF Entering, SameItem, SamePlaces
<1>3. InMiddle(d, c, F[k], q)
    BY <1>2, FrameCases DEF FramesExact
<1> HIDE DEF q
<1>4. InMiddle(e, b, F[k], q)
    BY <1>1, <1>2, <1>3, MiddleKeeps
<1>5. q = Current(F, b, k)
    BY DEF q, Current, SameItem
<1> QED BY <1>4, <1>5, FrameCases

(* A folder is entered: none of its entries is copied yet.                 *)
LEMMA FramesPush ==
    ASSUME NEW d, NEW c, NEW F, StackOK(d, c, F, "enter"),
           Chained(c, F, "enter"), FramesExact(d, c, F, "enter"),
           NEW e, Touched(d, e, c, c.src), e[c.src].kind = "dir",
           NEW f, f.src = c.src, f.i = 0, f.count = Cardinality(EntriesIn(e, c.src))
    PROVE  FramesExact(e, c, Append(F, f), "dir")
<1> DEFINE G == Append(F, f)
           n == Len(F) + 1
<1>1. "enter" \in ItemPcs /\ Entering("enter") /\ c \in Copy
    BY Places DEF Entering, StackOK
<1>2. F \in Seq(Frame) /\ Len(F) \in Nat
    BY DEF StackOK
<1>3. Len(G) = n /\ G[n] = f /\ \A k \in 1..Len(F) : G[k] = F[k]
    BY <1>2
<1>4. FrameExact(e, c, G, "dir", n)
  <2>1. FirstCopied(e, c, f.src, 0)
    <3>1. ASSUME NEW q \in EntriesIn(e, f.src) PROVE ~(IndexIn(e, q) < 0)
      <4>1. IndexIn(e, q) \in Nat
        BY IndexOK
      <4> QED BY <4>1
    <3> QED BY <3>1 DEF FirstCopied
  <2>2. AtEntry(e, c, f)
    BY <2>1 DEF AtEntry
  <2> HIDE DEF G
  <2> QED BY <1>3, <2>2, FrameCases
<1>5. ASSUME NEW k \in 1..Len(F) PROVE FrameExact(e, c, G, "dir", k)
  <2>1. SameItem(c, c)
    BY <1>1, CopyFields
  <2>2. FramesExact(e, c, F, "enter")
    BY <1>1, <2>1, FramesKeep
  <2>3. InMiddle(e, c, F[k], Current(F, c, k))
    BY <2>2, FrameCases DEF FramesExact
  <2>4. Current(G, c, k) = Current(F, c, k)
    <3>1. CASE k < Len(F)
      <4>1. k + 1 \in 1..Len(F) /\ k < n
        BY <1>2, <3>1
      <4> QED BY <1>3, <3>1, <4>1 DEF Current
    <3>2. CASE ~(k < Len(F))
      <4>1. k + 1 = n /\ k < n
        BY <1>2, <3>2
      <4> QED BY <1>3, <3>2, <4>1 DEF Current
    <3> QED BY <3>1, <3>2
  <2>5. k # Len(G) /\ G[k] = F[k]
    BY <1>2, <1>3
  <2> HIDE DEF G
  <2> QED BY <2>3, <2>4, <2>5, FrameCases
<1> HIDE DEF G
<1>6. \A k \in 1..n : k \in 1..Len(F) \/ k = n
    BY <1>2
<1>7. FramesExact(e, c, G, "dir")
    BY <1>3, <1>4, <1>5, <1>6 DEF FramesExact
<1> QED BY <1>7 DEF G

(* Only the places of the item matter.                                     *)
LEMMA SameCopied ==
    ASSUME NEW d, NEW c, NEW b, SamePlaces(c, b)
    PROVE  /\ \A q : TreeCopied(d, b, q) <=> TreeCopied(d, c, q)
           /\ \A p, n : FirstCopied(d, b, p, n) <=> FirstCopied(d, c, p, n)
<1>1. \A p : RebasedAt(b, p) = RebasedAt(c, p)
    BY DEF SamePlaces, RebasedAt
<1>2. \A q : TreeCopied(d, b, q) <=> TreeCopied(d, c, q)
    BY <1>1 DEF TreeCopied
<1> QED BY <1>2 DEF FirstCopied

(* The innermost folder's next entry.                                      *)
LEMMA FramesEntry ==
    ASSUME NEW d, NEW c, NEW F, StackOK(d, c, F, "dir"), FramesExact(d, c, F, "dir"),
           NEW b, SamePlaces(c, b), NEW m,
           NEW G, G = [F EXCEPT ![Len(F)].i = @ + 1],
           \/ /\ m = "dir"
              /\ \A q \in EntriesIn(d, F[Len(F)].src) : IndexIn(d, q) # F[Len(F)].i
           \/ m # "dir" /\ d[b.src].kind # "none" /\ IndexIn(d, b.src) = F[Len(F)].i
    PROVE  FramesExact(d, b, G, m)
<1> DEFINE n == Len(F)
<1>1. F \in Seq(Frame) /\ F # <<>> /\ n \in Nat /\ n \in 1..n
    BY DEF StackOK
<1>2. /\ G \in Seq(Frame) /\ Len(G) = n
      /\ \A k \in 1..n : /\ G[k].src = F[k].src /\ G[k].count = F[k].count
                         /\ k # n => G[k].i = F[k].i
      /\ G[n].i = F[n].i + 1
    BY <1>1, FrameStep
<1>3. ASSUME NEW k \in 1..n, k # n PROVE FrameExact(d, b, G, m, k)
  <2>1. InMiddle(d, c, F[k], Current(F, c, k))
    BY <1>3, FrameCases DEF FramesExact
  <2>2. Current(G, b, k) = Current(F, c, k)
    <3>1. k < n /\ k + 1 \in 1..n
      BY <1>1, <1>3
    <3> QED BY <1>2, <3>1 DEF Current
  <2>3. InMiddle(d, b, G[k], Current(G, b, k))
    <3>1. G[k].src = F[k].src /\ G[k].count = F[k].count /\ G[k].i = F[k].i
      BY <1>2, <1>3
    <3> QED BY <2>1, <2>2, <3>1, SameCopied DEF InMiddle
  <2> QED BY <1>2, <1>3, <2>3, FrameCases
<1>4. FrameExact(d, b, G, m, n)
  <2>1. AtEntry(d, c, F[n])
    BY <1>1, FrameCases DEF FramesExact
  <2>2. F[n].i \in Nat /\ (F[n].i + 1) - 1 = F[n].i
    <3>1. F[n] \in Frame
      BY <1>1
    <3>2. F[n].i \in Nat
      BY <3>1 DEF Frame
    <3> QED BY <3>2
  <2>3. FirstCopied(d, b, F[n].src, F[n].i)
    BY <2>1, SameCopied DEF AtEntry
  <2>4. CASE m = "dir"
    <3>1. ASSUME NEW q \in EntriesIn(d, F[n].src), IndexIn(d, q) < F[n].i + 1
          PROVE  TreeCopied(d, b, q)
      <4>1. IndexIn(d, q) \in Nat /\ IndexIn(d, q) # F[n].i
        BY <2>4, IndexOK
      <4>2. IndexIn(d, q) < F[n].i
        BY <2>2, <3>1, <4>1
      <4> QED BY <2>3, <4>2 DEF FirstCopied
    <3>2. FirstCopied(d, b, F[n].src, F[n].i + 1)
      BY <3>1 DEF FirstCopied
    <3>3. AtEntry(d, b, G[n])
      BY <1>1, <1>2, <2>1, <3>2 DEF AtEntry
    <3> QED BY <1>2, <2>4, <3>3, FrameCases
  <2>5. CASE m # "dir"
    <3>1. d[b.src].kind # "none" /\ IndexIn(d, b.src) = F[n].i
      BY <2>5
    <3>2. G[n].src = F[n].src /\ G[n].count = F[n].count /\ G[n].i - 1 = F[n].i
      BY <1>1, <1>2, <2>2
    <3>3. InMiddle(d, b, G[n], b.src)
      BY <2>1, <2>3, <3>1, <3>2 DEF InMiddle, AtEntry
    <3>4. Current(G, b, n) = b.src
      <4>1. ~(n < Len(G))
        BY <1>1, <1>2
      <4> QED BY <4>1 DEF Current
    <3> QED BY <2>5, <3>3, <3>4, FrameCases
  <2> QED BY <2>4, <2>5
<1> QED BY <1>2, <1>3, <1>4 DEF FramesExact

(* An entry is copied: its folder goes on with the next one.               *)
LEMMA FramesDone ==
    ASSUME NEW d, NEW c, NEW F, NEW l, StackOK(d, c, F, l), l \in ItemPcs, Chained(c, F, l),
           FramesExact(d, c, F, l), NEW N \in Nat, N <= Len(F), Entering(l) \/ N < Len(F),
           NEW w, NEW e, Touched(d, e, c, w), N > 0 => w = Current(F, c, N),
           \A k \in 1..N : IsPrefix(Current(F, c, k), w),
           TreeCopied(e, c, w),
           NEW G, Len(G) = N, \A k \in 1..N : G[k] = F[k]
    PROVE  FramesExact(e, c, G, "dir")
<1> SUFFICES ASSUME NEW k \in 1..N PROVE FrameExact(e, c, G, "dir", k)
    BY DEF FramesExact
<1> DEFINE q == Current(F, c, k)
<1>1. F \in Seq(Frame) /\ Len(F) \in Nat /\ c \in Copy /\ k \in 1..Len(F) /\ k \in Nat
    BY DEF StackOK
<1>2. Entering(l) \/ k < Len(F)
    BY <1>1
<1>3. /\ F[k] \in Frame /\ Below(c, F[k].src) /\ Apart(c) /\ Inside(q, F[k].src) /\ Below(c, q)
      /\ IsPrefix(q, w)
    BY <1>1, <1>2, CurrentOK
<1>4. ~(k = Len(F) /\ l = "dir")
    BY <1>1, <1>2, Places DEF Entering
<1>5. InMiddle(d, c, F[k], q)
    BY <1>1, <1>4, FrameCases DEF FramesExact
<1>6. SamePlaces(c, c)
    BY DEF SamePlaces
<1> HIDE DEF q
<1>7. InMiddle(e, c, F[k], q)
    BY <1>3, <1>5, <1>6, MiddleKeeps
<1>8. CASE k = N
  <2>1. w = q
    BY <1>1, <1>8 DEF q
  <2>2. AtEntry(e, c, F[k])
    BY <1>3, <1>7, <2>1, Advance
  <2> QED BY <1>8, <2>2, FrameCases
<1>9. CASE k # N
  <2>1. k < N /\ k < Len(F) /\ k + 1 \in 1..N
    BY <1>1, <1>9
  <2>2. Current(G, c, k) = q
    BY <2>1 DEF Current, q
  <2> QED BY <1>7, <1>9, <2>2, FrameCases
<1> QED BY <1>8, <1>9

(* A file is copied when its data and permissions are.                     *)
LEMMA FileCopied ==
    ASSUME Shape, FileDone, FileExact(fs, cp, "filedone")
    PROVE  /\ Touched(fs, fs', cp, cp.src) /\ TreeCopied(fs', cp, cp.src)
           /\ \A p \in Paths : /\ fs'[p].kind = fs[p].kind
                               /\ fs[p].kind = "file" => fs'[p].data = fs[p].data
<1>1. pc = "filedone" /\ fs' = PermissionsCopied(cp.src, cp.dest) /\ "filedone" \in FilePcs
    BY Places DEF FileDone
<1>2. /\ cp.src \in Paths /\ cp.dest \in Paths /\ {cp.isrc, cp.idest} \subseteq Paths
      /\ ~IsPrefix(cp.isrc, cp.idest) /\ ~IsPrefix(cp.idest, cp.isrc)
      /\ At(cp, cp.src, cp.dest, Len(frames)) /\ fs[cp.dest].kind = "file"
      /\ fs[cp.src] \in Entry /\ fs[cp.dest] \in Entry /\ fs \in [Paths -> Entry]
    BY <1>1, InFile, InEnter DEF Shape
<1>3. fs[cp.dest].kind # "none"
    BY <1>2
<1>4. PICK e : Permitted(cp.src, cp.dest, e)
    BY <1>1, <1>2, <1>3, PermissionsOK
<1>5. /\ e \in Entry /\ e.kind = "file" /\ e.data = fs[cp.dest].data
      /\ fs' = [fs EXCEPT ![cp.dest] = e]
    BY <1>2, <1>4 DEF Permitted
<1>6. /\ fs'[cp.dest] = e /\ \A p \in Paths \ {cp.dest} : fs'[p] = fs[p]
      /\ \A p \in Paths : fs'[p].kind = fs[p].kind
      /\ IsTree(fs')
    BY <1>2, <1>5, DiskChanged DEF Shape
<1>7. cp.dest = RebasedAt(cp, cp.src) /\ Below(cp, cp.src) /\ Apart(cp)
    BY <1>2 DEF At, Below, Apart
<1>8. Touched(fs, fs', cp, cp.src)
    BY <1>2, <1>6, <1>7 DEF Touched
<1>9. fs'[cp.src] = fs[cp.src] /\ fs[cp.src].kind = "file" /\ fs[cp.dest].data = fs[cp.src].data
  <2>1. fs'[cp.src] = fs[cp.src]
    BY <1>7, <1>8, SourceKeeps
  <2> QED BY <2>1 DEF FileExact
<1>10. fs'[cp.dest] = fs'[cp.src]
  <2>1. e.rw = fs[cp.src].rw
    BY <1>4, <1>9 DEF Permitted
  <2>2. e = [kind |-> "file", data |-> e.data, rw |-> e.rw]
        /\ fs[cp.src] = [kind |-> "file", data |-> fs[cp.src].data, rw |-> fs[cp.src].rw]
    BY <1>2, <1>5, <1>9, EntryOK
  <2> QED BY <1>5, <1>6, <1>9, <2>1, <2>2
<1>11. EntriesIn(fs', cp.src) = {}
  <2> SUFFICES ASSUME NEW q \in EntriesIn(fs', cp.src) PROVE FALSE
    OBVIOUS
  <2>1. q \in Paths /\ fs'[q].kind # "none" /\ Front(q) = cp.src /\ Len(q) = Len(cp.src) + 1
    BY DEF EntriesIn
  <2>2. q \in Seq(Nat) /\ Len(q) > 0 /\ cp.src \in Seq(Nat) /\ Len(cp.src) > 0
        /\ Len(cp.src) \in Nat
    BY <1>2, <2>1, PathsOK
  <2>3. IsPrefix(cp.src, q) /\ cp.src # q
    BY <2>1, <2>2, FrontOK
  <2>4. fs'[cp.src].kind \in {"dir", "mount"}
    BY <1>6, <2>1, <2>2, <2>3, TreeAbove
  <2> QED BY <1>9, <2>4
<1>12. TreeCopied(fs', cp, cp.src)
    BY <1>2, <1>6, <1>7, <1>10, <1>11, TreeWhole
<1>13. \A p \in Paths : fs[p].kind = "file" => fs'[p].data = fs[p].data
    BY <1>5, <1>6
<1> QED BY <1>6, <1>8, <1>12, <1>13

(* A folder is copied when all its entries and its permissions are.        *)
LEMMA FolderCopied ==
    ASSUME Shape, DirectoryDone, FramesExact(fs, cp, frames, "dir")
    PROVE  /\ Touched(fs, fs', cp, top.src) /\ TreeCopied(fs', cp, top.src)
           /\ \A p \in Paths : /\ fs'[p].kind = fs[p].kind
                               /\ fs[p].kind = "file" => fs'[p].data = fs[p].data
<1> DEFINE s == top.src
           t == top.dest
<1>1. pc = "dir" /\ fs' = PermissionsCopied(s, t) /\ top.i = top.count
    BY DEF DirectoryDone
<1>2. /\ {cp.isrc, cp.idest} \subseteq Paths
      /\ ~IsPrefix(cp.isrc, cp.idest) /\ ~IsPrefix(cp.idest, cp.isrc)
      /\ Len(frames) \in Nat /\ Len(frames) > 0 /\ top = frames[Len(frames)]
      /\ At(cp, s, t, Len(frames) - 1) /\ s \in Paths /\ t \in Paths
      /\ fs[t].kind = "dir" /\ fs[t] \in Entry /\ fs[s] \in Entry /\ fs \in [Paths -> Entry]
    BY <1>1, InFolder DEF Shape
<1>3. AtEntry(fs, cp, top)
  <2>1. Len(frames) \in 1..Len(frames)
    BY <1>2
  <2>2. FrameExact(fs, cp, frames, "dir", Len(frames))
    BY <2>1 DEF FramesExact
  <2> QED BY <1>2, <2>2, FrameCases
<1> HIDE DEF s, t
<1>4. fs[t].kind # "none"
    BY <1>2
<1>5. PICK e : Permitted(s, t, e)
    BY <1>1, <1>2, <1>4, PermissionsOK
<1>6. /\ e \in Entry /\ e.kind = "dir" /\ fs' = [fs EXCEPT ![t] = e]
    BY <1>2, <1>5 DEF Permitted
<1>7. /\ fs'[t] = e /\ \A p \in Paths \ {t} : fs'[p] = fs[p]
      /\ \A p \in Paths : fs'[p].kind = fs[p].kind
      /\ IsTree(fs')
    BY <1>2, <1>6, DiskChanged DEF Shape
<1>8. t = RebasedAt(cp, s) /\ Below(cp, s) /\ Apart(cp)
    BY <1>2 DEF At, Below, Apart
<1>9. Touched(fs, fs', cp, s)
    BY <1>2, <1>7, <1>8 DEF Touched
<1>10. fs'[s] = fs[s] /\ fs[s].kind = "dir" /\ EntriesIn(fs', s) = EntriesIn(fs, s)
    BY <1>3, <1>8, <1>9, SourceKeeps DEF AtEntry, s
<1>11. fs'[t] = fs'[s]
  <2>1. e.rw = fs[s].rw
    BY <1>5, <1>10 DEF Permitted
  <2>2. e = [kind |-> "dir", data |-> <<>>, rw |-> e.rw]
        /\ fs[s] = [kind |-> "dir", data |-> <<>>, rw |-> fs[s].rw]
    BY <1>2, <1>6, <1>10, EntryOK
  <2> QED BY <1>7, <1>10, <2>1, <2>2
<1>12. ASSUME NEW q \in EntriesIn(fs', s) PROVE TreeCopied(fs', cp, q)
  <2>1. q \in EntriesIn(fs, s)
    BY <1>10
  <2>2. IndexIn(fs, q) < top.i /\ q \in Paths /\ Front(q) = s /\ Len(q) = Len(s) + 1
    <3>1. IndexIn(fs, q) < Cardinality(EntriesIn(fs, s)) /\ q \in Paths
      BY <2>1, IndexOK
    <3>2. top.i = Cardinality(EntriesIn(fs, s))
      BY <1>1, <1>3 DEF AtEntry, s
    <3>3. Front(q) = s /\ Len(q) = Len(s) + 1
      BY <2>1 DEF EntriesIn
    <3> QED BY <3>1, <3>2, <3>3
  <2>3. TreeCopied(fs, cp, q)
    BY <1>3, <2>1, <2>2 DEF AtEntry, FirstCopied, s
  <2>4. /\ s \in Seq(Nat) /\ q \in Seq(Nat) /\ Len(q) > 0 /\ Len(s) \in Nat
        /\ cp.isrc \in Seq(Nat) /\ IsPrefix(cp.isrc, s)
    BY <1>2, <1>8, <2>2, PathsOK DEF Below
  <2>5. IsPrefix(s, q)
    BY <2>2, <2>4, FrontOK
  <2>6. Below(cp, q)
    BY <2>2, <2>4, <2>5, PrefixTrans DEF Below
  <2>7. ~IsPrefix(q, s)
    BY <2>2, <2>4, PrefixAt
  <2> QED BY <1>8, <1>9, <2>3, <2>6, <2>7, CopiedKeeps
<1>13. TreeCopied(fs', cp, s)
    BY <1>2, <1>7, <1>8, <1>11, <1>12, TreeWhole
<1>14. \A p \in Paths : fs[p].kind = "file" => fs'[p].data = fs[p].data
    BY <1>2, <1>7
<1> QED BY <1>7, <1>9, <1>13, <1>14 DEF s

-----------------------------------------------------------------------------
(***************************************************************************)
(* A file being copied: written chunk by chunk, then read again and        *)
(* compared.                                                               *)
(***************************************************************************)
LEMMA FileTouched ==
    ASSUME Shape, FileStep
    PROVE  /\ Touched(fs, fs', cp, cp.src) /\ Apart(cp) /\ fs'[cp.src] = fs[cp.src]
           /\ \A p \in Paths : fs'[p].kind = fs[p].kind
           /\ \A p \in Paths \ {cp.dest} : fs'[p] = fs[p]
<1>1. pc \in FilePcs
    BY FileSteps
<1>2. /\ cp.src \in Paths /\ cp.dest \in Paths /\ {cp.isrc, cp.idest} \subseteq Paths
      /\ ~IsPrefix(cp.isrc, cp.idest) /\ ~IsPrefix(cp.idest, cp.isrc)
      /\ At(cp, cp.src, cp.dest, Len(frames)) /\ fs[cp.dest].kind = "file"
    BY <1>1, InFile, InEnter
<1>3. PICK e : FileWritten(e)
    BY FileSteps
<1>4. /\ \A p \in Paths \ {cp.dest} : fs'[p] = fs[p]
      /\ \A p \in Paths : fs'[p].kind = fs[p].kind
    BY <1>2, <1>3, DiskChanged DEF Shape, FileWritten
<1>5. cp.dest = RebasedAt(cp, cp.src) /\ Below(cp, cp.src) /\ Apart(cp)
    BY <1>2 DEF At, Below, Apart
<1>6. Touched(fs, fs', cp, cp.src)
    BY <1>2, <1>4, <1>5 DEF Touched
<1>7. fs'[cp.src] = fs[cp.src]
    BY <1>5, <1>6, SourceKeeps
<1> QED BY <1>4, <1>5, <1>6, <1>7

(* The exactness of a file when its copy is sized,                         *)
LEMMA FileStarts ==
    ASSUME Shape, Truncate \/ Sized, FileExact(fs, cp, pc), pc' \notin {"failed", "iofail"}
    PROVE  FileExact(fs', cp', pc')
<1>1. FileStep /\ pc \in {"trunc", "sized"} /\ pc \in FilePcs /\ cp' = cp
    BY Places DEF FileStep, Truncate, Sized
<1>2. /\ cp.size \in Nat /\ cp.off \in Nat /\ Len(fs[cp.dest].data) \in Nat
      /\ fs[cp.dest].data \in Seq(Chunks \cup {Junk}) /\ fs[cp.src] \in Entry
    BY <1>1, InFile
<1>3. fs'[cp.src] = fs[cp.src]
    BY <1>1, FileTouched
<1>4. fs[cp.src].kind = "file" /\ cp.size = Len(fs[cp.src].data) /\ cp.off = 0
    BY <1>1 DEF FileExact
<1>5. CASE Truncate
  <2>1. pc' = "sized"
    BY <1>5 DEF Truncate, Goto
  <2> QED BY <1>1, <1>3, <1>4, <2>1 DEF FileExact
<1>6. CASE Sized
  <2>1. /\ fs' = fs /\ Len(fs[cp.dest].data) = cp.size
        /\ pc' = IF cp.size = 0 THEN "filedone" ELSE "read"
    BY <1>6 DEF Sized, SizeOK, Goto
  <2>2. CASE cp.size = 0
    <3>1. fs[cp.src].data \in Seq(Chunks \cup {Junk})
      BY <1>2, EntryData
    <3>2. fs[cp.dest].data = fs[cp.src].data
      BY <1>2, <1>4, <2>1, <2>2, <3>1, EmptySeq
    <3> QED BY <1>1, <1>4, <2>1, <2>2, <3>2 DEF FileExact
  <2>3. CASE cp.size # 0
    <3>1. cp.off < cp.size
      BY <1>2, <1>4, <2>3
    <3> QED BY <1>1, <1>4, <2>1, <2>3, <3>1 DEF FileExact
  <2> QED BY <2>2, <2>3
<1> QED BY <1>5, <1>6

(* ... when a chunk is read or written,                                    *)
LEMMA FileWrites ==
    ASSUME Shape, Read \/ Write, FileExact(fs, cp, pc), pc' \notin {"failed", "iofail"}
    PROVE  FileExact(fs', cp', pc')
<1>1. FileStep /\ pc \in {"read", "write"} /\ pc \in FilePcs
    BY Places DEF FileStep, Read, Write
<1>2. /\ cp \in Copy /\ cp.size \in Nat /\ cp.off \in Nat /\ Len(fs[cp.dest].data) \in Nat
      /\ fs[cp.dest].data \in Seq(Chunks \cup {Junk}) /\ fs[cp.src] \in Entry
      /\ cp.dest \in Paths /\ fs \in [Paths -> Entry]
      /\ cp.buf \in Chunks \cup {Junk} /\ fs[cp.dest] \in Entry /\ fs[cp.dest].kind = "file"
    BY <1>1, InFile DEF Shape
<1>3. fs'[cp.src] = fs[cp.src]
    BY <1>1, FileTouched
<1>4. /\ fs[cp.src].kind = "file" /\ cp.size = Len(fs[cp.src].data) /\ cp.off < cp.size
      /\ Len(fs[cp.dest].data) = cp.size
    BY <1>1 DEF FileExact
<1>5. CASE Read
  <2>1. fs' = fs /\ pc' = "write" /\ cp' = [cp EXCEPT !.buf = fs[cp.src].data[cp.off + 1]]
    BY <1>5 DEF Read, ReadChunk, Goto
  <2>2. cp'.off = cp.off /\ cp'.size = cp.size /\ cp'.src = cp.src /\ cp'.dest = cp.dest
    BY <1>2, <2>1 DEF Copy
  <2> QED BY <1>4, <2>1, <2>2 DEF FileExact
<1>6. CASE Write
  <2>1. PICK v \in {cp.buf, Junk} :
            pc' = "wrote" /\ cp' = cp /\ fs' = [fs EXCEPT ![cp.dest].data[cp.off + 1] = v]
    BY <1>6 DEF Write, Goto
  <2> DEFINE s == [fs[cp.dest].data EXCEPT ![cp.off + 1] = v]
  <2>2. s \in Seq(Chunks \cup {Junk}) /\ Len(s) = Len(fs[cp.dest].data)
    <3>1. v \in Chunks \cup {Junk}
      BY <1>2, <2>1
    <3> QED BY <1>2, <1>4, <3>1
  <2>3. fs' = [fs EXCEPT ![cp.dest] = [fs[cp.dest] EXCEPT !.data = s]]
    BY <1>2, <2>1
  <2> HIDE DEF s
  <2>4. fs'[cp.dest].data = s
    BY <1>2, <2>2, <2>3, FileData
  <2> QED BY <1>3, <1>4, <2>1, <2>2, <2>4 DEF FileExact
<1> QED BY <1>5, <1>6

(* A chunk is done.                                                        *)
LEMMA ChunkSteps ==
    ASSUME cp \in Copy, NEW l, NEW m, ChunkDone(l, m), pc' # "failed"
    PROVE  /\ SameItem(cp, cp') /\ cp'.size = cp.size
           /\ \/ pc' = l /\ cp'.off = cp.off + 1 /\ cp.off + 1 < cp.size
              \/ pc' = m /\ cp'.off = 0 /\ ~(cp.off + 1 < cp.size)
<1>1. cp.off \in Nat /\ cp.size \in Nat /\ cp.off + 1 \in Nat /\ 0 \in Nat
    BY DEF Copy
<1>2. \/ pc' = l /\ cp' = [cp EXCEPT !.off = cp.off + 1] /\ cp.off + 1 < cp.size
      \/ pc' = m /\ cp' = [cp EXCEPT !.off = 0] /\ ~(cp.off + 1 < cp.size)
    BY DEF ChunkDone, Goto
<1>3. \A n \in Nat : LET b == [cp EXCEPT !.off = n]
                     IN  SameItem(cp, b) /\ b.off = n /\ b.size = cp.size
    BY CopyFields
<1>4. CASE pc' = l /\ cp' = [cp EXCEPT !.off = cp.off + 1] /\ cp.off + 1 < cp.size
    BY <1>1, <1>3, <1>4
<1>5. CASE pc' = m /\ cp' = [cp EXCEPT !.off = 0] /\ ~(cp.off + 1 < cp.size)
    BY <1>1, <1>3, <1>5
<1> QED BY <1>2, <1>4, <1>5

(* ... when a chunk is finished,                                           *)
LEMMA FileChunks ==
    ASSUME Shape, Wrote \/ Compared, FileExact(fs, cp, pc), pc' \notin {"failed", "iofail"}
    PROVE  FileExact(fs', cp', pc')
<1>1. FileStep /\ pc \in {"wrote", "compared"} /\ pc \in FilePcs /\ fs' = fs
    BY Places DEF FileStep, Wrote, Compared
<1>2. /\ cp \in Copy /\ cp.size \in Nat /\ cp.off \in Nat
      /\ fs[cp.dest].data \in Seq(Chunks \cup {Junk}) /\ fs[cp.src] \in Entry
    BY <1>1, InFile
<1>3. /\ fs[cp.src].kind = "file" /\ cp.size = Len(fs[cp.src].data) /\ cp.off < cp.size
      /\ Len(fs[cp.dest].data) = cp.size
      /\ pc = "compared" => SameUpTo(fs, cp, cp.off + 1)
    BY <1>1 DEF FileExact
<1>4. CASE Wrote
  <2>1. ChunkDone("read", "reread")
    BY <1>4 DEF Wrote
  <2>2. /\ cp'.src = cp.src /\ cp'.dest = cp.dest /\ cp'.size = cp.size
        /\ \/ pc' = "read" /\ cp'.off = cp.off + 1 /\ cp.off + 1 < cp.size
           \/ pc' = "reread" /\ cp'.off = 0
    BY <1>2, <2>1, ChunkSteps DEF SameItem
  <2>3. pc' = "reread" => SameUpTo(fs, cp', cp'.off) /\ cp'.off < cp.size
    BY <1>2, <1>3, <2>2 DEF SameUpTo
  <2> QED BY <1>1, <1>3, <2>2, <2>3 DEF FileExact
<1>5. CASE Compared
  <2>1. ChunkDone("reread", "filedone") /\ pc = "compared"
    BY <1>5 DEF Compared
  <2>2. /\ cp'.src = cp.src /\ cp'.dest = cp.dest /\ cp'.size = cp.size
        /\ \/ pc' = "reread" /\ cp'.off = cp.off + 1 /\ cp.off + 1 < cp.size
           \/ pc' = "filedone" /\ ~(cp.off + 1 < cp.size)
    BY <1>2, <2>1, ChunkSteps DEF SameItem
  <2>3. pc' = "reread" => SameUpTo(fs, cp', cp'.off) /\ cp'.off < cp.size
    BY <1>3, <2>1, <2>2 DEF SameUpTo
  <2>4. pc' = "filedone" => fs[cp.dest].data = fs[cp.src].data
    <3> SUFFICES ASSUME pc' = "filedone" PROVE fs[cp.dest].data = fs[cp.src].data
      OBVIOUS
    <3>1. cp.off + 1 = cp.size
      BY <1>2, <1>3, <2>2
    <3>2. \A i \in 1..cp.size : fs[cp.dest].data[i] = fs[cp.src].data[i]
      BY <1>3, <2>1, <3>1 DEF SameUpTo
    <3>3. fs[cp.src].data \in Seq(Chunks \cup {Junk})
      BY <1>2, EntryData
    <3> QED BY <1>2, <1>3, <3>2, <3>3, SeqEqual
  <2> QED BY <1>1, <1>3, <2>2, <2>3, <2>4 DEF FileExact
<1> QED BY <1>4, <1>5

(* ... when a chunk is read again and compared,                            *)
LEMMA FileCompares ==
    ASSUME Shape, Reread \/ Compare, FileExact(fs, cp, pc), pc' \notin {"failed", "iofail"}
    PROVE  FileExact(fs', cp', pc')
<1>1. FileStep /\ pc \in {"reread", "compare"} /\ pc \in FilePcs /\ fs' = fs
    BY Places DEF FileStep, Reread, Compare
<1>2. /\ cp \in Copy /\ cp.size \in Nat /\ cp.off \in Nat
      /\ cp.buf \in Chunks \cup {Junk} /\ fs[cp.src] \in Entry
    BY <1>1, InFile
<1>3. /\ fs[cp.src].kind = "file" /\ cp.size = Len(fs[cp.src].data) /\ cp.off < cp.size
      /\ Len(fs[cp.dest].data) = cp.size /\ SameUpTo(fs, cp, cp.off)
      /\ pc = "compare" => cp.buf = fs[cp.src].data[cp.off + 1]
    BY <1>1 DEF FileExact
<1>4. CASE Reread
  <2>1. pc' = "compare" /\ cp' = [cp EXCEPT !.buf = fs[cp.src].data[cp.off + 1]]
    BY <1>4 DEF Reread, ReadChunk, Goto
  <2>2. /\ cp'.off = cp.off /\ cp'.size = cp.size /\ cp'.src = cp.src /\ cp'.dest = cp.dest
        /\ cp'.buf = fs[cp.src].data[cp.off + 1]
    BY <1>2, <2>1 DEF Copy
  <2>3. SameUpTo(fs, cp', cp'.off)
    BY <1>3, <2>2 DEF SameUpTo
  <2> QED BY <1>1, <1>3, <2>1, <2>2, <2>3 DEF FileExact
<1>5. CASE Compare
  <2>1. pc' = "compared" /\ cp' = cp /\ cp.buf = fs[cp.dest].data[cp.off + 1] /\ pc = "compare"
    BY <1>5 DEF Compare, Goto, Same
  <2>2. SameUpTo(fs, cp, cp.off + 1)
    <3> SUFFICES ASSUME NEW i \in 1..(cp.off + 1)
                 PROVE  fs[cp.dest].data[i] = fs[cp.src].data[i]
      BY DEF SameUpTo
    <3>1. i \in 1..cp.off \/ i = cp.off + 1
      BY <1>2
    <3> QED BY <1>3, <2>1, <3>1 DEF SameUpTo
  <2> QED BY <1>1, <1>3, <2>1, <2>2 DEF FileExact
<1> QED BY <1>4, <1>5

(* ... and for every step on it.                                           *)
LEMMA FileExactSteps ==
    ASSUME Shape, FileStep, FileExact(fs, cp, pc), pc' \notin {"failed", "iofail"}
    PROVE  FileExact(fs', cp', pc')
<1>1. ~GiveUp
    BY DEF GiveUp, Goto
<1> QED BY <1>1, FileStarts, FileWrites, FileChunks, FileCompares DEF FileStep

-----------------------------------------------------------------------------
(***************************************************************************)
(* Undisturbed, every step copies exactly, and keeps every content.        *)
(***************************************************************************)
Copies ==
    OnlyOwn(fs, cp, pc, own) /\ Exact(fs, cp, frames, pc) /\ Kept(fs, pc, own)

(* The contents stay kept if their files stay and are not the copier's.    *)
LEMMA KeptStays ==
    ASSUME NEW d, NEW e, NEW l, NEW m, NEW o, NEW u, Kept(d, l, o),
           \A q \in Paths : d[q].kind = "file" /\ (l \in ItemPcs => q \notin o) =>
               e[q].kind = "file" /\ e[q].data = d[q].data /\ (m \in ItemPcs => q \notin u)
    PROVE  Kept(e, m, u)
    BY DEF Kept

(* Nothing of others appears where the copy goes.                          *)
LEMMA OnlyOwnStays ==
    ASSUME NEW d, NEW e, NEW c, NEW b, NEW l, NEW m, NEW o, NEW u, OnlyOwn(d, c, l, o),
           l \in ItemPcs, b.idest = c.idest, o \subseteq u,
           \A p \in Paths : e[p].kind # "none" => p \in u \/ d[p].kind # "none"
    PROVE  OnlyOwn(e, b, m, u)
    BY DEF OnlyOwn

(* Outside an item nothing is being copied.                                *)
LEMMA CopiesIdle ==
    ASSUME pc' \notin ItemPcs, Kept(fs', pc', own')
    PROVE  Copies'
<1>1. OnlyOwn(fs', cp', pc', own') /\ Exact(fs', cp', frames', pc')
    BY DEF OnlyOwn, Exact
<1> QED BY <1>1 DEF Copies

(* What is exact, part by part.                                            *)
LEMMA ExactFrames ==
    ASSUME NEW d, NEW c, NEW F, NEW l, Exact(d, c, F, l), l \in ItemPcs \ {"failed", "iofail"}
    PROVE  /\ FramesExact(d, c, F, l)
           /\ l = "enter" => d[c.src].kind # "none"
           /\ l \in FilePcs => FileExact(d, c, l)
           /\ l = "copied" => TreeCopied(d, c, c.isrc)
    BY DEF Exact, FramesExact

(* A step on a file copies exactly.                                        *)
LEMMA FileStepCopies ==
    ASSUME Shape, Chained(cp, frames, pc), Copies, FileStep
    PROVE  Copies'
<1>1. /\ pc \in FilePcs /\ pc' \in FilePcs \cup {"failed"} /\ frames' = frames /\ own' = own
      /\ SameItem(cp, cp') /\ pc \in ItemPcs /\ Entering(pc) /\ cp'.idest = cp.idest
    BY FileSteps, Places DEF Entering, SameItem
<1>2. /\ Touched(fs, fs', cp, cp.src) /\ \A p \in Paths : fs'[p].kind = fs[p].kind
      /\ \A p \in Paths \ {cp.dest} : fs'[p] = fs[p]
    BY FileTouched
<1>3. OnlyOwn(fs', cp', pc', own')
    BY <1>1, <1>2, OnlyOwnStays DEF Copies
<1>4. Exact(fs', cp', frames', pc')
  <2> SUFFICES ASSUME pc' \notin {"failed", "iofail"}
               PROVE  Exact(fs', cp', frames', pc')
    BY DEF Exact
  <2>1. pc # "iofail"
    BY DEF FileStep, Truncate, Sized, Read, Write, Wrote, Reread, Compare, Compared, GiveUp,
           Goto
  <2>2. pc \in ItemPcs \ {"failed", "iofail"}
    BY <1>1, <2>1, Places
  <2>3. FramesExact(fs, cp, frames, pc) /\ FileExact(fs, cp, pc)
    BY <1>1, <2>2, ExactFrames DEF Copies
  <2>4. FileExact(fs', cp', pc')
    BY <2>3, FileExactSteps
  <2>5. pc' \notin {"dir", "enter", "copied"}
    BY <1>1, Places
  <2>6. FramesExact(fs', cp', frames, pc')
    BY <1>1, <1>2, <2>3, <2>5, FramesKeep DEF Shape
  <2> QED BY <1>1, <2>4, <2>5, <2>6 DEF Exact, FramesExact
<1>5. cp.dest \in own
  <2>1. /\ cp.dest \in Paths /\ IsPrefix(cp.idest, cp.dest) /\ fs[cp.dest].kind = "file"
    BY <1>1, InFile, InEnter
  <2> QED BY <1>1, <2>1 DEF Copies, OnlyOwn
<1>6. \A q \in Paths : fs[q].kind = "file" /\ (pc \in ItemPcs => q \notin own) =>
          fs'[q].kind = "file" /\ fs'[q].data = fs[q].data /\ (pc' \in ItemPcs => q \notin own)
    BY <1>1, <1>2, <1>5
<1>7. Kept(fs', pc', own')
    BY <1>1, <1>6, KeptStays DEF Copies
<1> QED BY <1>3, <1>4, <1>7 DEF Copies

(* Giving an item up changes nothing.                                      *)
LEMMA FailedCopies ==
    ASSUME Copies, pc \in ItemPcs, pc' = "failed", fs' = fs, own' = own, cp' = cp
    PROVE  Copies'
<1>1. OnlyOwn(fs, cp, "failed", own)
    BY OnlyOwnStays DEF Copies
<1>2. Exact(fs, cp, frames', "failed")
    BY DEF Exact
<1>3. Kept(fs, "failed", own)
    BY KeptStays DEF Copies
<1> QED BY <1>1, <1>2, <1>3 DEF Copies

(* An item is made where the copy goes.                                    *)
Making(e) ==
    /\ e \in Entry /\ e.rw /\ e.kind # "none"
    /\ fs[cp.dest].kind = "none" /\ HasFolder(cp.dest)
    /\ fs' = [fs EXCEPT ![cp.dest] = e] /\ own' = own \cup {cp.dest}
    /\ SameItem(cp, cp')

(* What is created is the copier's own.                                    *)
LEMMA CreatesCopies ==
    ASSUME Shape, Copies, pc = "enter", NEW e, Making(e)
    PROVE  /\ OnlyOwn(fs', cp', pc', own') /\ Kept(fs', pc', own')
           /\ Touched(fs, fs', cp, cp.src) /\ fs'[cp.src] = fs[cp.src] /\ Apart(cp)
<1>1. /\ KindsStay(fs, fs') /\ \A p \in Paths \ {cp.dest} : fs'[p] = fs[p]
    BY Creates DEF Making
<1>2. /\ cp.src \in Paths /\ cp.dest \in Paths /\ {cp.isrc, cp.idest} \subseteq Paths
      /\ ~IsPrefix(cp.isrc, cp.idest) /\ ~IsPrefix(cp.idest, cp.isrc)
      /\ At(cp, cp.src, cp.dest, Len(frames)) /\ cp'.idest = cp.idest /\ pc \in ItemPcs
    BY InEnter, Places DEF SameItem, Making
<1>3. own \subseteq own' /\ cp.dest \in own' /\ own' \ {cp.dest} \subseteq own
    BY DEF Making
<1>4. OnlyOwn(fs', cp', pc', own')
  <2>1. \A p \in Paths : fs'[p].kind # "none" => p \in own' \/ fs[p].kind # "none"
    BY <1>1, <1>3
  <2> QED BY <1>2, <1>3, <2>1, OnlyOwnStays DEF Copies
<1>5. \A q \in Paths : fs[q].kind = "file" /\ (pc \in ItemPcs => q \notin own) =>
          fs'[q].kind = "file" /\ fs'[q].data = fs[q].data /\ (pc' \in ItemPcs => q \notin own')
  <2> SUFFICES ASSUME NEW q \in Paths, fs[q].kind = "file", q \notin own
               PROVE  fs'[q].kind = "file" /\ fs'[q].data = fs[q].data /\ q \notin own'
    BY <1>2
  <2>1. q # cp.dest
    BY DEF Making
  <2> QED BY <1>1, <1>3, <2>1
<1>6. Kept(fs', pc', own')
    BY <1>5, KeptStays DEF Copies
<1>7. cp.dest = RebasedAt(cp, cp.src) /\ Below(cp, cp.src) /\ Apart(cp)
    BY <1>2 DEF At, Below, Apart
<1>8. Touched(fs, fs', cp, cp.src)
    BY <1>1, <1>2, <1>7 DEF Touched
<1>9. fs'[cp.src] = fs[cp.src]
    BY <1>7, <1>8, SourceKeeps
<1> QED BY <1>4, <1>6, <1>7, <1>8, <1>9


(* A folder is created and entered.                                        *)
LEMMA EnterDirectoryCopies ==
    ASSUME Shape, Chained(cp, frames, pc), Copies, EnterDirectory
    PROVE  Copies'
<1>1. /\ pc = "enter" /\ cp' = cp /\ pc \in ItemPcs /\ fs[cp.src].kind = "dir"
      /\ pc \in ItemPcs \ {"failed", "iofail"}
    BY Places DEF EnterDirectory, Enter
<1>2. /\ cp \in Copy /\ cp.src \in Paths /\ cp.dest \in Paths /\ SameItem(cp, cp)
    BY <1>1, InEnter, CopyFields
<1>3. CASE pc' = "failed" /\ fs' = fs /\ own' = own
    BY <1>1, <1>3, FailedCopies
<1>4. CASE /\ CanMakeDirectory(cp.dest)
           /\ fs' = [fs EXCEPT ![cp.dest] = Dir(TRUE)] /\ own' = own \cup {cp.dest}
  <2>1. fs[cp.dest].kind = "none" /\ HasFolder(cp.dest)
    BY <1>2, <1>4 DEF CanMakeDirectory, vfs_exists
  <2>2. Dir(TRUE) \in Entry /\ Dir(TRUE).rw /\ Dir(TRUE).kind # "none"
    BY EntriesOK
  <2>3. /\ OnlyOwn(fs', cp', pc', own') /\ Kept(fs', pc', own')
        /\ Touched(fs, fs', cp, cp.src) /\ fs'[cp.src] = fs[cp.src] /\ Apart(cp)
    <3>1. Making(Dir(TRUE))
      BY <1>1, <1>2, <1>4, <2>1, <2>2 DEF Making
    <3> QED BY <1>1, <3>1, CreatesCopies
  <2>4. CASE pc' = "failed"
    BY <2>3, <2>4 DEF Copies, Exact
  <2>5. CASE /\ pc' = "dir"
             /\ frames' = Append(frames, [src |-> cp.src, dest |-> cp.dest, i |-> 0,
                                          count |-> vfs_directory_get_item_count(cp.src)])
    <3> DEFINE f == [src |-> cp.src, dest |-> cp.dest, i |-> 0,
                     count |-> vfs_directory_get_item_count(cp.src)]
    <3>1. Below(cp, cp.src)
      BY <2>3 DEF Touched
    <3>2. EntriesIn(fs', cp.src) = EntriesIn(fs, cp.src)
      BY <2>3, <3>1, SourceKeeps
    <3>3. f.src = cp.src /\ f.i = 0 /\ f.count = Cardinality(EntriesIn(fs', cp.src))
      BY <3>2, CountOK
    <3>4. frames' = Append(frames, f)
      BY <2>5
    <3> HIDE DEF f
    <3>5. FramesExact(fs, cp, frames, "enter")
      BY <1>1, ExactFrames DEF Copies
    <3>6. fs'[cp.src].kind = "dir"
      BY <1>1, <2>3
    <3>7. FramesExact(fs', cp, frames', "dir")
      BY <1>1, <2>3, <3>3, <3>4, <3>5, <3>6, FramesPush DEF Shape
    <3>8. Exact(fs', cp', frames', pc')
      BY <1>1, <2>5, <3>7, Places DEF Exact, FramesExact
    <3> QED BY <2>3, <3>8 DEF Copies
  <2> QED BY <1>1, <1>4, <2>4, <2>5 DEF EnterDirectory, Goto
<1> QED BY <1>1, <1>3, <1>4 DEF EnterDirectory, Goto

(* A file is created.                                                      *)
LEMMA EnterFileCopies ==
    ASSUME Shape, Chained(cp, frames, pc), Copies, EnterFile
    PROVE  Copies'
<1>1. pc = "enter" /\ frames' = frames /\ SameItem(cp, cp') /\ pc \in ItemPcs
      /\ pc \in ItemPcs \ {"failed", "iofail"} /\ Entering(pc)
    BY EnterFileSteps, Places DEF Entering
<1>2. /\ cp \in Copy /\ cp.src \in Paths /\ cp.dest \in Paths /\ cp'.src = cp.src
      /\ cp'.dest = cp.dest /\ cp'.idest = cp.idest /\ IsPrefix(cp.idest, cp.dest)
      /\ At(cp, cp.src, cp.dest, Len(frames)) /\ {cp.isrc, cp.idest} \subseteq Paths
      /\ ~IsPrefix(cp.isrc, cp.idest) /\ ~IsPrefix(cp.idest, cp.isrc)
    BY <1>1, InEnter DEF SameItem
<1>3. FramesExact(fs, cp, frames, pc)
    BY <1>1, ExactFrames DEF Copies
<1>4. ASSUME Touched(fs, fs', cp, cp.src), fs'[cp.src] = fs[cp.src],
             pc' \in {"trunc", "failed"}, fs[cp.src].kind = "file",
             cp'.size = Len(fs[cp.src].data), cp'.off = 0
      PROVE  Exact(fs', cp', frames', pc')
  <2>1. FramesExact(fs', cp', frames, pc')
    BY <1>1, <1>3, <1>4, FramesKeep DEF Shape
  <2>2. pc' = "trunc" => FileExact(fs', cp', pc')
    BY <1>2, <1>4 DEF FileExact
  <2> QED BY <1>1, <1>4, <2>1, <2>2, Places DEF Exact, FramesExact
<1>5. CASE pc' = "failed" /\ fs' = fs /\ own' = own /\ cp' = cp
    BY <1>1, <1>5, FailedCopies
<1>6. CASE /\ pc' \in {"trunc", "failed"} /\ fs[cp.src].kind = "file"
           /\ cp'.size = Len(fs[cp.src].data) /\ cp'.off = 0
           /\ fs' = fs /\ own' = own
  <2>1. Touched(fs, fs', cp, cp.src)
    BY <1>2, <1>6 DEF Touched, Below, At
  <2>2. Exact(fs', cp', frames', pc')
    BY <1>4, <1>6, <2>1
  <2>3. OnlyOwn(fs', cp', pc', own')
    BY <1>1, <1>2, <1>6, OnlyOwnStays DEF Copies
  <2>4. Kept(fs', pc', own')
    BY <1>1, <1>6, KeptStays DEF Copies
  <2> QED BY <2>2, <2>3, <2>4 DEF Copies
<1>7. CASE /\ pc' \in {"trunc", "failed"} /\ fs[cp.src].kind = "file"
           /\ cp'.size = Len(fs[cp.src].data) /\ cp'.off = 0
           /\ fs[cp.dest].kind = "none" /\ HasFolder(cp.dest)
           /\ fs' = [fs EXCEPT ![cp.dest] = Created] /\ own' = own \cup {cp.dest}
  <2>1. Created \in Entry /\ Created.rw /\ Created.kind # "none"
    BY EntriesOK
  <2>2. /\ OnlyOwn(fs', cp', pc', own') /\ Kept(fs', pc', own')
        /\ Touched(fs, fs', cp, cp.src) /\ fs'[cp.src] = fs[cp.src]
    <3>1. Making(Created)
      BY <1>1, <1>7, <2>1 DEF Making
    <3> QED BY <1>1, <3>1, CreatesCopies
  <2>3. Exact(fs', cp', frames', pc')
    BY <1>4, <1>7, <2>2
  <2> QED BY <2>2, <2>3 DEF Copies
<1> QED BY <1>5, <1>6, <1>7, EnterFileSteps

(* The next entry of a folder is looked at.                                *)
LEMMA DirectoryEntryCopies ==
    ASSUME Shape, Copies, DirectoryEntry
    PROVE  Copies'
<1>1. /\ pc = "dir" /\ fs' = fs /\ own' = own /\ pc \in ItemPcs
      /\ pc \in ItemPcs \ {"failed", "iofail"}
      /\ frames' = [frames EXCEPT ![Len(frames)].i = @ + 1]
    BY EntrySteps, Places
<1>2. cp \in Copy /\ top = frames[Len(frames)]
    BY <1>1, InFolder
<1>3. FramesExact(fs, cp, frames, "dir") /\ StackOK(fs, cp, frames, "dir")
    BY <1>1, ExactFrames DEF Copies, Shape
<1>4. ASSUME cp'.idest = cp.idest, pc' \in ItemPcs
      PROVE  OnlyOwn(fs', cp', pc', own') /\ Kept(fs', pc', own')
  <2>1. OnlyOwn(fs', cp', pc', own')
    BY <1>1, <1>4, OnlyOwnStays DEF Copies
  <2>2. Kept(fs', pc', own')
    BY <1>1, KeptStays DEF Copies
  <2> QED BY <2>1, <2>2
<1>5. CASE pc' = "failed" /\ cp' = cp
    BY <1>1, <1>5, FailedCopies
<1>6. CASE /\ pc' = "dir" /\ cp' = cp
           /\ \A q \in EntriesIn(fs, top.src) : IndexIn(fs, q) # top.i
  <2>1. SamePlaces(cp, cp)
    BY DEF SamePlaces
  <2>2. FramesExact(fs, cp, frames', "dir")
    BY <1>1, <1>2, <1>3, <1>6, <2>1, FramesEntry
  <2>3. Exact(fs', cp', frames', pc')
    BY <1>1, <1>6, <2>2, Places DEF Exact, FramesExact
  <2> QED BY <1>1, <1>4, <1>6, <2>3 DEF Copies
<1>7. ASSUME NEW q \in EntriesIn(fs, top.src), IndexIn(fs, q) = top.i, pc' = "enter",
             Append(top.dest, Last(q)) \in Paths,
             cp' = [cp EXCEPT !.src = q, !.dest = Append(top.dest, Last(q))]
      PROVE  Copies'
  <2>1. cp'.src = q /\ cp'.isrc = cp.isrc /\ cp'.idest = cp.idest
    BY <1>2, <1>7 DEF Copy
  <2>2. SamePlaces(cp, cp') /\ fs[cp'.src].kind # "none" /\ "enter" # "dir"
    BY <2>1 DEF SamePlaces, EntriesIn
  <2>3. FramesExact(fs, cp', frames', "enter")
    BY <1>1, <1>2, <1>3, <1>7, <2>1, <2>2, FramesEntry
  <2>4. Exact(fs', cp', frames', pc')
    BY <1>1, <1>7, <2>2, <2>3, Places DEF Exact, FramesExact
  <2>5. pc' \in ItemPcs
    BY <1>7, Places
  <2> QED BY <1>4, <2>1, <2>4, <2>5 DEF Copies
<1> QED BY <1>5, <1>6, <1>7, EntrySteps

(* An item that does not change what the files hold.                       *)
LEMMA QuietCopies ==
    ASSUME Copies, pc \in ItemPcs, cp' = cp, own' = own,
           \A p \in Paths : /\ fs'[p].kind = fs[p].kind
                            /\ fs[p].kind = "file" => fs'[p].data = fs[p].data,
           Exact(fs', cp', frames', pc')
    PROVE  Copies'
<1>1. \A p \in Paths : fs'[p].kind # "none" => p \in own \/ fs[p].kind # "none"
    OBVIOUS
<1>2. OnlyOwn(fs', cp', pc', own')
    BY <1>1, OnlyOwnStays DEF Copies
<1>3. \A q \in Paths : fs[q].kind = "file" /\ (pc \in ItemPcs => q \notin own) =>
          fs'[q].kind = "file" /\ fs'[q].data = fs[q].data /\ (pc' \in ItemPcs => q \notin own)
    OBVIOUS
<1>4. Kept(fs', pc', own')
    BY <1>3, KeptStays DEF Copies
<1> QED BY <1>2, <1>4 DEF Copies

(* A folder is finished: its copy is whole.                                *)
LEMMA DirectoryDoneCopies ==
    ASSUME Shape, Chained(cp, frames, pc), Copies, DirectoryDone
    PROVE  Copies'
<1>1. /\ pc = "dir" /\ frames' = Front(frames) /\ cp' = cp /\ own' = own
      /\ pc' = IF frames' = <<>> THEN "copied" ELSE "dir"
      /\ pc \in ItemPcs /\ pc \in ItemPcs \ {"failed", "iofail"}
    BY Places DEF DirectoryDone, Return, Goto
<1>2. FramesExact(fs, cp, frames, "dir")
    BY <1>1, ExactFrames DEF Copies
<1>3. /\ Touched(fs, fs', cp, top.src) /\ TreeCopied(fs', cp, top.src)
      /\ \A p \in Paths : /\ fs'[p].kind = fs[p].kind
                          /\ fs[p].kind = "file" => fs'[p].data = fs[p].data
    BY <1>2, FolderCopied
<1> DEFINE N == Len(frames) - 1
<1>4. /\ frames \in Seq(Frame) /\ Len(frames) \in Nat /\ Len(frames) > 0
      /\ top = frames[Len(frames)] /\ (Len(frames) = 1 => top.src = cp.isrc)
    BY <1>1, InFolder
<1>5. N \in Nat /\ N < Len(frames) /\ N <= Len(frames)
    BY <1>4
<1>6. StackOK(fs, cp, frames, "dir")
    BY <1>1 DEF Shape
<1>7. Len(frames') = N /\ \A k \in 1..N : frames'[k] = frames[k]
    BY <1>1, <1>6, StackPop
<1>8. N > 0 => top.src = Current(frames, cp, N)
    BY <1>4 DEF Current
<1>9. \A k \in 1..N : IsPrefix(Current(frames, cp, k), top.src)
  <2>1. ASSUME NEW k \in 1..N PROVE IsPrefix(Current(frames, cp, k), top.src)
    <3>1. k \in 1..Len(frames) /\ k < Len(frames)
      BY <1>4
    <3>2. IsPrefix(Current(frames, cp, k), frames[Len(frames)].src)
      BY <1>1, <1>6, <3>1, CurrentAbove
    <3> QED BY <1>4, <3>2
  <2> QED BY <2>1
<1> HIDE DEF N
<1>10. FramesExact(fs', cp, frames', "dir")
    BY <1>1, <1>2, <1>3, <1>5, <1>6, <1>7, <1>8, <1>9, FramesDone
<1>11. Exact(fs', cp', frames', pc')
  <2>1. CASE frames' = <<>>
    <3>1. top.src = cp.isrc
      BY <1>4, <1>7, <2>1 DEF N
    <3>2. pc' = "copied" /\ "copied" \notin FilePcs /\ Len(frames') = 0
      BY <1>1, <2>1, Places
    <3> QED BY <1>1, <1>3, <3>1, <3>2 DEF Exact
  <2>2. CASE frames' # <<>>
    <3>1. pc' = "dir" /\ "dir" \notin FilePcs
      BY <1>1, <2>2, Places
    <3> QED BY <1>1, <1>10, <3>1 DEF Exact, FramesExact
  <2> QED BY <2>1, <2>2
<1> QED BY <1>1, <1>3, <1>11, QuietCopies

(* A file is finished: its copy is whole.                                  *)
LEMMA FileDoneCopies ==
    ASSUME Shape, Chained(cp, frames, pc), Copies, FileDone
    PROVE  Copies'
<1>1. /\ pc = "filedone" /\ frames' = frames /\ cp' = cp /\ own' = own
      /\ pc' = IF frames = <<>> THEN "copied" ELSE "dir"
      /\ pc \in ItemPcs /\ pc \in ItemPcs \ {"failed", "iofail"}
      /\ pc \in FilePcs /\ Entering(pc)
    BY Places DEF FileDone, Return, Goto, Entering
<1>2. FramesExact(fs, cp, frames, pc) /\ FileExact(fs, cp, pc)
    BY <1>1, ExactFrames DEF Copies
<1>3. /\ Touched(fs, fs', cp, cp.src) /\ TreeCopied(fs', cp, cp.src)
      /\ \A p \in Paths : /\ fs'[p].kind = fs[p].kind
                          /\ fs[p].kind = "file" => fs'[p].data = fs[p].data
    BY <1>1, <1>2, FileCopied
<1>4. /\ Len(frames) \in Nat /\ At(cp, cp.src, cp.dest, Len(frames))
      /\ {cp.isrc, cp.idest} \subseteq Paths
    BY <1>1, InEnter
<1>5. StackOK(fs, cp, frames, pc)
    BY DEF Shape
<1>6. Len(frames) > 0 => cp.src = Current(frames, cp, Len(frames))
    BY <1>4 DEF Current
<1>7. \A k \in 1..Len(frames) : IsPrefix(Current(frames, cp, k), cp.src)
    BY <1>1, <1>5, CurrentAbove
<1>8. FramesExact(fs', cp, frames', "dir")
    BY <1>1, <1>2, <1>3, <1>4, <1>5, <1>6, <1>7, FramesDone
<1>9. Exact(fs', cp', frames', pc')
  <2>1. CASE frames = <<>>
    <3>1. cp.src = cp.isrc
      <4>1. At(cp, cp.src, cp.dest, 0)
        BY <1>4, <2>1
      <4> QED BY <1>4, <4>1, AtOK
    <3>2. pc' = "copied" /\ "copied" \notin FilePcs /\ Len(frames') = 0
      BY <1>1, <2>1, Places
    <3> QED BY <1>1, <1>3, <3>1, <3>2 DEF Exact
  <2>2. CASE frames # <<>>
    <3>1. pc' = "dir" /\ "dir" \notin FilePcs
      BY <1>1, <2>2, Places
    <3> QED BY <1>1, <1>8, <3>1 DEF Exact, FramesExact
  <2> QED BY <2>1, <2>2
<1> QED BY <1>1, <1>3, <1>9, QuietCopies

(* A new item: nothing is where its copy goes.                             *)
LEMMA NextItemCopies ==
    ASSUME Shape, JobsOK(jobs, pc, report), Copies, NextItem
    PROVE  Copies'
<1>1. /\ pc = "items" /\ fs' = fs /\ frames' = frames /\ own' = {} /\ pc \notin ItemPcs
    BY NextItemSteps, Places
<1>2. Kept(fs', pc', own')
    BY <1>1, KeptStays DEF Copies
<1>3. CASE pc' \in {"items", "end"}
  <2>1. pc' \notin ItemPcs
    BY <1>3, Places
  <2> QED BY <1>2, <2>1, CopiesIdle
<1>4. ASSUME pc' = "enter", NEW s, NEW t, ItemStarts(s, t)
      PROVE  Copies'
  <2>1. /\ cp'.src = s /\ cp'.idest = t /\ \A p \in Paths : IsPrefix(t, p) => fs[p].kind = "none"
    BY <1>4, StartsOK DEF Shape
  <2>2. OnlyOwn(fs', cp', pc', own')
    BY <1>1, <2>1 DEF OnlyOwn
  <2>3. frames' = <<>> /\ fs[s].kind # "none"
    BY <1>1, <1>4 DEF Shape, StackOK, ItemStarts
  <2>4. Exact(fs', cp', frames', pc')
    BY <1>1, <1>4, <2>1, <2>3, Places DEF Exact
  <2> QED BY <1>2, <2>2, <2>4 DEF Copies
<1> QED BY <1>3, <1>4, NextItemSteps

(* A failed item is taken away: every content is somewhere else.           *)
LEMMA ItemFailedCopies ==
    ASSUME Shape, Copies, ItemFailed
    PROVE  Copies'
<1>1. pc = "failed" /\ pc' \in {"items", "end"} /\ own' = own
      /\ (fs' = fs \/ fs' = Without(cp.idest))
    BY DEF ItemFailed, Goto
<1>2. pc \in ItemPcs /\ pc' \notin ItemPcs
    BY <1>1, Places
<1>3. \A q \in Paths : fs[q].kind = "file" /\ (pc \in ItemPcs => q \notin own) =>
          fs'[q].kind = "file" /\ fs'[q].data = fs[q].data /\ (pc' \in ItemPcs => q \notin own')
  <2> SUFFICES ASSUME NEW q \in Paths, fs[q].kind = "file", q \notin own
               PROVE  fs'[q].kind = "file" /\ fs'[q].data = fs[q].data
    BY <1>2
  <2>1. ~IsPrefix(cp.idest, q)
    BY <1>2 DEF Copies, OnlyOwn
  <2>2. Without(cp.idest)[q] = fs[q]
    BY <2>1 DEF Without
  <2> QED BY <1>1, <2>2
<1>4. Kept(fs', pc', own')
    BY <1>3, KeptStays DEF Copies
<1> QED BY <1>2, <1>4, CopiesIdle

(* A copied item may be taken away: its contents are in the copy.          *)
LEMMA ItemCopiedCopies ==
    ASSUME Shape, Copies, ItemCopied
    PROVE  Copies'
<1>1. pc = "copied" /\ pc' = "items" /\ own' = own
      /\ (fs' = fs \/ fs' = Without(cp.isrc))
    BY DEF ItemCopied, Goto
<1>2. pc \in ItemPcs /\ pc' \notin ItemPcs /\ pc \in ItemPcs \ {"failed", "iofail"}
    BY <1>1, Places
<1>3. CASE fs' = fs
  <2>1. Kept(fs, pc', own')
    BY <1>2, KeptStays DEF Copies
  <2> QED BY <1>2, <1>3, <2>1, CopiesIdle
<1>4. CASE fs' = Without(cp.isrc)
  <2>1. Apart(cp) /\ TreeCopied(fs, cp, cp.isrc)
    BY <1>1, <1>2, ExactFrames DEF Copies, Shape, StackOK, Apart
  <2>2. ASSUME NEW q \in Paths, fs[q].kind = "file"
        PROVE  \E r \in Paths : fs'[r].kind = "file" /\ fs'[r].data = fs[q].data
    <3>1. CASE ~IsPrefix(cp.isrc, q)
      <4>1. fs'[q] = fs[q]
        BY <1>4, <3>1 DEF Without
      <4> QED BY <2>2, <4>1
    <3>2. CASE IsPrefix(cp.isrc, q)
      <4>1. Below(cp, q)
        BY <3>2 DEF Below
      <4>2. RebasedAt(cp, q) \in Paths /\ fs[RebasedAt(cp, q)] = fs[q]
        BY <2>1, <2>2, <3>2 DEF TreeCopied
      <4>3. ~IsPrefix(cp.isrc, RebasedAt(cp, q))
        BY <2>1, <4>1, NoMeeting
      <4>4. fs'[RebasedAt(cp, q)] = fs[q]
        BY <1>4, <4>2, <4>3 DEF Without
      <4> QED BY <2>2, <4>2, <4>4
    <3> QED BY <3>1, <3>2
  <2>3. Kept(fs', pc', own')
    <3> SUFFICES ASSUME NEW p \in Paths, Disk0[p].kind = "file"
                 PROVE  \E r \in Paths : fs'[r].kind = "file" /\ fs'[r].data = Disk0[p].data
      BY <1>2 DEF Kept
    <3>1. PICK q \in Paths : fs[q].kind = "file" /\ fs[q].data = Disk0[p].data
      BY DEF Copies, Kept
    <3> QED BY <2>2, <3>1
  <2> QED BY <1>2, <2>3, CopiesIdle
<1> QED BY <1>1, <1>3, <1>4

(* Between items, and for what users do, nothing of a copy changes.        *)
LEMMA IdleCopies ==
    ASSUME Copies, fs' = fs, own' = own,
           \/ pc \notin ItemPcs /\ pc' \notin ItemPcs
           \/ pc' = pc /\ cp' = cp /\ frames' = frames
    PROVE  Copies'
<1>1. CASE pc \notin ItemPcs /\ pc' \notin ItemPcs
  <2>1. Kept(fs, pc', own)
    BY <1>1, KeptStays DEF Copies
  <2> QED BY <1>1, <2>1, CopiesIdle
<1>2. CASE pc' = pc /\ cp' = cp /\ frames' = frames
    BY <1>2 DEF Copies
<1> QED BY <1>1, <1>2

(* The files stay undisturbed only if they were.                           *)
LEMMA NextUndisturbed ==
    ASSUME others \in Nat, [Next]_vars
    PROVE  /\ others' \in Nat
           /\ Undisturbed' => Undisturbed /\ ~OtherThreads
<1>1. CASE OtherThreads
  <2>1. others' = others + 1
    BY <1>1 DEF OtherThreads, OtherEdit, OtherCreate, Meddle
  <2> QED BY <2>1 DEF Undisturbed
<1>2. CASE ~OtherThreads
  <2>1. CASE Copier
    <3>1. others' = others
      BY <2>1 DEF Copier, Wake, TakeLock, NextJob, NextItem, ItemFailed, ItemCopied, EndJob,
                  EnterRefused, EnterDirectory, EnterFile, Enter, DirectoryEntry,
                  DirectoryDone, FileDone, Truncate, Sized, Read, Write, Wrote, Reread,
                  Compare, Compared, GiveUp, Quiet
    <3> QED BY <1>2, <3>1 DEF Undisturbed
  <2>2. CASE Users \/ UNCHANGED vars
    <3>1. others' = others
      BY <2>2 DEF Users, dwm_summon_filecopy, dwm_filecopy_add, fc_request_cancel, vars
    <3> QED BY <1>2, <3>1 DEF Undisturbed
  <2> QED BY <1>2, <2>1, <2>2 DEF Next
<1> QED BY <1>1, <1>2

(* Every step copies exactly.                                              *)
LEMMA NextCopies ==
    ASSUME Shape, JobsOK(jobs, pc, report), Chained(cp, frames, pc), Copies,
           [Next]_vars, ~OtherThreads
    PROVE  Copies'
<1>1. CASE FileStep
    BY <1>1, FileStepCopies
<1>2. CASE EnterRefused
  <2>1. pc = "enter" /\ pc' = "failed" /\ fs' = fs /\ own' = own /\ cp' = cp
    BY <1>2 DEF EnterRefused, Enter, Goto
  <2> QED BY <2>1, Places, FailedCopies
<1>3. CASE EnterDirectory \/ EnterFile \/ DirectoryEntry
    BY <1>3, EnterDirectoryCopies, EnterFileCopies, DirectoryEntryCopies
<1>4. CASE DirectoryDone \/ FileDone
    BY <1>4, DirectoryDoneCopies, FileDoneCopies
<1>5. CASE NextItem
    BY <1>5, NextItemCopies
<1>6. CASE ItemFailed \/ ItemCopied
    BY <1>6, ItemFailedCopies, ItemCopiedCopies
<1>7. CASE Wake \/ TakeLock \/ NextJob \/ EndJob
  <2>1. fs' = fs /\ own' = own
    BY <1>7 DEF Wake, TakeLock, NextJob, EndJob
  <2>2. /\ pc \in {"wait", "woken", "jobs", "end"}
        /\ pc' \in {"wait", "woken", "jobs", "items", "end"}
    BY <1>7 DEF Wake, TakeLock, NextJob, EndJob, Goto
  <2>3. pc \notin ItemPcs /\ pc' \notin ItemPcs
    BY <2>2, Places
  <2> QED BY <2>1, <2>3, IdleCopies
<1>8. CASE Users \/ UNCHANGED vars
  <2>1. fs' = fs /\ own' = own /\ pc' = pc /\ cp' = cp /\ frames' = frames
    BY <1>8 DEF Users, dwm_summon_filecopy, dwm_filecopy_add, fc_request_cancel, Outside, vars
  <2> QED BY <2>1, IdleCopies
<1> QED BY <1>1, <1>2, <1>3, <1>4, <1>5, <1>6, <1>7, <1>8 DEF Next, Copier, FileStep

-----------------------------------------------------------------------------
(***************************************************************************)
(* The invariant, and what follows from it.                                *)
(***************************************************************************)
(* The invariant in the parts the steps were looked at with.               *)
LEMMA InvParts ==
    CopyInv <=> /\ TypeOK /\ Shape /\ others \in Nat
                /\ JobsOK(jobs, pc, report) /\ Chained(cp, frames, pc)
                /\ Undisturbed => Copies
    BY DEF CopyInv, Shape, Copies, TypeOK

(* The copy thread is at one of its places.                                *)
LEMMA NextPlaces ==
    ASSUME TypeOK, [Next]_vars
    PROVE  /\ signaled' \in BOOLEAN
           /\ pc' \in Unlocked \cup {"jobs", "items", "enter", "dir", "filedone",
                                     "failed", "copied", "end"}
<1>1. CASE ItemStep
  <2>1. pc' \in ItemPcs /\ signaled' = signaled
    BY <1>1, ItemStepPlaces
  <2> QED BY <2>1, Places DEF TypeOK
<1>2. CASE Wake \/ TakeLock \/ NextJob \/ NextItem \/ ItemFailed \/ ItemCopied \/ EndJob
  <2>1. pc' \in {"woken", "jobs", "wait", "items", "end", "enter"} \/ pc' = pc
    BY <1>2 DEF Wake, TakeLock, NextJob, NextItem, ItemFailed, ItemCopied, EndJob, Goto
  <2>2. signaled' \in {signaled, FALSE}
    BY <1>2 DEF Wake, TakeLock, NextJob, NextItem, ItemFailed, ItemCopied, EndJob
  <2> QED BY <2>1, <2>2 DEF TypeOK, Unlocked
<1>3. CASE Users \/ OtherThreads \/ UNCHANGED vars
  <2>1. pc' = pc /\ signaled' \in {signaled, TRUE}
    BY <1>3 DEF Users, dwm_summon_filecopy, dwm_filecopy_add, fc_request_cancel, OtherThreads,
                OtherEdit, OtherCreate, Meddle, Outside, Signal, vars
  <2> QED BY <2>1 DEF TypeOK
<1> QED BY <1>1, <1>2, <1>3 DEF Next, Copier, ItemStep

(* The invariant holds at the start,                                       *)
LEMMA InitInv == Init => CopyInv
<1> SUFFICES ASSUME Init PROVE CopyInv
    OBVIOUS
<1>1. Shape /\ JobsOK(jobs, pc, report)
    BY InitShape
<1>2. /\ fs = Disk0 /\ signaled = FALSE /\ pc = "wait" /\ frames = <<>> /\ others = 0
      /\ pc \notin ItemPcs
    BY Places DEF Init
<1>3. TypeOK
    BY <1>1, <1>2 DEF TypeOK, Shape, Unlocked
<1>4. Chained(cp, frames, pc)
    BY <1>2 DEF Chained
<1>5. Copies
    BY <1>2 DEF Copies, OnlyOwn, Exact, Kept
<1> QED BY <1>1, <1>2, <1>3, <1>4, <1>5, InvParts

(* ... and after every step.                                               *)
LEMMA NextInv == CopyInv /\ [Next]_vars => CopyInv'
<1> SUFFICES ASSUME CopyInv, [Next]_vars PROVE CopyInv'
    OBVIOUS
<1>1. /\ TypeOK /\ Shape /\ others \in Nat
      /\ JobsOK(jobs, pc, report) /\ Chained(cp, frames, pc) /\ (Undisturbed => Copies)
    BY InvParts
<1>2. Shape'
    BY <1>1, NextShape
<1>3. JobsOK(jobs', pc', report')
    BY <1>1, NextJobs
<1>4. Chained(cp', frames', pc')
    BY <1>1, <1>2, NextChained
<1>5. others' \in Nat /\ (Undisturbed' => Undisturbed /\ ~OtherThreads)
    BY <1>1, NextUndisturbed
<1>6. Undisturbed' => Copies'
    BY <1>1, <1>5, NextCopies
<1>7. TypeOK'
  <2>1. fs' \in [Paths -> Entry] /\ own' \subseteq Paths /\ Len(frames') <= FC_MAX_DEPTH
    BY <1>2 DEF Shape
  <2>2. pc' \notin {"wait", "woken", "jobs"} => jobs' # <<>>
    BY <1>3 DEF JobsOK
  <2>3. /\ signaled' \in BOOLEAN
        /\ pc' \in Unlocked \cup {"jobs", "items", "enter", "dir", "filedone",
                                  "failed", "copied", "end"}
    BY <1>1, NextPlaces
  <2> QED BY <2>1, <2>2, <2>3 DEF TypeOK
<1>8. /\ TypeOK' /\ Shape' /\ others' \in Nat
      /\ JobsOK(jobs', pc', report') /\ Chained(cp', frames', pc')
      /\ Undisturbed' => Copies'
    BY <1>2, <1>3, <1>4, <1>5, <1>6, <1>7
<1> QED BY <1>8 DEF CopyInv, Shape, Copies

(* The copy is where CopyIsExact looks for it.                             *)
LEMMA InvSound == CopyInv => CopiesAreSound
<1> SUFFICES ASSUME CopyInv PROVE CopiesAreSound
    OBVIOUS
<1>1. CopyIsExact
  <2> SUFFICES ASSUME Undisturbed, pc = "copied", NEW p \in Paths,
                      IsPrefix(cp.isrc, p), fs[p].kind # "none"
               PROVE  Rebased(p) \in Paths /\ fs[Rebased(p)] = fs[p]
    BY DEF CopyIsExact, fc_path_is_within, vfs_exists
  <2>1. TreeCopied(fs, cp, cp.isrc)
    <3>1. pc \in ItemPcs \ {"failed", "iofail"}
      BY Places
    <3> QED BY <3>1 DEF CopyInv, Exact
  <2>2. Rebased(p) = RebasedAt(cp, p)
    BY DEF Rebased, RebasedAt, Rebase
  <2> QED BY <2>1, <2>2 DEF TreeCopied
<1>2. CancelIsFinal
  <2> SUFFICES ASSUME pc \in {"filedone", "copied"} PROVE ~job.cancel
    BY DEF CancelIsFinal
  <2>1. jobs # <<>>
    BY DEF CopyInv, TypeOK
  <2>2. job = jobs[1] /\ JobOK(jobs[1], pc)
    BY <2>1, JobsHeadOK DEF CopyInv, job
  <2> QED BY <2>2 DEF JobOK
<1>3. ItemsAccounted
    BY DEF CopyInv, JobsOK, ItemsAccounted
<1> QED BY <1>1, <1>2, <1>3 DEF CopyInv, CopiesAreSound

(* What is removed after a failure is the copier's own.                    *)
LEMMA InvOurs == CopyInv => CleanupIsOurs
<1>1. pc = "failed" => pc \in ItemPcs
    BY Places
<1> QED BY <1>1 DEF CopyInv, CleanupIsOurs, OnlyOwn, fc_path_is_within, vfs_exists

(* Every content is on the disk.                                           *)
LEMMA InvKept == CopyInv => NothingLost
    BY DEF CopyInv, NothingLost, Kept

(* What a step does with an item that failed.                              *)
LEMMA FailedIsRemoved ==
    ASSUME CopyInv, [Next]_vars, pc = "failed", FolderWritable(cp.idest), vars' # vars
    PROVE  \A p \in own : fs'[p].kind = "none"
<1>1. /\ pc \in ItemPcs /\ pc \notin Unlocked /\ pc \notin FilePcs
      /\ pc \notin {"wait", "woken", "jobs", "items", "enter", "dir", "filedone", "copied", "end"}
    BY Places
<1>2. Shape
    BY InvParts
<1>3. ~FileStep /\ ~ItemStep
  <2>1. ASSUME FileStep PROVE FALSE
    <3>1. pc \in FilePcs
      BY <1>2, <2>1, FileSteps
    <3> QED BY <1>1, <3>1
  <2>2. ASSUME ItemStep PROVE FALSE
    <3>1. CASE EnterRefused \/ EnterDirectory \/ EnterFile
      <4>1. pc = "enter"
        BY <3>1 DEF EnterRefused, EnterDirectory, EnterFile, Enter
      <4> QED BY <1>1, <4>1
    <3>2. CASE DirectoryEntry \/ DirectoryDone \/ FileDone
      <4>1. pc \in {"dir", "filedone"}
        BY <3>2 DEF DirectoryEntry, DirectoryDone, FileDone
      <4> QED BY <1>1, <4>1
    <3> QED BY <2>1, <2>2, <3>1, <3>2 DEF ItemStep, FileStep
  <2> QED BY <2>1, <2>2
<1>4. ~Users /\ ~OtherThreads
    BY <1>1 DEF Users, dwm_summon_filecopy, dwm_filecopy_add, fc_request_cancel, OtherThreads,
                OtherEdit, OtherCreate, Meddle, Outside
<1>5. ~(Wake \/ TakeLock \/ NextJob \/ NextItem \/ ItemCopied \/ EndJob)
    BY <1>1 DEF Wake, TakeLock, NextJob, NextItem, ItemCopied, EndJob
<1>6. ItemFailed
    BY <1>3, <1>4, <1>5 DEF Next, Copier, FileStep, ItemStep, vars
<1> SUFFICES ASSUME NEW p \in own PROVE fs'[p].kind = "none"
    OBVIOUS
<1>7. /\ p \in Paths /\ cp.idest \in Paths /\ IsPrefix(cp.idest, p)
      /\ fs[cp.idest].kind # "none" /\ fs[cp.idest].rw
  <2>1. own # {} /\ pc # "copied"
    BY <1>1
  <2> QED BY <1>1, <1>2, <2>1 DEF Shape, OwnOK, StackOK
<1>8. fs' = Without(cp.idest)
    BY <1>6, <1>7 DEF ItemFailed, Removable, vfs_exists
<1> QED BY <1>7, <1>8 DEF Without, None

(* What a move takes away.                                                 *)
MoveIsSafe ==
    [][Undisturbed /\ pc = "copied" =>
         \A p \in Paths : fs[p].kind = "file" /\ fs'[p].kind = "none" =>
            Rebased(p) \in Paths /\ fs'[Rebased(p)] = fs[p]]_vars

(* What a move takes away is whole in its copy.                            *)
LEMMA MovedIsCopied ==
    ASSUME CopyInv, [Next]_vars, Undisturbed, pc = "copied", vars' # vars,
           NEW p \in Paths, fs[p].kind = "file", fs'[p].kind = "none"
    PROVE  Rebased(p) \in Paths /\ fs'[Rebased(p)] = fs[p]
<1>1. /\ pc \in ItemPcs /\ pc \notin Unlocked /\ pc \notin FilePcs
      /\ pc \notin {"wait", "woken", "jobs", "items", "enter", "dir", "filedone", "failed", "end"}
      /\ pc \in ItemPcs \ {"failed", "iofail"}
    BY Places
<1>2. Shape /\ Copies
    BY InvParts
<1>3. ~FileStep /\ ~ItemStep
  <2>1. ASSUME FileStep PROVE FALSE
    <3>1. pc \in FilePcs
      BY <1>2, <2>1, FileSteps
    <3> QED BY <1>1, <3>1
  <2>2. ASSUME ItemStep PROVE FALSE
    <3>1. CASE EnterRefused \/ EnterDirectory \/ EnterFile
      <4>1. pc = "enter"
        BY <3>1 DEF EnterRefused, EnterDirectory, EnterFile, Enter
      <4> QED BY <1>1, <4>1
    <3>2. CASE DirectoryEntry \/ DirectoryDone \/ FileDone
      <4>1. pc \in {"dir", "filedone"}
        BY <3>2 DEF DirectoryEntry, DirectoryDone, FileDone
      <4> QED BY <1>1, <4>1
    <3> QED BY <2>1, <2>2, <3>1, <3>2 DEF ItemStep, FileStep
  <2> QED BY <2>1, <2>2
<1>4. ~Users /\ ~OtherThreads
    BY <1>1 DEF Users, dwm_summon_filecopy, dwm_filecopy_add, fc_request_cancel, OtherThreads,
                OtherEdit, OtherCreate, Meddle, Outside
<1>5. ~(Wake \/ TakeLock \/ NextJob \/ NextItem \/ ItemFailed \/ EndJob)
    BY <1>1 DEF Wake, TakeLock, NextJob, NextItem, ItemFailed, EndJob
<1>6. ItemCopied
    BY <1>3, <1>4, <1>5 DEF Next, Copier, FileStep, ItemStep, vars
<1>7. fs' = Without(cp.isrc) /\ IsPrefix(cp.isrc, p)
  <2>1. fs' # fs
    OBVIOUS
  <2>2. fs' = Without(cp.isrc)
    BY <1>6, <2>1 DEF ItemCopied
  <2> QED BY <2>2 DEF Without
<1>8. Apart(cp) /\ TreeCopied(fs, cp, cp.isrc) /\ Below(cp, p)
    BY <1>1, <1>2, <1>7, ExactFrames DEF Copies, Shape, StackOK, Apart, Below
<1>9. RebasedAt(cp, p) \in Paths /\ fs[RebasedAt(cp, p)] = fs[p]
    BY <1>7, <1>8 DEF TreeCopied
<1>10. ~IsPrefix(cp.isrc, RebasedAt(cp, p))
    BY <1>8, NoMeeting
<1>11. fs'[RebasedAt(cp, p)] = fs[p]
    BY <1>7, <1>9, <1>10 DEF Without
<1>12. Rebased(p) = RebasedAt(cp, p)
    BY DEF Rebased, RebasedAt, Rebase
<1> QED BY <1>9, <1>11, <1>12

-----------------------------------------------------------------------------
(* The copy thread of dwm/windows/filecopy.c, whatever the disk does, keeps *)
(* its locals, its stack and the disk in order; while no other thread      *)
(* touches the files it has copied exactly what it says.                   *)
THEOREM FileCopyInvariant == Spec => []CopyInv
<1> QED BY InitInv, NextInv, PTL DEF Spec

(* What fc_run_item counts as copied is the whole tree, contents and       *)
(* permissions; Cancel is final and every item of a job is in its result.  *)
THEOREM FileCopiesAreSound == Spec => []CopiesAreSound
<1> QED BY FileCopyInvariant, InvSound, PTL

(* What fc_run_item removes after a failed fc_copy_any is what it created. *)
THEOREM FileCleanupIsOurs == Spec => []CleanupIsOurs
<1> QED BY FileCopyInvariant, InvOurs, PTL

(* No content that was on the disk is lost by copies, moves, failures and  *)
(* cancels of dwm/windows/filecopy.c.                                      *)
THEOREM FileNothingLost == Spec => []NothingLost
<1> QED BY FileCopyInvariant, InvKept, PTL

(* After a failed fc_copy_any in a writable folder vfs_remove leaves       *)
(* nothing of the copy.                                                    *)
THEOREM FileCleanFailure == Spec => CleanFailure
<1>1. CopyInv /\ [Next]_vars =>
        [pc = "failed" /\ FolderWritable(cp.idest) => \A p \in own : fs'[p].kind = "none"]_vars
  <2> SUFFICES ASSUME CopyInv, [Next]_vars, pc = "failed", FolderWritable(cp.idest), vars' # vars
               PROVE  \A p \in own : fs'[p].kind = "none"
    OBVIOUS
  <2> QED BY FailedIsRemoved
<1> QED BY <1>1, FileCopyInvariant, PTL DEF Spec, CleanFailure

(* A move of fc_run_item that no other thread disturbs deletes only what   *)
(* is whole at its destination: MoveDeletesCopied fails by a race only.    *)
THEOREM FileMoveIsSafe == Spec => MoveIsSafe
<1>1. CopyInv /\ [Next]_vars =>
        [Undisturbed /\ pc = "copied" =>
            \A p \in Paths : fs[p].kind = "file" /\ fs'[p].kind = "none" =>
               Rebased(p) \in Paths /\ fs'[Rebased(p)] = fs[p]]_vars
  <2> SUFFICES ASSUME CopyInv, [Next]_vars, Undisturbed, pc = "copied", vars' # vars,
                      NEW p \in Paths, fs[p].kind = "file", fs'[p].kind = "none"
               PROVE  Rebased(p) \in Paths /\ fs'[Rebased(p)] = fs[p]
    OBVIOUS
  <2> QED BY MovedIsCopied
<1> QED BY <1>1, FileCopyInvariant, PTL DEF Spec, MoveIsSafe
=============================================================================
