------------------------------- MODULE BaseFS -------------------------------
(***************************************************************************)
(* The on-disk structures of BaseFS (fs/basefs): the block bitmap and      *)
(* first-fit allocator of device.c, the directories with their extents of  *)
(* directory.c and the files with their extents of file.c.                 *)
(*                                                                         *)
(* The VFS lock serialises the operations, so one runs at a time.  What an *)
(* operation does to the disk is a sequence of writes; the sector cache    *)
(* writes them back in program order, so a power loss keeps a prefix of    *)
(* them.  An operation therefore puts its writes in todo, WriteBack takes  *)
(* them to the disk one at a time, and PowerLoss drops the rest.           *)
(*                                                                         *)
(* An address is a block number; an object (header or extent) is written   *)
(* at once: it lies in one sector.  The size of a file counts blocks.      *)
(***************************************************************************)
EXTENDS Integers, Sequences, FiniteSets, SequencesExt, FiniteSetsExt

CONSTANTS
    block_count,        \* the blocks 1..block_count follow the reserved ones
    HeaderRefs,         \* entries of a directory header (24)
    ExtentRefs,         \* entries of a directory extent (12)
    ExtentLimit,        \* blocks of a file extent at most
    MaxSize,            \* bound: blocks of a file
    MaxOps,             \* bound: operations in a behaviour
    CrashIn,            \* the operations a power loss interrupts
    UseAfterLoss        \* whether the disk is used further after it

ASSUME BaseFSAssumption ==
    /\ {block_count, HeaderRefs, ExtentRefs, ExtentLimit} \subseteq Nat \ {0}
    /\ {MaxSize, MaxOps} \subseteq Nat
    /\ CrashIn \subseteq {"create", "mkdir", "resize", "delete"}
    /\ UseAfterLoss \in BOOLEAN

Blocks == 1..block_count

FS_NULL == 0

Root == 1

VARIABLES
    disk,       \* [bits, size, obj]: bitmap, allocation headers, contents
    todo,       \* writes of the running operation not on the disk yet
    op,         \* the running operation, or "idle"
    call,       \* its locals, where it has a loop
    outcome,    \* what the last operation returned
    lost,       \* a power loss has interrupted an operation
    count       \* bound used up

vars == <<disk, todo, op, call, outcome, lost, count>>

(* Objects.  Blocks never written hold zeros.                              *)
Zeros == [kind |-> "zeros", parent |-> 0, next |-> 0, prev |-> 0, refs |-> <<>>, len |-> 0]

Directory(parent) == [Zeros EXCEPT !.kind = "dir", !.parent = parent]

DirectoryExtent(prev) == [Zeros EXCEPT !.kind = "dext", !.prev = prev]

File == [Zeros EXCEPT !.kind = "file"]

FileExtent(prev, len) == [Zeros EXCEPT !.kind = "fext", !.prev = prev, !.len = len]

-----------------------------------------------------------------------------
(***************************************************************************)
(* Writes: to the bitmap, an allocation header, or an object.              *)
(***************************************************************************)
Run(b, n) == b..(b + n - 1)

Take(b, n) == [to |-> "take", at |-> b, v |-> n]

Give(b, n) == [to |-> "give", at |-> b, v |-> n]

Size(b, n) == [to |-> "size", at |-> b, v |-> n]

Obj(b, o) == [to |-> "obj", at |-> b, v |-> o]

(* Disk s after the write.                                                 *)
Written(s, w) ==
    CASE w.to = "take" -> [s EXCEPT !.bits = @ \cup Run(w.at, w.v)]
      [] w.to = "give" -> [s EXCEPT !.bits = @ \ Run(w.at, w.v)]
      [] w.to = "size" -> [s EXCEPT !.size[w.at] = w.v]
      [] w.to = "obj"  -> [s EXCEPT !.obj[w.at] = w.v]

-----------------------------------------------------------------------------
(***************************************************************************)
(* device.c: the allocator.                                                *)
(***************************************************************************)
FreeStart(b, n, taken) ==  \* variant: looks at the first block only
    Run(b, n) \subseteq Blocks /\ b \notin disk.bits \cup taken

Free(b, n, taken) == Run(b, n) \subseteq Blocks /\ Run(b, n) \cap (disk.bits \cup taken) = {}

(* The start of the first free run of n blocks, or FS_NULL; taken is what  *)
(* this operation allocated already.                                       *)
FirstFit(n, taken) ==
    LET starts == {b \in Blocks : Free(b, n, taken)}
    IN  IF starts = {} THEN FS_NULL ELSE CHOOSE b \in starts : \A c \in starts : b <= c

fs_alloc(b, n) == <<Take(b, n), Size(b, n)>>

FreedFirst(b) == <<Size(b, 0), Give(b, 1)>>  \* variant: forgets the length

fs_free(b) == <<Size(b, 0), Give(b, disk.size[b])>>

FreeAll(bs) == FlattenSeq([i \in DOMAIN bs |-> fs_free(bs[i])])

(* An address that an allocation header precedes.                          *)
Live(b) == b \in Blocks /\ disk.size[b] > 0

(* A header and its extents, in order: from[k][c] follows k links from c.  *)
Parts(b) ==
    LET from[k \in 0..block_count] ==
            [c \in Blocks |-> IF k > 0 /\ Live(disk.obj[c].next)
                              THEN <<c>> \o from[k - 1][disk.obj[c].next] ELSE <<c>>]
    IN  from[block_count][b]

Chain(b) == Tail(Parts(b))

-----------------------------------------------------------------------------
(***************************************************************************)
(* directory.c                                                             *)
(***************************************************************************)
IsDirectory(b) == Live(b) /\ disk.obj[b].kind = "dir"

(* A header of zeros passes for a file; what an extent left there does     *)
(* not pass for anything.                                                  *)
fs_file_check(b) == Live(b) /\ disk.obj[b].kind \in {"file", "zeros"}

MaxRefs(p) == IF disk.obj[p].kind = "dir" THEN HeaderRefs ELSE ExtentRefs

(* The references of the header and the extents of d.                      *)
Entries(d) ==
    LET parts == Parts(d) IN FlattenSeq([i \in DOMAIN parts |-> disk.obj[parts[i]].refs])

(* fs_directory_extent_create, the link to it, and its first entry.        *)
AddExtent(p, r, e) ==
    fs_alloc(e, 1) \o
    <<Obj(e, DirectoryExtent(p)), Obj(p, [disk.obj[p] EXCEPT !.next = e]),
      Obj(e, [DirectoryExtent(p) EXCEPT !.refs = <<r>>])>>

HasRoom(p) == Len(disk.obj[p].refs) < MaxRefs(p)

(* The first part with room, unless r is met before it, or a new extent at *)
(* the end.                                                                *)
fs_directory_add_reference(d, r) ==
    LET parts == Parts(d)
        holds(p) == Contains(disk.obj[p].refs, r)
        stops == {i \in DOMAIN parts : holds(parts[i]) \/ HasRoom(parts[i])}
        p     == parts[Min(stops)]
        e     == FirstFit(1, {r})
    IN  IF stops # {}
        THEN IF holds(p) THEN <<>>
             ELSE <<Obj(p, [disk.obj[p] EXCEPT !.refs = Append(@, r)])>>
        ELSE IF e = FS_NULL THEN <<>>
        ELSE AddExtent(Last(parts), r, e)

UnlinkedFromHeader(d, e) ==  \* variant: takes the extent for the first one
    <<Obj(d, [disk.obj[d] EXCEPT !.next = disk.obj[e].next])>>

(* fs_directory_extent_unlink_and_free up to the free.                     *)
Unlinked(d, e) ==
    LET o == disk.obj[e]
    IN  <<Obj(o.prev, [disk.obj[o.prev] EXCEPT !.next = o.next])>> \o
        (IF Live(o.next)
         THEN <<Obj(o.next, [disk.obj[o.next] EXCEPT !.prev = o.prev])>> ELSE <<>>)

(* The first occurrence goes.  An extent left empty is unlinked and freed; *)
(* its entry is cleared first.                                             *)
fs_directory_remove_reference(d, r) ==
    LET parts == Parts(d)
        holds == {i \in DOMAIN parts : Contains(disk.obj[parts[i]].refs, r)}
        p     == parts[Min(holds)]
        o     == disk.obj[p]
    IN  IF r = FS_NULL \/ holds = {} THEN <<>>
        ELSE IF p = d \/ Len(o.refs) > 1
             THEN <<Obj(p, [o EXCEPT !.refs = RemoveFirst(@, r)])>>
        ELSE <<Obj(p, [o EXCEPT !.refs = <<FS_NULL>>])>> \o Unlinked(d, p) \o fs_free(p)

CanRemove(d, r) == r # FS_NULL /\ Contains(Entries(d), r)

fs_directory_delete(d) == FreeAll(Append(Chain(d), d))

fs_file_delete(f) == FreeAll(Append(Chain(f), f))

-----------------------------------------------------------------------------
(***************************************************************************)
(* file.c: fs_file_resize to a smaller size.                               *)
(***************************************************************************)
(* Blocks of the first i extents of chain, for each i.                     *)
Capacity(chain) ==
    LET upto[i \in 0..Len(chain)] == IF i = 0 THEN 0 ELSE upto[i - 1] + disk.obj[chain[i]].len
    IN  upto

(* The extent in which the new size ends is cut, or unlinked when nothing  *)
(* of it stays; those after it are freed; the header is written last.      *)
Shrink(f, n) ==
    LET chain == Chain(f)
        upto  == Capacity(chain)
        over  == {i \in DOMAIN chain : upto[i] > n}
        k     == Min(over)
        keep  == n - upto[k - 1]
        cut   == IF keep > 0
                 THEN <<Obj(chain[k], [disk.obj[chain[k]] EXCEPT !.len = keep, !.next = FS_NULL])>>
                 ELSE IF k > 1
                 THEN <<Obj(chain[k - 1], [disk.obj[chain[k - 1]] EXCEPT !.next = FS_NULL])>>
                 ELSE <<>>
        gone  == SubSeq(chain, IF keep > 0 THEN k + 1 ELSE k, Len(chain))
        head  == [disk.obj[f] EXCEPT !.len = n,
                                     !.next = IF k = 1 /\ keep = 0 THEN FS_NULL ELSE @]
    IN  IF over = {} THEN <<Obj(f, [disk.obj[f] EXCEPT !.len = n])>>
        ELSE cut \o FreeAll(gone) \o <<Obj(f, head)>>

-----------------------------------------------------------------------------
(***************************************************************************)
(* The tree a lookup from the root sees.                                   *)
(***************************************************************************)
Subdirectories(d) == {e \in ToSet(Entries(d)) : IsDirectory(e)}

(* The directories at and below d.                                         *)
Below(d) ==
    LET upto[k \in 0..block_count] ==
            IF k = 0 THEN {d}
            ELSE UNION {{c} \cup Subdirectories(c) : c \in upto[k - 1]}
    IN  upto[block_count]

(* Directories and files at and below d, and all they consist of.          *)
Objects(d) ==
    UNION {{c} \cup {e \in ToSet(Entries(c)) : Live(e)} : c \in Below(d)}

PartsOf(d) == UNION {ToSet(Parts(o)) : o \in Objects(d)}

BlocksOf(d) == UNION {Run(p, disk.size[p]) : p \in PartsOf(d)}

-----------------------------------------------------------------------------
NoCall == [target |-> 0, current |-> 0, steps |-> 0, due |-> {}, tail |-> 0, first |-> 0, size |-> 0]

(* format: an empty root directory.                                        *)
Init ==
    /\ disk = [bits |-> {Root}, size |-> [b \in Blocks |-> IF b = Root THEN 1 ELSE 0],
               obj |-> [b \in Blocks |-> IF b = Root THEN Directory(FS_NULL) ELSE Zeros]]
    /\ todo = <<>>
    /\ op = "idle"
    /\ call = NoCall
    /\ outcome = "none"
    /\ lost = FALSE
    /\ count = 0

(* Operation o starts with writes ws and locals c, and will return r.      *)
Begin(o, ws, c, r) ==
    /\ op = "idle" /\ count < MaxOps
    /\ lost => UseAfterLoss
    /\ count' = count + 1
    /\ todo' = ws
    /\ op' = IF ws = <<>> /\ c.current = 0 THEN "idle" ELSE o
    /\ call' = c
    /\ outcome' = r
    /\ UNCHANGED <<disk, lost>>

(* fs_file_create and fs_directory_create: the entry before the header.    *)
Created(d, b, o) ==
    fs_alloc(b, 1) \o fs_directory_add_reference(d, b) \o <<Obj(b, o)>>

Create(kind, d, o) ==
    \E b \in {FirstFit(1, {})} :
        IF b = FS_NULL THEN Begin(kind, <<>>, NoCall, "failed")
        ELSE Begin(kind, Created(d, b, o), [NoCall EXCEPT !.target = b], "ok")

fs_file_create(d) == Create("create", d, File)

fs_directory_create(d) == Create("mkdir", d, Directory(d))

(* A link that leads to no extent: fs_file_resize gives up.                *)
Broken(f) == disk.obj[f].kind = "zeros" \/ disk.obj[Last(Parts(f))].next # FS_NULL

fs_file_resize(f, n) ==
    \/ /\ n < disk.obj[f].len
       /\ Begin("resize", Shrink(f, n), NoCall, "ok")
    \/ /\ n > disk.obj[f].len /\ Broken(f)
       /\ Begin("resize", <<>>, NoCall, "failed")
    \/ /\ n > disk.obj[f].len /\ ~Broken(f)
       /\ Begin("resize", <<>>,
                [NoCall EXCEPT !.target = f, !.current = f, !.steps = n - disk.obj[f].len,
                               !.tail = Last(Parts(f)), !.first = disk.obj[f].next, !.size = n],
                "ok")

DataFirst(d, f) == fs_file_delete(f) \o fs_directory_remove_reference(d, f)  \* variant: frees first

(* do_remove: the entry first, then what it named.                         *)
Removed(d, f) == fs_directory_remove_reference(d, f) \o fs_file_delete(f)

remove_file(d, f) ==
    Begin("delete", Removed(d, f), [NoCall EXCEPT !.target = f, !.due = BlocksOf(f)], "ok")

StepsAsBlocks == block_count  \* variant: as many steps as blocks

Steps == 4 * block_count

WalkFrom(x) ==
    [NoCall EXCEPT !.target = x, !.current = x, !.steps = Steps, !.due = BlocksOf(x)]

unlinked_last(d, x) == Begin("delete", <<>>, WalkFrom(x), "ok")  \* variant: stays linked

(* fs_directory_delete_recursive up to its loop.                           *)
remove_directory(d, x) ==
    Begin("delete", fs_directory_remove_reference(d, x), WalkFrom(x), "ok")

-----------------------------------------------------------------------------
(* One round of an operation's loop: writes ws, then on with locals c.     *)
Round(ws, c, r) ==
    /\ todo' = ws
    /\ call' = c
    /\ op' = IF ws = <<>> /\ c.current = 0 THEN "idle" ELSE op
    /\ outcome' = r
    /\ UNCHANGED <<disk, lost, count>>

Looping(o) == op = o /\ todo = <<>> /\ call.current # 0

(* The next extent: at most ExtentLimit of the blocks still needed, which  *)
(* steps counts, after tail.                                               *)
Chunk == IF call.steps > ExtentLimit THEN ExtentLimit ELSE call.steps

(* One extent e; the first of a file is linked by the header, written last.*)
Extend(e) ==
    Round(fs_alloc(e, Chunk) \o <<Obj(e, FileExtent(call.tail, Chunk))>> \o
          (IF call.tail = call.target THEN <<>>
           ELSE <<Obj(call.tail, [disk.obj[call.tail] EXCEPT !.next = e])>>),
          [call EXCEPT !.tail = e, !.steps = @ - Chunk,
                       !.first = IF call.tail = call.target THEN e ELSE @],
          "ok")

WaitForSpace ==  \* variant: tries again until there is space
    /\ Looping("resize") /\ call.steps > 0
    /\ \E e \in {FirstFit(Chunk, {})} \ {FS_NULL} : Extend(e)

(* fs_file_resize to a larger size.                                        *)
Grow ==
    /\ Looping("resize") /\ call.steps > 0
    /\ \E e \in {FirstFit(Chunk, {})} :
         \/ e = FS_NULL /\ Round(<<>>, [call EXCEPT !.current = 0], "failed")
         \/ e # FS_NULL /\ Extend(e)

Grown ==
    /\ Looping("resize") /\ call.steps = 0
    /\ Round(<<Obj(call.target, [disk.obj[call.target] EXCEPT !.len = call.size,
                                                           !.next = call.first])>>,
             [call EXCEPT !.current = 0], "ok")

-----------------------------------------------------------------------------
(* fs_directory_delete_recursive: a round ends with current = 0 when it    *)
(* returns r; out of steps it returns false.                               *)
Walk(ws, current, r) ==
    LET out == call.steps = 1 /\ current # 0
    IN  Round(ws, [call EXCEPT !.current = IF out THEN 0 ELSE current, !.steps = @ - 1],
              IF out THEN "failed" ELSE r)

(* Always the last entry of the current directory.                        *)
Walking == Looping("delete")

last == Last(Entries(call.current))

up == disk.obj[call.current].parent

Emptied == Entries(call.current) = <<>>

(* Only a directory whose parent field names this one is descended into.   *)
Owned(child) ==
    /\ child \notin {FS_NULL, call.target, call.current}
    /\ IsDirectory(child)
    /\ disk.obj[child].parent = call.current

WalkDone ==
    /\ Walking /\ Emptied /\ call.current = call.target
    /\ Walk(fs_directory_delete(call.current), 0, "ok")

WalkUp ==
    /\ Walking /\ Emptied /\ call.current # call.target
    /\ IF CanRemove(up, call.current)
       THEN Walk(fs_directory_remove_reference(up, call.current) \o
                 fs_directory_delete(call.current), up, "ok")
       ELSE Walk(<<>>, 0, "failed")

WalkDown == Walking /\ ~Emptied /\ Owned(last) /\ Walk(<<>>, last, "ok")

WalkUnlink ==
    /\ Walking /\ ~Emptied /\ ~Owned(last)
    /\ \/ ~CanRemove(call.current, last) /\ Walk(<<>>, 0, "failed")
       \/ /\ CanRemove(call.current, last)
          /\ Walk(IF fs_file_check(last) THEN Removed(call.current, last)
                  ELSE fs_directory_remove_reference(call.current, last), call.current, "ok")

(* The next write reaches the disk; the last one ends the operation.       *)
WriteBack ==
    /\ todo # <<>>
    /\ disk' = Written(disk, Head(todo))
    /\ todo' = Tail(todo)
    /\ op' = IF Len(todo) = 1 /\ call.current = 0 THEN "idle" ELSE op
    /\ UNCHANGED <<call, outcome, lost, count>>

(* The power fails; the device is mounted again.                           *)
PowerLoss ==
    /\ op \in CrashIn
    /\ todo' = <<>>
    /\ op' = "idle"
    /\ call' = NoCall
    /\ outcome' = "lost"
    /\ lost' = TRUE
    /\ UNCHANGED <<disk, count>>

Start ==
    \E d \in Below(Root) :
        \/ fs_file_create(d)
        \/ fs_directory_create(d)
        \/ \E e \in ToSet(Entries(d)) :
             \/ fs_file_check(e) /\ remove_file(d, e)
             \/ fs_file_check(e) /\ \E n \in 0..MaxSize : fs_file_resize(e, n)
             \/ IsDirectory(e) /\ e # Root /\ remove_directory(d, e)

(* The running operation, which the thread that called it carries on.      *)
Continue == WriteBack \/ Grow \/ Grown \/ WalkDone \/ WalkUp \/ WalkDown \/ WalkUnlink

Next == Start \/ Continue \/ PowerLoss

Spec == Init /\ [][Next]_vars

FairSpec == Spec /\ WF_vars(Continue)

-----------------------------------------------------------------------------
Object == [kind : {"zeros", "dir", "dext", "file", "fext"}, parent : 0..block_count,
           next : 0..block_count, prev : 0..block_count, refs : Seq(0..block_count),
           len : 0..MaxSize]

(* The contents of the disk are well formed: no part of a directory ever   *)
(* holds more entries than it has room for.                                *)
TypeOK ==
    /\ disk.bits \subseteq Blocks
    /\ disk.size \in [Blocks -> 0..block_count]
    /\ disk.obj \in [Blocks -> Object]
    /\ \A b \in Blocks : disk.obj[b].kind \in {"dir", "dext"} =>
                          Len(disk.obj[b].refs) <= MaxRefs(b)
    /\ call.current \in 0..block_count /\ call.steps \in 0..(Steps + MaxSize)

(* "An interrupted delete leaves orphaned blocks rather than a parent entry *)
(* pointing at freed storage": at every write of a delete, every entry a   *)
(* lookup finds names an allocated block.                                  *)
EntriesAreLive ==
    \A d \in Below(Root) : \A e \in ToSet(Entries(d)) \ {FS_NULL} :
        Live(e) /\ Run(e, disk.size[e]) \subseteq disk.bits

(* A file or directory whose header is still to be written is not there    *)
(* yet; everything else a lookup reaches is.                               *)
InMaking == IF op \in {"create", "mkdir"} THEN {call.target} ELSE {}

(* No block belongs to two things: the headers and extents a lookup        *)
(* reaches are allocated, do not overlap, and are each reached once.       *)
NoSharing ==
    LET objs  == Objects(Root) \ InMaking
        parts == UNION {ToSet(Parts(o)) : o \in objs}
    IN  /\ UNION {Run(p, disk.size[p]) : p \in parts} \subseteq disk.bits
        /\ \A p, q \in parts : p # q => Run(p, disk.size[p]) \cap Run(q, disk.size[q]) = {}
        /\ \A o \in objs : IsInjective(Parts(o))
        /\ \A o, u \in objs : o # u => ToSet(Parts(o)) \cap ToSet(Parts(u)) = {}

(* At every single write the tree on the disk is sound: all a lookup can   *)
(* reach is allocated, and nothing is reached twice.                       *)
TreeIsSound == TypeOK /\ EntriesAreLive /\ NoSharing

(* A finished delete has freed every block of the subtree.                 *)
DeleteFreesAll ==
    op = "idle" /\ outcome = "ok" => disk.bits \cap call.due = {}

(* On a tree the file system built, the recursive delete never runs out of *)
(* steps and never meets an entry it cannot unlink: without a power loss   *)
(* it always returns true.                                                 *)
DeleteSucceeds == ~lost /\ call.due # {} => outcome # "failed"

(* A recursive delete does its whole work: it does not give up on a sound  *)
(* tree, and when it says it is done no block of the subtree is left.      *)
DeleteCompletes == DeleteFreesAll /\ DeleteSucceeds

(* The walk "cannot escape the subtree or loop forever": every operation   *)
(* ends, on a disk that power losses have damaged too.                     *)
OperationsEnd == op # "idle" ~> op = "idle"

(* "The walk cannot escape the subtree": a recursive delete frees nothing  *)
(* that is part of what remains.                                           *)
DeleteStaysInside ==
    [][op = "delete" /\ call.steps > 0 =>
         \A p \in PartsOf(Root) : disk'.size[p] = disk.size[p]]_vars

Tree == INSTANCE FileTree WITH
    RootNode <- Root, Nothing <- FS_NULL,
    doomed <- IF op = "delete" /\ call.target \in Objects(Root) THEN call.target ELSE FS_NULL,
    tree <- [d \in Below(Root) \ InMaking |->
                ToSet(Entries(d)) \ ({FS_NULL} \cup InMaking)]

(* Creates, resizes and deletes, interrupted or not, change the tree by    *)
(* one entry at a time, and a delete removes only what it was asked to.    *)
ImplementsFileTree == Tree!Spec
=============================================================================
