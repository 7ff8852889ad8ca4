------------------------------ MODULE FileCopy ------------------------------
(***************************************************************************)
(* The file copy and move jobs of dwm/windows/filecopy.c.                  *)
(*                                                                         *)
(* Window procedures queue jobs, add items and request a cancel; one copy  *)
(* thread runs the jobs in order.  The copy thread holds kernel_big_lock   *)
(* except while it reserves space, reads, writes and compares, so other    *)
(* threads act exactly when pc is in Unlocked, and each of their actions   *)
(* is atomic (they hold the lock).                                         *)
(*                                                                         *)
(* A path is a sequence of numbers (a name each), a file a sequence of     *)
(* chunks (FILECOPY_CHUNK bytes); a directory lists its entries in the     *)
(* order of their numbers.  The file system is seen through vfs_*.         *)
(***************************************************************************)
EXTENDS Integers, Sequences, FiniteSets, SequencesExt

CONSTANTS
    Paths,          \* paths that fit FILECOPY_PATH_MAX
    Disk0,          \* the file system at the start
    Requests,       \* the [src, dest] pairs users ask for
    Modes,          \* the flags of a job: sets of "MOVE" and "RENAME"
    Chunks,         \* contents another thread writes
    MaxItems,       \* bound: items asked for in a behaviour
    FC_MAX_DEPTH, FC_MAX_ATTEMPTS,
    Faults,         \* disk and heap operations that may fail
    Others,         \* what other threads do to files: "edit", "create"
    MaxOthers       \* bound: how often they do it

FaultKinds == {"memory", "open", "space", "read", "write", "corrupt", "mkdir"}

VARIABLES
    fs,         \* path -> entry
    jobs,       \* fc_jobs, the head is running
    signaled,   \* fc_event
    pc,         \* where the copy thread is
    frames,     \* the fc_copy_directory calls on its stack, innermost last
    cp,         \* the locals of fc_copy_file and fc_run_item
    report,     \* the FileCopyResult given to the last done_callback
    own,        \* ghost: what the copier created for the current item
    others, asked   \* bounds used up

vars == <<fs, jobs, signaled, pc, frames, cp, report, own, others, asked>>

Unlocked == {"wait", "woken", "trunc", "sized", "read", "write", "wrote",
             "reread", "compare", "compared", "iofail"}

-----------------------------------------------------------------------------
(***************************************************************************)
(* The file system as the copier uses it.                                  *)
(***************************************************************************)
None == [kind |-> "none", data |-> <<>>, rw |-> TRUE]

Dir(rw) == [kind |-> "dir", data |-> <<>>, rw |-> rw]

File(d, rw) == [kind |-> "file", data |-> d, rw |-> rw]

Junk == "junk"      \* what reserved but unwritten space holds

Entry ==
    {None} \cup [kind : {"dir", "mount"}, data : {<<>>}, rw : BOOLEAN]
           \cup [kind : {"file"}, data : Seq(Chunks \cup {Junk}), rw : BOOLEAN]

(* Every item is in a folder, which is in a folder itself, up to the root. *)
IsTree(d) ==
    \A p \in Paths : d[p].kind # "none" =>
        \A n \in 1..(Len(p) - 1) : /\ SubSeq(p, 1, n) \in Paths
                                   /\ d[SubSeq(p, 1, n)].kind \in {"dir", "mount"}

ASSUME FileCopyAssumption ==
    /\ IsFiniteSet(Paths) /\ Paths \subseteq Seq(Nat) \ {<<>>}
    /\ Disk0 \in [Paths -> Entry] /\ IsTree(Disk0)
    /\ Requests \subseteq [src : Paths, dest : Paths]
    /\ Faults \subseteq FaultKinds /\ Others \subseteq {"edit", "create"}
    /\ {MaxItems, MaxOthers, FC_MAX_DEPTH} \subseteq Nat
    /\ FC_MAX_ATTEMPTS \in Nat \ {0}

vfs_exists(p) == p \in Paths /\ fs[p].kind # "none"

fc_parent(p) == Front(p)

fc_join(p, name) == Append(p, name)

fc_path_is_within(p, base) == IsPrefix(base, p)

(* The folder an item can be created in: the root of a device, a folder or *)
(* what is mounted there.                                                  *)
HasFolder(p) == Len(p) > 1 => /\ fc_parent(p) \in Paths
                              /\ fs[fc_parent(p)].kind \in {"dir", "mount"}

(* do_remove and do_mkdir want write permission on the folder; vfs_open    *)
(* with VFS_OPEN_CREATE does not.                                          *)
FolderWritable(p) == Len(p) > 1 => fs[fc_parent(p)].rw

Entries(p) == {q \in Paths : Len(q) = Len(p) + 1 /\ Front(q) = p /\ vfs_exists(q)}

Index(q) == Cardinality({r \in Entries(fc_parent(q)) : Last(r) < Last(q)})

vfs_directory_get_item_count(p) == Cardinality(Entries(p))

(* The entry with this index, if there is one.                             *)
vfs_directory_get_item(p, i) == {q \in Entries(p) : Index(q) = i}

(* vfs_remove refuses an item without write permission on it and on its    *)
(* folder, and takes a directory with everything below it.                 *)
Removable(p) ==
    vfs_exists(p) /\ fs[p].rw /\ FolderWritable(p)

Without(p) == [q \in Paths |-> IF IsPrefix(p, q) THEN None ELSE fs[q]]

(* fs_file_resize keeps what fits.                                         *)
Resized(d, n) == [i \in 1..n |-> IF i <= Len(d) THEN d[i] ELSE Junk]

(* fc_candidate_name: attempt n of a name.                                 *)
Candidate(p, n) == Append(Front(p), Last(p) + 10 * (n - 1))

(* dwm_path_unique: the first attempt that is free, or none.               *)
dwm_path_unique(p) ==
    LET free == {n \in 1..FC_MAX_ATTEMPTS : ~vfs_exists(Candidate(p, n))}
    IN  {Candidate(p, n) : n \in {m \in free : \A k \in free : m <= k}} \cap Paths

-----------------------------------------------------------------------------
NewJob(r, mode) ==
    [items |-> <<r>>, move |-> "MOVE" \in mode, rename |-> "RENAME" \in mode,
     cancel |-> FALSE, index |-> 0,
     copied |-> 0, failed |-> 0, skipped |-> 0, cancelled |-> FALSE]

NoReport == [items |-> 0, copied |-> 0, failed |-> 0, skipped |-> 0, cancelled |-> FALSE]

NoCopy == [src |-> <<>>, dest |-> <<>>, size |-> 0, off |-> 0, buf |-> Junk,
           isrc |-> <<>>, idest |-> <<>>]

Init ==
    /\ fs = Disk0
    /\ jobs = <<>>
    /\ signaled = FALSE
    /\ pc = "wait"
    /\ frames = <<>>
    /\ cp = NoCopy
    /\ report = NoReport
    /\ own = {}
    /\ others = 0
    /\ asked = 0

job == Head(jobs)

(* The running job with field f set to v.                                  *)
SetJob(f, v) == jobs' = [jobs EXCEPT ![1][f] = v]

Bump(f) == SetJob(f, job[f] + 1)

Goto(l) == pc' = l

CanFail(what) == what \in Faults

-----------------------------------------------------------------------------
(***************************************************************************)
(* The copy thread, big lock held: jobs and items.                         *)
(***************************************************************************)
(* fc_thread_main: event_wait(&fc_event, 0), then fc_lock.                 *)
Wake ==
    /\ pc = "wait"
    /\ signaled
    /\ signaled' = FALSE
    /\ Goto("woken")
    /\ UNCHANGED <<fs, jobs, frames, cp, report, own, others, asked>>

TakeLock ==
    /\ pc = "woken"
    /\ Goto("jobs")
    /\ UNCHANGED <<fs, jobs, signaled, frames, cp, report, own, others, asked>>

(* fc_run_job up to its loop; the buffers may not be there.                *)
NextJob ==
    /\ pc = "jobs"
    /\ \/ jobs = <<>> /\ Goto("wait") /\ UNCHANGED jobs
       \/ jobs # <<>> /\ Goto("items") /\ UNCHANGED jobs
       \/ /\ jobs # <<>> /\ CanFail("memory")
          /\ SetJob("failed", Len(job.items))
          /\ Goto("end")
    /\ UNCHANGED <<fs, signaled, frames, cp, report, own, others, asked>>

(* fc_run_job's loop and fc_run_item up to fc_copy_any.                    *)
ItemSkipped(r) ==
    job.move /\ r.src = r.dest

OverwritesDest(r) == {r.dest}  \* variant: does not look whether it is taken

(* The name the item ends up at: its own, or a free one with RENAME.       *)
FinalDest(r) ==
    IF ~vfs_exists(r.dest) THEN {r.dest}
    ELSE IF job.rename THEN dwm_path_unique(r.dest) ELSE {}

Destinations(r) == {d \in FinalDest(r) : ~fc_path_is_within(d, r.src)}

OnlyFirstItem == job.index < 1  \* variant: added items are not looked at

(* Items may be added while the job runs.                                  *)
MoreItems == job.index < Len(job.items)

NextItem ==
    /\ pc = "items"
    /\ \/ /\ MoreItems /\ ~job.cancel
          /\ \E r \in {job.items[job.index + 1]}, k \in {job.index + 1} :
               \/ /\ ~vfs_exists(r.src)
                  /\ jobs' = [jobs EXCEPT ![1].index = k, ![1].failed = @ + 1]
                  /\ UNCHANGED <<pc, cp>>
               \/ /\ vfs_exists(r.src) /\ ItemSkipped(r)
                  /\ jobs' = [jobs EXCEPT ![1].index = k, ![1].skipped = @ + 1]
                  /\ UNCHANGED <<pc, cp>>
               \/ /\ vfs_exists(r.src) /\ ~ItemSkipped(r) /\ Destinations(r) = {}
                  /\ jobs' = [jobs EXCEPT ![1].index = k, ![1].failed = @ + 1]
                  /\ UNCHANGED <<pc, cp>>
               \/ /\ vfs_exists(r.src) /\ ~ItemSkipped(r)
                  /\ \E d \in Destinations(r) :
                       cp' = [NoCopy EXCEPT !.src = r.src, !.dest = d,
                                            !.isrc = r.src, !.idest = d]
                  /\ SetJob("index", k)
                  /\ Goto("enter")
       \/ /\ MoreItems /\ job.cancel
          /\ SetJob("cancelled", TRUE)
          /\ Goto("end")
          /\ UNCHANGED cp
       \/ ~MoreItems /\ Goto("end") /\ UNCHANGED <<jobs, cp>>
    /\ own' = {}
    /\ UNCHANGED <<fs, signaled, frames, report, others, asked>>

(* fc_copy_any returned false: remove what is at dest, stop if cancelled.  *)
ItemFailed ==
    /\ pc = "failed"
    /\ fs' = IF Removable(cp.idest) THEN Without(cp.idest) ELSE fs
    /\ \/ job.cancel /\ SetJob("cancelled", TRUE) /\ Goto("end")
       \/ ~job.cancel /\ Bump("failed") /\ Goto("items")
    /\ frames' = <<>>
    /\ UNCHANGED <<signaled, cp, report, own, others, asked>>

(* fc_copy_any returned true: a move now deletes the original.             *)
ItemCopied ==
    /\ pc = "copied"
    /\ \/ /\ ~job.move
          /\ Bump("copied")
          /\ UNCHANGED fs
       \/ /\ job.move /\ Removable(cp.isrc)
          /\ Bump("copied")
          /\ fs' = Without(cp.isrc)
       \/ /\ job.move /\ ~Removable(cp.isrc)
          /\ jobs' = [jobs EXCEPT ![1].copied = @ + 1, ![1].failed = @ + 1]
          /\ UNCHANGED fs
    /\ Goto("items")
    /\ UNCHANGED <<signaled, frames, cp, report, own, others, asked>>

(* The end of fc_thread_main's loop: done_callback, unlink, free.          *)
Result == [items |-> Len(job.items), copied |-> job.copied, failed |-> job.failed,
           skipped |-> job.skipped, cancelled |-> job.cancelled]

EndJob ==
    /\ pc = "end"
    /\ report' = Result
    /\ jobs' = Tail(jobs)
    /\ Goto("jobs")
    /\ UNCHANGED <<fs, signaled, frames, cp, own, others, asked>>

-----------------------------------------------------------------------------
(***************************************************************************)
(* fc_copy_any, fc_copy_directory and the locked parts of fc_copy_file.    *)
(***************************************************************************)
Enter == pc = "enter" /\ UNCHANGED <<jobs, signaled, report, others, asked>>

TooDeep == Len(frames) >= FC_MAX_DEPTH

(* Cancelled, a mounted device, or too deep.                               *)
EnterRefused ==
    /\ Enter
    /\ \/ job.cancel
       \/ fs[cp.src].kind = "mount"
       \/ fs[cp.src].kind = "dir" /\ TooDeep
    /\ Goto("failed")
    /\ UNCHANGED <<fs, frames, cp, own>>

CanMakeDirectory(d) == ~vfs_exists(d) /\ HasFolder(d) /\ FolderWritable(d)

EnterDirectory ==
    /\ Enter
    /\ ~job.cancel /\ fs[cp.src].kind = "dir" /\ ~TooDeep
    /\ \/ /\ CanMakeDirectory(cp.dest)
          /\ fs' = [fs EXCEPT ![cp.dest] = Dir(TRUE)]
          /\ own' = own \cup {cp.dest}
          /\ frames' = Append(frames, [src |-> cp.src, dest |-> cp.dest, i |-> 0,
                                       count |-> vfs_directory_get_item_count(cp.src)])
          /\ Goto("dir")
       \/ /\ CanFail("mkdir") \/ ~CanMakeDirectory(cp.dest)
          /\ Goto("failed")
          /\ UNCHANGED <<fs, own, frames>>
       \/ /\ CanFail("memory") /\ CanMakeDirectory(cp.dest)
          /\ fs' = [fs EXCEPT ![cp.dest] = Dir(TRUE)]
          /\ own' = own \cup {cp.dest}
          /\ Goto("failed")
          /\ UNCHANGED frames
    /\ UNCHANGED cp

CreatedLikeOriginal == File(<<>>, fs[cp.src].rw)  \* variant: permissions too early

Created == File(<<>>, TRUE)

CanOpen(d) == fs[d].kind = "file" \/ (~vfs_exists(d) /\ HasFolder(d))

(* fc_copy_file up to the first fc_unlock: open the original, create the   *)
(* copy.  VFS_OPEN_CREATE opens what is there already.                     *)
EnterFile ==
    /\ Enter
    /\ ~job.cancel /\ fs[cp.src].kind \in {"file", "none"}
    /\ \/ /\ fs[cp.src].kind = "file" /\ CanOpen(cp.dest)
          /\ fs' = [fs EXCEPT ![cp.dest] = IF @ = None THEN Created ELSE @]
          /\ own' = IF vfs_exists(cp.dest) THEN own ELSE own \cup {cp.dest}
          /\ cp' = [cp EXCEPT !.size = Len(fs[cp.src].data), !.off = 0]
          /\ \/ Goto("trunc")
             \/ CanFail("memory") /\ Goto("failed")
       \/ /\ CanFail("open") \/ fs[cp.src].kind = "none" \/ ~CanOpen(cp.dest)
          /\ Goto("failed")
          /\ UNCHANGED <<fs, own, cp>>
    /\ UNCHANGED frames

(* fc_copy_directory's loop: the next entry of the innermost folder.  The  *)
(* count is the one read when the folder was entered.                      *)
top == Last(frames)

PermissionsCopied(s, d) ==
    [fs EXCEPT ![d].rw = IF vfs_exists(s) THEN fs[s].rw ELSE @]

DirectoryEntry ==
    /\ pc = "dir" /\ top.i < top.count
    /\ frames' = [frames EXCEPT ![Len(frames)].i = @ + 1]
    /\ \/ /\ vfs_directory_get_item(top.src, top.i) = {}    \* continue
          /\ UNCHANGED <<pc, cp>>
       \/ \E q \in vfs_directory_get_item(top.src, top.i) :
             \/ /\ fc_join(top.dest, Last(q)) \in Paths
                /\ cp' = [cp EXCEPT !.src = q, !.dest = fc_join(top.dest, Last(q))]
                /\ Goto("enter")
             \/ /\ fc_join(top.dest, Last(q)) \notin Paths
                /\ Goto("failed")
                /\ UNCHANGED cp
    /\ UNCHANGED <<fs, jobs, signaled, report, own, others, asked>>

(* Where a finished file or folder returns to.                             *)
Return(fr) == Goto(IF fr = <<>> THEN "copied" ELSE "dir")

DirectoryDone ==
    /\ pc = "dir" /\ top.i = top.count
    /\ fs' = PermissionsCopied(top.src, top.dest)
    /\ frames' = Front(frames)
    /\ Return(frames')
    /\ UNCHANGED <<jobs, signaled, cp, report, own, others, asked>>

FileDone ==
    /\ pc = "filedone"
    /\ fs' = PermissionsCopied(cp.src, cp.dest)
    /\ Return(frames)
    /\ UNCHANGED <<jobs, signaled, frames, cp, report, own, others, asked>>

-----------------------------------------------------------------------------
(***************************************************************************)
(* fc_copy_file without the lock: reserve, copy chunk by chunk, verify.    *)
(***************************************************************************)
Quiet == UNCHANGED <<jobs, signaled, frames, report, own, others, asked>>

(* vfs_truncate returns true whether or not there was space.               *)
Truncate ==
    /\ pc = "trunc"
    /\ \/ fs' = [fs EXCEPT ![cp.dest].data = Resized(@, cp.size)]
       \/ CanFail("space") /\ UNCHANGED fs
    /\ Goto("sized")
    /\ UNCHANGED cp /\ Quiet

(* The size the copy really got.                                           *)
SizeOK(d, n) == Len(d) = n

Sized ==
    /\ pc = "sized"
    /\ \/ /\ ~SizeOK(fs[cp.dest].data, cp.size) \/ job.cancel
          /\ Goto("failed")
       \/ /\ SizeOK(fs[cp.dest].data, cp.size) /\ ~job.cancel
          /\ Goto(IF cp.size = 0 THEN "filedone" ELSE "read")
       \/ cp.size > 0 /\ CanFail("open") /\ Goto("failed")
    /\ UNCHANGED <<fs, cp>> /\ Quiet

(* Chunk off of the original, into the buffer; short files end the copy.   *)
ReadChunk(next) ==
    \/ /\ cp.off < Len(fs[cp.src].data)
       /\ cp' = [cp EXCEPT !.buf = fs[cp.src].data[cp.off + 1]]
       /\ Goto(next)
    \/ /\ cp.off >= Len(fs[cp.src].data) \/ CanFail("read")
       /\ Goto("iofail")
       /\ UNCHANGED cp

Read == pc = "read" /\ ReadChunk("write") /\ UNCHANGED fs /\ Quiet

Write ==
    /\ pc = "write"
    /\ \/ /\ cp.off < Len(fs[cp.dest].data)
          /\ \E v \in {cp.buf} \cup (IF CanFail("corrupt") THEN {Junk} ELSE {}) :
               fs' = [fs EXCEPT ![cp.dest].data[cp.off + 1] = v]
          /\ Goto("wrote")
       \/ /\ cp.off >= Len(fs[cp.dest].data) \/ CanFail("write")
          /\ Goto("iofail")
          /\ UNCHANGED fs
    /\ UNCHANGED cp /\ Quiet

ChunkDoneBlind(again, next) ==  \* variant: Cancel is looked at between items only
    IF cp.off + 1 < cp.size
    THEN Goto(again) /\ cp' = [cp EXCEPT !.off = @ + 1]
    ELSE Goto(next) /\ cp' = [cp EXCEPT !.off = 0]

(* fc_lock after a chunk: the next one, or on to what follows the loop.    *)
ChunkDone(again, next) ==
    IF job.cancel THEN Goto("failed") /\ UNCHANGED cp
    ELSE IF cp.off + 1 < cp.size
         THEN Goto(again) /\ cp' = [cp EXCEPT !.off = @ + 1]
         ELSE Goto(next) /\ cp' = [cp EXCEPT !.off = 0]

Wrote == pc = "wrote" /\ ChunkDone("read", "reread") /\ UNCHANGED fs /\ Quiet

Reread == pc = "reread" /\ ReadChunk("compare") /\ UNCHANGED fs /\ Quiet

AcceptsAll(v, w) == TRUE  \* variant: does not compare

Same(v, w) == v = w

Compare ==
    /\ pc = "compare"
    /\ \/ /\ cp.off < Len(fs[cp.dest].data)
          /\ Same(cp.buf, fs[cp.dest].data[cp.off + 1])
          /\ Goto("compared")
       \/ /\ \/ cp.off >= Len(fs[cp.dest].data)
             \/ ~Same(cp.buf, fs[cp.dest].data[cp.off + 1])
             \/ CanFail("read")
          /\ Goto("iofail")
    /\ UNCHANGED <<fs, cp>> /\ Quiet

Compared == pc = "compared" /\ ChunkDone("reread", "filedone") /\ UNCHANGED fs /\ Quiet

(* fc_lock after a failed chunk.                                           *)
GiveUp == pc = "iofail" /\ Goto("failed") /\ UNCHANGED <<fs, cp>> /\ Quiet

-----------------------------------------------------------------------------
(***************************************************************************)
(* Window procedures and other threads, with kernel_big_lock held.         *)
(***************************************************************************)
Outside == pc \in Unlocked /\ UNCHANGED <<pc, frames, cp, report, own>>

NoSignal == UNCHANGED signaled  \* variant: the thread is not woken

(* event_signal(&fc_event).                                                *)
Signal == signaled' = TRUE

dwm_summon_filecopy(r, mode) ==
    /\ Outside
    /\ asked < MaxItems
    /\ asked' = asked + 1
    /\ jobs' = Append(jobs, NewJob(r, mode))
    /\ Signal
    /\ UNCHANGED <<fs, others>>

dwm_filecopy_add(j, r) ==
    /\ Outside
    /\ asked < MaxItems
    /\ asked' = asked + 1
    /\ jobs' = [jobs EXCEPT ![j].items = Append(@, r)]
    /\ UNCHANGED <<fs, signaled, others>>

fc_request_cancel(j) ==
    /\ Outside
    /\ ~jobs[j].cancel
    /\ jobs' = [jobs EXCEPT ![j].cancel = TRUE]
    /\ UNCHANGED <<fs, signaled, others, asked>>

Meddle(what) ==
    /\ Outside
    /\ what \in Others /\ others < MaxOthers
    /\ others' = others + 1
    /\ UNCHANGED <<jobs, signaled, asked>>

(* Another thread saves a file, or creates one.                            *)
OtherEdit(p, c) ==
    /\ Meddle("edit")
    /\ fs[p].kind = "file" /\ p \notin own /\ fs[p].data # <<>>
    /\ fs' = [fs EXCEPT ![p].data[1] = c]

OtherCreate(p, c) ==
    /\ Meddle("create")
    /\ ~vfs_exists(p) /\ HasFolder(p)
    /\ fs' = [fs EXCEPT ![p] = File(<<c>>, TRUE)]

Copier ==
    \/ Wake \/ TakeLock \/ NextJob \/ NextItem \/ ItemFailed \/ ItemCopied \/ EndJob
    \/ EnterRefused \/ EnterDirectory \/ EnterFile
    \/ DirectoryEntry \/ DirectoryDone \/ FileDone
    \/ Truncate \/ Sized \/ Read \/ Write \/ Wrote \/ Reread \/ Compare \/ Compared
    \/ GiveUp

Users ==
    \/ \E r \in Requests, m \in Modes : dwm_summon_filecopy(r, m)
    \/ \E j \in 1..Len(jobs), r \in Requests : dwm_filecopy_add(j, r)
    \/ \E j \in 1..Len(jobs) : fc_request_cancel(j)

(* They write what no file held.                                           *)
NewChunks == Chunks \ UNION {ToSet(Disk0[p].data) : p \in Paths}

OtherThreads == \E p \in Paths, c \in NewChunks : OtherEdit(p, c) \/ OtherCreate(p, c)

Next == Copier \/ Users \/ OtherThreads

Spec == Init /\ [][Next]_vars

(* The copy thread is scheduled.                                           *)
FairSpec == Spec /\ WF_vars(Copier)

-----------------------------------------------------------------------------
TypeOK ==
    /\ fs \in [Paths -> Entry]
    /\ signaled \in BOOLEAN
    /\ pc \in Unlocked \cup {"jobs", "items", "enter", "dir", "filedone",
                             "failed", "copied", "end"}
    /\ pc \notin {"wait", "woken", "jobs"} => jobs # <<>>
    /\ Len(frames) <= FC_MAX_DEPTH
    /\ own \subseteq Paths

(* Where the copy of p goes.                                               *)
Rebased(p) == cp.idest \o SubSeq(p, Len(cp.isrc) + 1, Len(p))

(* No other thread has touched the files.                                  *)
Undisturbed == others = 0

(* filecopy.h: a copy that fails a check is "never left behind looking     *)
(* complete": an item counted as copied is the whole tree, with equal      *)
(* contents and permissions, whatever the disk did meanwhile.              *)
CopyIsExact ==
    Undisturbed /\ pc = "copied" =>
        \A p \in Paths : fc_path_is_within(p, cp.isrc) /\ vfs_exists(p) =>
            Rebased(p) \in Paths /\ fs[Rebased(p)] = fs[p]

(* "Nothing exists at dest, so anything there after a failure is ours":    *)
(* the cleanup removes only what the copier created.                       *)
CleanupIsOurs ==
    Undisturbed /\ pc = "failed" =>
        \A p \in Paths : fc_path_is_within(p, cp.idest) /\ vfs_exists(p) => p \in own

(* A failed or cancelled copy leaves nothing of itself behind, if its      *)
(* folder lets an item be removed.                                         *)
CleanFailure ==
    [][pc = "failed" /\ FolderWritable(cp.idest) =>
         \A p \in own : fs'[p].kind = "none"]_vars

(* No contents that were on the disk disappear, through moves, renames,    *)
(* failures and cancels.                                                   *)
NothingLost ==
    Undisturbed => \A p \in Paths : Disk0[p].kind = "file" =>
        \E q \in Paths : fs[q].kind = "file" /\ fs[q].data = Disk0[p].data

(* Cancel is final: an item is neither completed nor its original deleted  *)
(* once Cancel was pressed.                                                *)
CancelIsFinal == pc \in {"filedone", "copied"} => ~job.cancel

(* Every item a job accepted, while it was running too, is in the result.  *)
ItemsAccounted ==
    report.cancelled \/ report.copied + report.failed + report.skipped >= report.items

(* The copy window tells the truth: what it counts as copied is copied,    *)
(* what was cancelled stays cancelled, and no item is forgotten.           *)
CopiesAreSound == TypeOK /\ CopyIsExact /\ CancelIsFinal /\ ItemsAccounted

(* FILECOPY_MOVE: "Delete each original once its copy succeeded": a file   *)
(* the move deletes is at its destination, with the same contents.         *)
MoveDeletesCopied ==
    [][pc = "copied" =>
         \A p \in Paths : fs[p].kind = "file" /\ fs'[p].kind = "none" =>
            Rebased(p) \in Paths /\ fs[Rebased(p)].data = fs[p].data]_vars

(* Every job ends: no wake-up is lost and no item blocks the queue.        *)
JobsEnd == jobs # <<>> ~> jobs = <<>>
=============================================================================
