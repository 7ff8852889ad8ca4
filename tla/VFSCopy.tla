------------------------------- MODULE VFSCopy -------------------------------
(***************************************************************************)
(* vfs_copy (vfs_copy.c) on top of the VFS.  It takes the VFS lock for     *)
(* each of its calls and not in between, so other threads' calls come      *)
(* between any two of its steps.  Any call of its own may fail: the device *)
(* is full, or another thread has changed what it works on.                *)
(***************************************************************************)
EXTENDS VFS

CONSTANTS
    Copies,                 \* <<source, destination>> pairs to copy
    VFS_COPY_MAX_DEPTH

ASSUME VFSCopyAssumption == VFS_COPY_MAX_DEPTH \in Nat

VARIABLES copy      \* pc, source, destination, frames, files, foreign calls seen

copyVars == <<vfsVars, copy>>

NoCopy == [pc |-> "idle", src |-> <<>>, dest |-> <<>>, frames |-> <<>>, in |-> 0, out |-> 0,
           size |-> 0, disturbed |-> FALSE, result |-> "none"]

CopyInit == VFSInit /\ copy = NoCopy

(* A frame of copy_directory: which item of how many comes next.           *)
Frame(src, dest, count) == [src |-> src, dest |-> dest, next |-> 1, count |-> count]

At(pc) == copy.pc = pc
Goto(pc) == copy' = [copy EXCEPT !.pc = pc]
Untouched == UNCHANGED <<vfsVars>>

copy_path_is_within(path, base) == IsPrefix(base, path)

(* The checks of vfs_copy.                                                 *)
vfs_copy(src, dest) ==
    /\ At("idle") /\ copy.result = "none"
    /\ vfs_exists(src) /\ ~vfs_exists(dest)
    /\ ~vfs_directory_check_mounted(src) /\ ~copy_path_is_within(dest, src)
    /\ copy' = [NoCopy EXCEPT !.pc = "any", !.src = src, !.dest = dest,
                              !.frames = <<Frame(src, dest, 0)>>]
    /\ Untouched

(* The item that is being copied is the last frame's.                      *)
Item == Last(copy.frames)
Fail == Goto("fail") /\ Untouched

(* copy_any, and copy_directory down to its vfs_mkdir.                     *)
copy_any ==
    /\ At("any")
    /\ \/ /\ \/ vfs_directory_check_mounted(Item.src)
             \/ vfs_directory_check(Item.src) /\ Len(copy.frames) > VFS_COPY_MAX_DEPTH
          /\ Fail
       \/ /\ ~vfs_directory_check_mounted(Item.src) /\ vfs_directory_check(Item.src)
          /\ Len(copy.frames) <= VFS_COPY_MAX_DEPTH
          /\ vfs_mkdir(Item.dest) /\ UNCHANGED calls
          /\ Goto("made")
       \/ /\ ~vfs_directory_check(Item.src) /\ vfs_open(Item.src, {"READ"}) /\ UNCHANGED calls
          /\ Len(open_files') > Len(open_files)
          /\ copy' = [copy EXCEPT !.pc = "create", !.in = NextId(opens)]

(* What vfs_mkdir made is checked, and the items are counted.              *)
Enter ==
    /\ At("made")
    /\ IF vfs_directory_check(Item.dest)
       THEN copy' = [copy EXCEPT !.pc = "items", !.frames =
                       Front(@) \o <<Frame(Item.src, Item.dest, Len(vfs_directory_items(Item.src)))>>]
       ELSE copy' = [copy EXCEPT !.pc = "fail"]
    /\ Untouched

(* The next item, by its place; a directory that has shrunk gives "".      *)
NextItem ==
    /\ At("items") /\ Item.next <= Item.count
    /\ LET items == vfs_directory_items(Item.src)
           up == Front(copy.frames) \o <<[Item EXCEPT !.next = @ + 1]>>
       IN  copy' = IF Item.next > Len(items) THEN [copy EXCEPT !.frames = up]
                   ELSE [copy EXCEPT !.pc = "any", !.frames = up \o
                           <<Frame(Append(Item.src, items[Item.next]),
                                   Append(Item.dest, items[Item.next]), 0)>>]
    /\ Untouched

(* The destination is made, closed and sized, then opened again.           *)
CreateFile ==
    /\ At("create")
    /\ vfs_open(Item.dest, {"READ", "WRITE", "CREATE"}) /\ UNCHANGED calls
    /\ Len(open_files') > Len(open_files)
    /\ copy' = [copy EXCEPT !.pc = "close", !.out = NextId(opens), !.size =
                  IF IsOpen(copy.in) /\ fs_file_check(open_files[vfs_file_find_open(copy.in)].address)
                  THEN disk[open_files[vfs_file_find_open(copy.in)].address].size ELSE 0]

CloseNew == At("close") /\ vfs_close(copy.out) /\ UNCHANGED calls /\ Goto("size")

SizeFile ==
    /\ At("size") /\ vfs_truncate(Item.dest, copy.size) /\ UNCHANGED calls
    /\ copy' = [copy EXCEPT !.pc = IF copy.size > 0 THEN "reopen" ELSE "closein", !.out = 0]

Reopen ==
    /\ At("reopen") /\ vfs_open(Item.dest, {"READ", "WRITE"}) /\ UNCHANGED calls
    /\ Len(open_files') > Len(open_files)
    /\ copy' = [copy EXCEPT !.pc = "read", !.out = NextId(opens)]

(* One chunk: read from one file, then written to the other.               *)
ReadChunk ==
    /\ At("read") /\ vfs_read(copy.in, 1) /\ UNCHANGED calls /\ Goto("write")
WriteChunk ==
    /\ At("write") /\ vfs_write(copy.out, 1) /\ UNCHANGED calls
    /\ copy' = [copy EXCEPT !.size = @ - 1, !.pc = IF copy.size = 1 THEN "closeout" ELSE "read"]

CloseOut == At("closeout") /\ vfs_close(copy.out) /\ UNCHANGED calls /\ Goto("closein")
CloseIn == At("closein") /\ vfs_close(copy.in) /\ UNCHANGED calls /\ Goto("perms")

(* A call of copy_file fails: the files that are open are closed.          *)
FileFails ==
    /\ copy.pc \in {"create", "close", "size", "reopen", "read", "write"}
    /\ open_files' = SelectSeq(open_files, LAMBDA d : d.id \notin {copy.in, copy.out})
    /\ Goto("fail")
    /\ UNCHANGED <<knode, disk, opens, calls>>

DirFails == At("any") /\ Fail

(* The permissions of the original, if it still has any.                   *)
SamePermissions ==
    IF Walk(Item.src).ok /\ Walk(Item.dest).ok
    THEN vfs_set_permissions(Item.dest, vfs_get_permissions(Item.src)) /\ UNCHANGED calls
    ELSE Untouched

(* An item is done when its permissions are, a directory after its items.  *)
Done ==
    /\ At("perms") \/ (At("items") /\ Item.next > Item.count)
    /\ SamePermissions
    /\ copy' = IF Len(copy.frames) = 1 THEN [copy EXCEPT !.pc = "idle", !.result = "ok"]
               ELSE [copy EXCEPT !.pc = "items", !.frames = Front(@), !.in = 0, !.out = 0]

LeavesHalf == Untouched     \* variant: what was made is left behind

(* "Don't leave a half-copied file or tree behind."                        *)
RemoveHalf ==
    IF vfs_exists(copy.dest) THEN vfs_remove(copy.dest) /\ UNCHANGED calls ELSE Untouched

Cleanup ==
    /\ At("fail") /\ RemoveHalf
    /\ copy' = [copy EXCEPT !.pc = "idle", !.result = "failed"]

(* A call of another thread.                                               *)
Foreign ==
    /\ VFSNext
    /\ copy' = [copy EXCEPT !.disturbed = (copy.pc # "idle" \/ copy.result # "none")]

CopyNext ==
    \/ \E c \in Copies : vfs_copy(c[1], c[2])
    \/ copy_any \/ Enter \/ NextItem \/ CreateFile \/ CloseNew \/ SizeFile \/ Reopen
    \/ ReadChunk \/ WriteChunk \/ CloseOut \/ CloseIn \/ FileFails \/ DirFails \/ Done \/ Cleanup
    \/ Foreign

CopySpec == CopyInit /\ [][CopyNext]_copyVars
-----------------------------------------------------------------------------
(* The tree below an address, by names.                                    *)
Shape(a) ==
    LET sub == [x \in Below(a) |-> disk[x]]
    IN  {<<sub[x].name, sub[x].kind, sub[x].size, sub[x].perm>> : x \in Below(a) \ {a}}

(* "On failure nothing is left at dest"; on success the copy has the       *)
(* names, kinds, sizes and permissions of the original, and the source is  *)
(* untouched; no descriptor is left open: as long as no other thread's     *)
(* call came in between.                                                   *)
CopyIsAllOrNothing ==
    copy.pc = "idle" /\ ~copy.disturbed =>
        /\ copy.result = "failed" => ~vfs_exists(copy.dest)
        /\ copy.result = "ok" =>
              LET s == resolve_path_to_address(copy.src)
                  d == resolve_path_to_address(copy.dest)
              IN  /\ disk[s].kind = disk[d].kind /\ disk[s].size = disk[d].size
                  /\ disk[s].perm = disk[d].perm /\ Shape(s) = Shape(d)

(* The VFS keeps names apart, and a copy made through it is whole or not   *)
(* there at all.                                                           *)
VfsIsSound == NamesAreTakenOnce /\ CopyIsAllOrNothing
=============================================================================
