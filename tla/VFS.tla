--------------------------------- MODULE VFS ---------------------------------
(***************************************************************************)
(* The virtual file system (vfs_file.c, vfs_parse.c, vfs_device.c, vfs.c,  *)
(* vfs_metadata.c): paths through the kernel's nodes into a mounted        *)
(* device, the open file table, and what each call changes.                *)
(*                                                                         *)
(* Every call holds the VFS lock from start to end (VFSLock), so it is one *)
(* step.  A path is the sequence of its tokens.  Addresses are tagged:     *)
(* <<"k", n>> in the kernel heap, <<"f", n>> on the device; a check of one *)
(* kind of address in the other place fails.  Of a file's data, its size.  *)
(***************************************************************************)
EXTENDS Integers, Sequences, FiniteSets, FiniteSetsExt, SequencesExt

CONSTANTS
    Names,          \* valid names; other tokens are too long or are dots
    Paths,          \* the paths that callers use, never empty
    KNodes,         \* 1 .. n, nodes of the kernel heap; 1, 2 and 3 exist
    FNodes,         \* 1 .. n, blocks of the device; 1 is the root directory
    FileIds,        \* File values are 0 .. FileIds - 1 and wrap
    MaxSize,        \* bound: size of a file
    MaxCalls        \* bound: calls of the VFS in a behaviour

ASSUME VFSAssumption ==
    /\ {1, 2, 3} \subseteq KNodes /\ 1 \in FNodes
    /\ FileIds > 1 /\ MaxSize \in Nat /\ MaxCalls \in Nat
    /\ <<>> \notin Paths

VARIABLES
    knode,          \* kernel nodes: name, parent, references, permissions, mount flag
    disk,           \* files and directories of the mounted device
    open_files,     \* descriptors, in the order they were opened
    opens,          \* ids given out so far; next_unique_id follows from it
    calls           \* bound used up

vfsVars == <<knode, disk, open_files, opens, calls>>

RW == {"R", "W"}
Nowhere == <<"k", 0>>       \* 0xFFFFFFFF
FsRoot == <<"f", 1>>
Node(name, parent, refs, mount) ==
    [name |-> name, parent |-> parent, refs |-> refs, perm |-> RW, mount |-> mount]
Entry(kind, name, parent, made) ==
    [kind |-> kind, name |-> name, parent |-> parent, perm |-> RW, size |-> 0,
     refs |-> <<>>, made |-> made]

(* "/", the read-only "/mnt" and the mounted and empty device "/mnt/hd".   *)
VFSInit ==
    /\ knode = [a \in {<<"k", 1>>, <<"k", 2>>, <<"k", 3>>} |->
                  CASE a = <<"k", 1>> -> Node("", Nowhere, <<<<"k", 2>>>>, FALSE)
                    [] a = <<"k", 2>> ->
                         [Node("mnt", <<"k", 1>>, <<<<"k", 3>>>>, FALSE) EXCEPT !.perm = {"R"}]
                    [] a = <<"k", 3>> -> Node("hd", <<"k", 2>>, <<>>, TRUE)]
    /\ disk = [a \in {FsRoot} |-> Entry("directory", "", Nowhere, "mkdir")]
    /\ open_files = <<>>
    /\ opens = 0 /\ calls = 0

With(f, a, v) == [x \in DOMAIN f \cup {a} |-> IF x = a THEN v ELSE f[x]]
Without(f, S) == [x \in DOMAIN f \ S |-> f[x]]

-----------------------------------------------------------------------------
fs_file_check(a) == a \in DOMAIN disk /\ disk[a].kind = "file"
fs_check_directory_valid(a) == a \in DOMAIN disk /\ disk[a].kind = "directory"
InFileSystem(a) == fs_file_check(a) \/ fs_check_directory_valid(a)

(* The first reference of that name, in a directory of either kind.        *)
FindIn(f, d, name) ==
    LET hits == {i \in 1..Len(f[d].refs) : f[f[d].refs[i]].name = name}
    IN  IF hits = {} THEN Nowhere ELSE f[d].refs[Min(hits)]

knode_find_by_name(d, name) == IF name = "" THEN Nowhere ELSE FindIn(knode, d, name)
fs_directory_find(d, name) ==
    IF fs_check_directory_valid(d) THEN FindIn(disk, d, name) ELSE Nowhere
knode_get_parent(d) == IF knode[d].parent \in DOMAIN knode THEN knode[d].parent ELSE d

Failed == [ok |-> FALSE, k |-> Nowhere, f |-> Nowhere, in_fs |-> FALSE]

(* One token in the kernel's tree; a mount leads into its device.          *)
KnodeStep(r, token) ==
    LET next == IF token = ".." THEN knode_get_parent(r.k) ELSE knode_find_by_name(r.k, token)
    IN  IF next = Nowhere THEN Failed
        ELSE IF knode[next].mount THEN [r EXCEPT !.k = next, !.f = FsRoot, !.in_fs = TRUE]
        ELSE [r EXCEPT !.k = next]

(* One token in the device; ".." at its root leads out of it again.        *)
FsStep(r, token) ==
    LET next == IF token = ".." THEN disk[r.f].parent ELSE fs_directory_find(r.f, token)
    IN  IF token = ".." /\ r.f = FsRoot
        THEN [r EXCEPT !.k = knode_get_parent(r.k), !.f = Nowhere, !.in_fs = FALSE]
        ELSE IF next = Nowhere THEN Failed ELSE [r EXCEPT !.f = next]

Step(r, token) ==
    IF ~r.ok \/ token = "." THEN r
    ELSE IF r.in_fs THEN FsStep(r, token) ELSE KnodeStep(r, token)

Walk(path) ==
    FoldLeft(Step, [ok |-> TRUE, k |-> <<"k", 1>>, f |-> Nowhere, in_fs |-> FALSE], path)

resolve_path_to_address(path) ==
    LET r == Walk(path) IN IF r.in_fs THEN r.f ELSE r.k

(* Stops at the first mount it meets, wherever the path goes from there.   *)
resolve_path_to_mount_point(path) ==
    LET mounts == {i \in 1..Len(path) : Walk(SubSeq(path, 1, i)).in_fs}
    IN  Walk(IF mounts = {} THEN path ELSE SubSeq(path, 1, Min(mounts))).k

(* A path ends in a name, so its last slash stands before its last token.  *)
resolve_parent_path_to_address(path) == resolve_path_to_address(Front(path))

(* Is there a mounted device on the path?                                  *)
vfs_device_get_context(path) ==
    LET a == resolve_path_to_mount_point(path) IN a # Nowhere /\ knode[a].mount

-----------------------------------------------------------------------------
HasFreeBlock == \E n \in FNodes : <<"f", n>> \notin DOMAIN disk
FreeBlock == <<"f", Min({n \in FNodes : <<"f", n>> \notin DOMAIN disk})>>

(* fs_file_create and fs_directory_create; below a file the new entry is   *)
(* linked from nowhere.                                                    *)
FsCreate(kind, name, parent, made) ==
    LET new == With(disk, FreeBlock, Entry(kind, name, parent, made))
    IN  IF fs_check_directory_valid(parent)
        THEN [new EXCEPT ![parent].refs = Append(@, FreeBlock)] ELSE new

(* Everything below a directory, and itself.                               *)
Below(a) ==
    LET upto[n \in 0..Cardinality(FNodes)] ==
            IF n = 0 THEN {a}
            ELSE upto[n - 1] \cup UNION {Range(disk[x].refs) : x \in upto[n - 1]}
    IN  upto[Cardinality(FNodes)]

FsUnlink(a, parent) ==
    Without([disk EXCEPT ![parent].refs = SelectSeq(@, LAMBDA x : x # a)], Below(a))

(* The last token may be created: at the end of the path, in the device.   *)
MayCreate(path, flags) ==
    /\ ~Walk(path).ok /\ Walk(Front(path)).ok /\ Walk(Front(path)).in_fs
    /\ Last(path) \in Names /\ "CREATE" \in flags /\ HasFreeBlock

vfs_parse_path(path, flags) ==
    IF MayCreate(path, flags)
    THEN [d |-> FsCreate("file", Last(path), Walk(Front(path)).f, "open"),
          r |-> [Walk(Front(path)) EXCEPT !.f = FreeBlock]]
    ELSE [d |-> disk, r |-> Walk(path)]

(* next_unique_id after n opens: 1, 2, ... and from the last value back to *)
(* 1, for 0 is VFS_INVALID_FILE.                                           *)
NextId(n) == (n % (FileIds - 1)) + 1

(* The mode a descriptor gets: what is asked and allowed, or reading.      *)
ModeFor(flags, perm) ==
    LET mode == (IF "READ" \in flags THEN {"R"} ELSE {}) \cup
                (IF "WRITE" \in flags THEN {"W"} ELSE {})
    IN  IF mode \cap perm = {} THEN {"R"} ELSE mode \cap perm

(* A node of the kernel's tree is a directory and is not opened; a file    *)
(* that is made and cannot be opened stays.                                *)
vfs_open(path, flags) ==
    /\ \E p \in {vfs_parse_path(path, flags)} :
          LET a == p.r.f
              mode == ModeFor(flags, p.d[a].perm)
          IN  /\ p.r.ok /\ p.r.in_fs
              /\ disk' = p.d
              /\ opens' = IF p.d[a].kind = "file" THEN opens + 1 ELSE opens
              /\ open_files' = IF p.d[a].kind = "file" /\ mode \subseteq p.d[a].perm
                               THEN Append(open_files,
                                      [id |-> NextId(opens), address |-> a, position |-> 0,
                                       mode |-> mode])
                               ELSE open_files
    /\ UNCHANGED knode

(* The first descriptor of that id, or 0.                                  *)
vfs_file_find_open(id) ==
    LET hits == {i \in 1..Len(open_files) : open_files[i].id = id}
    IN  IF hits = {} THEN 0 ELSE Min(hits)

IsOpen(id) == vfs_file_find_open(id) # 0

vfs_close(id) ==
    /\ IsOpen(id)
    /\ open_files' = RemoveAt(open_files, vfs_file_find_open(id))
    /\ UNCHANGED <<knode, disk, opens>>

(* fs_file_struct_is_valid: the block of a removed file fails fs_file_check *)
(* until it is a file again.                                               *)
Usable(d, what) ==
    fs_file_check(d.address) /\ what \in d.mode /\ what \in disk[d.address].perm

(* The position of the handle moves.  The offset that vfs_tell gives is    *)
(* not it: on the device only vfs_seek sets that, and nothing else uses it.*)
vfs_read(id, n) ==
    /\ IsOpen(id)
    /\ LET i == vfs_file_find_open(id)
           d == open_files[i]
       IN  /\ Usable(d, "R") /\ d.position < disk[d.address].size
           /\ open_files' = [open_files EXCEPT ![i].position =
                               Min({d.position + n, disk[d.address].size})]
    /\ UNCHANGED <<knode, disk, opens>>

vfs_write(id, n) ==
    /\ IsOpen(id)
    /\ LET i == vfs_file_find_open(id)
           d == open_files[i]
       IN  /\ Usable(d, "W") /\ d.position + n <= MaxSize
           /\ open_files' = [open_files EXCEPT ![i].position = d.position + n]
           /\ disk' = [disk EXCEPT ![d.address].size = Max({@, d.position + n})]
    /\ UNCHANGED <<knode, opens>>

vfs_seek(id, n) ==
    /\ IsOpen(id)
    /\ LET i == vfs_file_find_open(id)
           a == open_files[i].address
       IN  /\ fs_file_check(a)
           /\ open_files' = [open_files EXCEPT ![i].position = Min({n, disk[a].size})]
    /\ UNCHANGED <<knode, disk, opens>>

-----------------------------------------------------------------------------
HasFreeNode == \E n \in KNodes : <<"k", n>> \notin DOMAIN knode
FreeNode == <<"k", Min({n \in KNodes : <<"k", n>> \notin DOMAIN knode})>>

(* The name is not looked for first.  A full device changes nothing, and   *)
(* the caller is told TRUE.                                                *)
vfs_mkdir(path) ==
    LET parent == resolve_path_to_address(Front(path))
    IN  /\ Last(path) \in Names /\ Walk(Front(path)).ok
        /\ \/ /\ vfs_device_get_context(Front(path)) /\ fs_check_directory_valid(parent)
              /\ RW \subseteq disk[parent].perm /\ HasFreeBlock
              /\ disk' = FsCreate("directory", Last(path), parent, "mkdir")
              /\ UNCHANGED knode
           \/ /\ parent \in DOMAIN knode /\ RW \subseteq knode[parent].perm /\ HasFreeNode
              /\ knode' = [With(knode, FreeNode, Node(Last(path), parent, <<>>, FALSE))
                             EXCEPT ![parent].refs = Append(@, FreeNode)]
              /\ UNCHANGED disk
        /\ UNCHANGED <<open_files, opens>>

(* Open descriptors of what is removed are left alone.                     *)
vfs_remove(path) ==
    LET a == resolve_path_to_address(path)
        parent == resolve_parent_path_to_address(path)
    IN  /\ Last(path) \in Names /\ Walk(path).ok
        /\ \/ /\ vfs_device_get_context(path) /\ fs_check_directory_valid(parent)
              /\ "W" \in disk[a].perm /\ RW \subseteq disk[parent].perm
              /\ disk' = FsUnlink(a, parent)
              /\ UNCHANGED knode
           \/ /\ a \in DOMAIN knode /\ parent \in DOMAIN knode
              /\ "W" \in knode[a].perm /\ RW \subseteq knode[parent].perm
              /\ knode' = Without([knode EXCEPT ![parent].refs =
                                      SelectSeq(@, LAMBDA x : x # a)], {a})
              /\ UNCHANGED disk
        /\ UNCHANGED <<open_files, opens>>

Overwrites(parent, name) ==     \* variant: the name is not looked for
    TRUE

NameIsFree(parent, name) == fs_directory_find(parent, name) = Nowhere

(* The name is looked for on the device, not in the kernel's tree.         *)
vfs_rename(path, name) ==
    LET a == resolve_path_to_address(path)
        parent == resolve_parent_path_to_address(path)
    IN  /\ Last(path) \in Names /\ Walk(path).ok /\ name \in Names
        /\ \/ /\ vfs_device_get_context(path) /\ fs_check_directory_valid(parent)
              /\ NameIsFree(parent, name)
              /\ "W" \in disk[a].perm
              /\ disk' = [disk EXCEPT ![a].name = name, ![a].made = "rename"]
              /\ UNCHANGED knode
           \/ /\ a \in DOMAIN knode /\ "W" \in knode[a].perm
              /\ knode' = [knode EXCEPT ![a].name = name]
              /\ UNCHANGED disk
        /\ UNCHANGED <<open_files, opens>>

(* Only a file of the device is resized; TRUE in any case.                 *)
vfs_truncate(path, n) ==
    LET a == resolve_path_to_address(path)
    IN  /\ Walk(path).ok /\ vfs_device_get_context(path) /\ fs_file_check(a)
        /\ disk' = [disk EXCEPT ![a].size = n]
        /\ UNCHANGED <<knode, open_files, opens>>

vfs_set_permissions(path, perm) ==
    LET a == resolve_path_to_address(path)
    IN  /\ Walk(path).ok
        /\ \/ /\ vfs_device_get_context(path) /\ InFileSystem(a)
              /\ disk' = [disk EXCEPT ![a].perm = perm] /\ UNCHANGED knode
           \/ /\ a \in DOMAIN knode
              /\ knode' = [knode EXCEPT ![a].perm = perm] /\ UNCHANGED disk
        /\ UNCHANGED <<open_files, opens>>

-----------------------------------------------------------------------------
(* What callers are told.  A path that leaves the device again has a       *)
(* context and an address that is not the device's.                        *)
vfs_exists(path) ==
    LET a == resolve_path_to_address(path)
    IN  Walk(path).ok /\ (vfs_device_get_context(path) => InFileSystem(a))

vfs_directory_check_mounted(path) ==
    LET a == resolve_path_to_address(path)
    IN  Walk(path).ok /\ \/ a \in DOMAIN knode /\ knode[a].mount
                         \/ vfs_device_get_context(path) /\ a = FsRoot

vfs_directory_check(path) ==
    LET a == resolve_path_to_address(path)
    IN  Walk(path).ok /\ (a \in DOMAIN knode \/ fs_check_directory_valid(a))

(* The names of a directory, as get_item_count and get_item give them.     *)
vfs_directory_items(path) ==
    LET a == resolve_path_to_address(path)
        refs == IF ~Walk(path).ok THEN <<>>
                ELSE IF fs_check_directory_valid(a) THEN disk[a].refs
                ELSE IF a \in DOMAIN knode THEN knode[a].refs ELSE <<>>
    IN  [i \in 1..Len(refs) |-> IF a \in DOMAIN knode THEN knode[refs[i]].name
                                ELSE disk[refs[i]].name]

vfs_get_permissions(path) ==
    LET a == resolve_path_to_address(path)
    IN  IF InFileSystem(a) THEN disk[a].perm ELSE knode[a].perm

Flags == {{"READ"}, {"READ", "WRITE"}, {"READ", "WRITE", "CREATE"}}

VFSCall ==
    \/ \E path \in Paths :
         \/ \E flags \in Flags : vfs_open(path, flags)
         \/ vfs_mkdir(path) \/ vfs_remove(path)
         \/ \E name \in Names : vfs_rename(path, name)
         \/ \E n \in 0..MaxSize : vfs_truncate(path, n)
         \/ \E perm \in {{"R"}, RW} : vfs_set_permissions(path, perm)
    \/ \E id \in 1..(FileIds - 1) :
         \/ vfs_close(id)
         \/ \E n \in 1..MaxSize : vfs_read(id, n) \/ vfs_write(id, n)
         \/ \E n \in 0..MaxSize : vfs_seek(id, n)

VFSNext ==
    /\ calls < MaxCalls /\ calls' = calls + 1
    /\ VFSCall

VFSSpec == VFSInit /\ [][VFSNext]_vfsVars
-----------------------------------------------------------------------------
(* "The lock makes this check-then-rename atomic: no other thread can      *)
(* create a file with the same name in between": two entries of a          *)
(* directory have the same name only if the later one is a directory that  *)
(* vfs_mkdir made (it does not look), and every entry is listed once, by   *)
(* the directory it was made in.                                           *)
NamesAreTakenOnce ==
    \A d \in DOMAIN disk : disk[d].kind = "directory" =>
        LET refs == disk[d].refs
        IN  \A i, j \in 1..Len(refs) :
              /\ refs[i] \in DOMAIN disk /\ disk[refs[i]].parent = d
              /\ i < j /\ disk[refs[i]].name = disk[refs[j]].name =>
                    refs[i] # refs[j] /\ disk[refs[j]].made = "mkdir"
=============================================================================
