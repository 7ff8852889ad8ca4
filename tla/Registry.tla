------------------------------ MODULE Registry ------------------------------
(***************************************************************************)
(* The registry (registry/registry.c): two trees of keys and values in     *)
(* memory, each written to a file of its own when the machine is shut down *)
(* and read back, or replaced by an empty tree, when it is started.        *)
(*                                                                         *)
(* A hive file is a sequence of cells, one for each field the code writes  *)
(* with one call (a name with its permissions, a count, a size) and one    *)
(* for each byte of a value.  Names and bytes are numbers, so that a file  *)
(* half of one tree and half of another can be read as whatever it says.   *)
(* Any write can fail, and the power can go at any time.                   *)
(***************************************************************************)
EXTENDS Naturals, Sequences, FiniteSets, SequencesExt

CONSTANTS
    Names,                    \* the names of keys and values
    Payloads,                 \* the data of a value, as sequences of bytes
    Magic,                    \* the cell REG! at the start of a file
    Software,                 \* the key every root hive has
    REGISTRY_MAX_VALUE_SIZE,  \* longest value an import accepts
    REGISTRY_MAX_DEPTH,       \* deepest key an import accepts
    MaxKeyDepth,              \* depth of the keys that programs create
    WriteStops,               \* after how many writes a save can fail, a large number for never
    MaxEdits,                 \* keys and values created in one run
    MaxStarts                 \* starts of the machine in one run

ASSUME RegistryAssumption ==
    /\ Names \subseteq Nat \ {0} /\ Software \in Nat \ {0} /\ Magic \in Nat \ {0, 1}
    /\ Payloads \subseteq Seq(Nat)
    /\ WriteStops \subseteq Nat
    /\ {REGISTRY_MAX_VALUE_SIZE, REGISTRY_MAX_DEPTH, MaxKeyDepth, MaxEdits, MaxStarts}
          \subseteq Nat

Hives == {"hkr", "hku"}
NoKey == [name |-> 0, values |-> <<>>, child_keys |-> <<>>]   \* a NULL pointer
NoFile == <<0, 0>>                                            \* the path names no file

VARIABLES
    hive,      \* hive[h]: the tree of hkey_root and of hkey_user
    disk,      \* disk[h]: the cells of the hive's file, or NoFile
    loaded,    \* the hive paths are known, the machine runs
    stored,    \* stored[h]: the tree whose export was the last to change the file
    edits,     \* keys and values created so far
    starts     \* starts of the machine

registryVars == <<hive, disk, loaded, stored, edits, starts>>

RegistryInit ==
    /\ hive = [h \in Hives |-> NoKey]
    /\ disk = [h \in Hives |-> NoFile]
    /\ stored = [h \in Hives |-> NoKey]
    /\ loaded = FALSE /\ edits = 0 /\ starts = 0

----------------------------------------------------------------------------
(* The tree.  Lists grow at their front.                                   *)

NewKey(name) == [name |-> name, values |-> <<>>, child_keys |-> <<>>]

\* registry_create_key and registry_create_value below an existing key.
registry_create_key(parent, key) ==
    [parent EXCEPT !.child_keys = <<key>> \o @]

registry_create_value(parent, name, data) ==
    [parent EXCEPT !.values = <<[name |-> name, data |-> data]>> \o @]

\* registry_get_key and registry_get_value find the first one of that name.
FirstNamed(list, name) == SelectInSeq(list, LAMBDA x : x.name = name)
registry_get_key(parent, name) == FirstNamed(parent.child_keys, name)
registry_get_value(parent, name) == FirstNamed(parent.values, name)

\* registry_free_key releases a tree with everything below it.
registry_free_key(root) == NoKey

\* The key that path leads to from key, and key with that one replaced.
RECURSIVE AtPath(_, _)
AtPath(key, path) ==
    IF path = <<>> THEN key ELSE AtPath(key.child_keys[Head(path)], Tail(path))

RECURSIVE Replaced(_, _, _)
Replaced(key, path, new) ==
    IF path = <<>> THEN new
    ELSE [key EXCEPT !.child_keys[Head(path)] = Replaced(@, Tail(path), new)]

RECURSIVE Paths(_)
Paths(key) ==
    {<<>>} \cup UNION {{<<i>> \o p : p \in Paths(key.child_keys[i])} :
                          i \in DOMAIN key.child_keys}

----------------------------------------------------------------------------
(* Export.                                                                 *)

\* registry_export_key_recursive: a value list with its length, then the
\* child keys with theirs.
ValueCells(v) == <<v.name, Len(v.data)>> \o v.data

RECURSIVE registry_export_key_recursive(_)
registry_export_key_recursive(key) ==
    <<key.name, Len(key.values)>>
      \o FlattenSeq([i \in DOMAIN key.values |-> ValueCells(key.values[i])])
      \o <<Len(key.child_keys)>>
      \o FlattenSeq([i \in DOMAIN key.child_keys |->
                        registry_export_key_recursive(key.child_keys[i])])

\* registry_calculate_key_size_recursive counts the same cells beforehand.
RECURSIVE registry_calculate_key_size_recursive(_)
registry_calculate_key_size_recursive(key) ==
    3 + FoldLeft(LAMBDA sum, v : sum + 2 + Len(v.data), 0, key.values)
      + FoldLeft(LAMBDA sum, k : sum + registry_calculate_key_size_recursive(k), 0,
                 key.child_keys)

\* registry_calculate_total_export_size and the magic: the size of the file.
TotalSize(root) ==
    2 + (IF root = NoKey THEN 0 ELSE registry_calculate_key_size_recursive(root))

HiveCells(root) ==
    <<Magic>> \o (IF root = NoKey THEN <<0>>
                  ELSE <<1>> \o registry_export_key_recursive(root))

\* vfs_truncate keeps what is there and fills what is new with zeros.
vfs_truncate(file, size) ==
    LET old == IF file = NoFile THEN <<>> ELSE file
    IN  [i \in 1..size |-> IF i <= Len(old) THEN old[i] ELSE 0]

\* registry_hive_export when the first n writes succeed: the file is sized and
\* then overwritten from its start; a write past its end makes it longer.
registry_hive_export(root, file, n) ==
    LET cells == HiveCells(root)
        sized == vfs_truncate(file, TotalSize(root))
        len == IF n < Len(cells) THEN n ELSE Len(cells)
    IN  [ok |-> n >= Len(cells),
         file |-> [i \in 1..(IF len > Len(sized) THEN len ELSE Len(sized)) |->
                      IF i <= len THEN cells[i] ELSE sized[i]]]

----------------------------------------------------------------------------
(* Import.                                                                 *)

Failed == [ok |-> FALSE, key |-> NoKey, at |-> 0]

\* The values of a key: each is checked against the size limit before its
\* data is read, and linked at the front of the list.
RECURSIVE ReadValues(_, _, _, _)
ReadValues(file, at, count, key) ==
    IF count = 0 THEN [ok |-> TRUE, key |-> key, at |-> at]
    ELSE IF at + 1 > Len(file) THEN Failed
    ELSE LET size == file[at + 1]
         IN  IF size > REGISTRY_MAX_VALUE_SIZE \/ at + 1 + size > Len(file) THEN Failed
             ELSE ReadValues(file, at + 2 + size, count - 1,
                    registry_create_value(key, file[at], SubSeq(file, at + 2, at + 1 + size)))

\* variant: the depth of a key is not checked
AnyDepth(depth) == TRUE

\* The depth limit of an import.
DepthAllowed(depth) == depth <= REGISTRY_MAX_DEPTH

\* registry_import_key_recursive: one key with its values and its children;
\* any failure fails the whole import.
RECURSIVE registry_import_key_recursive(_, _, _)
RECURSIVE ReadChildren(_, _, _, _, _)
ReadChildren(file, at, count, key, depth) ==
    IF count = 0 THEN [ok |-> TRUE, key |-> key, at |-> at]
    ELSE LET child == registry_import_key_recursive(file, at, depth + 1)
         IN  IF ~child.ok THEN Failed
             ELSE ReadChildren(file, child.at, count - 1,
                               registry_create_key(key, child.key), depth)

registry_import_key_recursive(file, at, depth) ==
    IF ~DepthAllowed(depth) \/ at + 1 > Len(file) THEN Failed
    ELSE LET values == ReadValues(file, at + 2, file[at + 1], NewKey(file[at]))
         IN  IF ~values.ok \/ values.at > Len(file) THEN Failed
             ELSE ReadChildren(file, values.at + 1, file[values.at], values.key, depth)

\* registry_hive_import: the magic is checked before the tree in memory goes;
\* a failure after that leaves the hive empty.
registry_hive_import(old, file) ==
    IF file = NoFile \/ Len(file) < 1 \/ file[1] # Magic THEN [ok |-> FALSE, root |-> old]
    ELSE IF Len(file) < 2 THEN [ok |-> FALSE, root |-> registry_free_key(old)]
    ELSE IF file[2] = 0 THEN [ok |-> TRUE, root |-> registry_free_key(old)]
    ELSE LET read == registry_import_key_recursive(file, 3, 0)
         IN  [ok |-> read.ok, root |-> read.key]

----------------------------------------------------------------------------
(* Start and shutdown.                                                     *)

\* The tree a hive starts with when it cannot be read.
DefaultHive(h, root) ==
    LET kept == IF root = NoKey THEN NewKey(1) ELSE root
    IN  IF h = "hkr" /\ registry_get_key(kept, Software) = 0
        THEN registry_create_key(kept, NewKey(Software)) ELSE kept

\* One hive of registry_hive_initiate: a file that cannot be read (or for
\* which there was no memory: unread) is removed and made again, n writes of
\* the new one succeeding.
Initiated(h, unread, n) ==
    LET import == IF unread THEN [ok |-> FALSE, root |-> NoKey]
                  ELSE registry_hive_import(hive[h], disk[h])
        root == DefaultHive(h, import.root)
        export == registry_hive_export(root, <<>>, n)
    IN  IF import.ok THEN [root |-> import.root, file |-> disk[h], stored |-> stored[h]]
        ELSE [root |-> root, file |-> export.file,
              stored |-> IF export.ok THEN root ELSE NoKey]

\* registry_hive_initiate, once when the machine starts.
registry_hive_initiate ==
    /\ ~loaded /\ starts < MaxStarts
    /\ loaded' = TRUE /\ starts' = starts + 1
    /\ \E unread \in [Hives -> BOOLEAN], n \in [Hives -> WriteStops] :
          LET done == [h \in Hives |-> Initiated(h, unread[h], n[h])]
          IN  /\ hive' = [h \in Hives |-> done[h].root]
              /\ disk' = [h \in Hives |-> done[h].file]
              /\ stored' = [h \in Hives |-> done[h].stored]
    /\ UNCHANGED edits

\* A program makes a key or a value where there is none of that name.
CreateKey(h) ==
    /\ loaded /\ edits < MaxEdits /\ hive[h] # NoKey
    /\ \E path \in Paths(hive[h]), name \in Names :
          LET parent == AtPath(hive[h], path)
          IN  /\ Len(path) < MaxKeyDepth
              /\ registry_get_key(parent, name) = 0
              /\ hive' = [hive EXCEPT ![h] =
                             Replaced(@, path, registry_create_key(parent, NewKey(name)))]
    /\ edits' = edits + 1
    /\ UNCHANGED <<disk, loaded, stored, starts>>

CreateValue(h) ==
    /\ loaded /\ edits < MaxEdits /\ hive[h] # NoKey
    /\ \E path \in Paths(hive[h]), name \in Names, data \in Payloads :
          LET parent == AtPath(hive[h], path)
          IN  /\ registry_get_value(parent, name) = 0
              /\ hive' = [hive EXCEPT ![h] =
                             Replaced(@, path, registry_create_value(parent, name, data))]
    /\ edits' = edits + 1
    /\ UNCHANGED <<disk, loaded, stored, starts>>

\* variant: the second hive is only saved when the first one was
StopsAtFailure(exports, h) == h = "hku" /\ ~exports["hkr"].ok

\* registry_hive_save_all saves both even if the first one fails.
Skipped(exports, h) == FALSE

\* registry_hive_save_all, at shutdown; a power failure in it is a save whose
\* writes stop, followed by PowerOff.
registry_hive_save_all ==
    /\ loaded
    /\ \E n \in [Hives -> WriteStops] :
          LET exports == [h \in Hives |-> registry_hive_export(hive[h], disk[h], n[h])]
          IN  /\ disk' = [h \in Hives |-> IF Skipped(exports, h) THEN disk[h]
                                          ELSE exports[h].file]
              /\ stored' = [h \in Hives |->
                               IF exports[h].ok THEN hive[h] ELSE NoKey]
    /\ UNCHANGED <<hive, loaded, edits, starts>>

\* The machine stops, after a shutdown or without one.
PowerOff ==
    /\ loaded
    /\ loaded' = FALSE
    /\ hive' = [h \in Hives |-> NoKey]
    /\ UNCHANGED <<disk, stored, edits, starts>>

RegistryNext ==
    \/ registry_hive_initiate
    \/ \E h \in Hives : CreateKey(h) \/ CreateValue(h)
    \/ registry_hive_save_all
    \/ PowerOff

RegistrySpec == RegistryInit /\ [][RegistryNext]_registryVars

----------------------------------------------------------------------------
(* Properties.                                                             *)

\* What a program can find in a tree: names, values and keys below a key,
\* whatever the order of the lists.
RECURSIVE Content(_)
Content(key) ==
    [name |-> key.name, values |-> ToSet(key.values),
     keys |-> {Content(key.child_keys[i]) : i \in DOMAIN key.child_keys}]

\* A tree within the limits of an import.
Importable(root) ==
    \A path \in Paths(root) :
        /\ Len(path) <= REGISTRY_MAX_DEPTH
        /\ \A i \in DOMAIN AtPath(root, path).values :
              Len(AtPath(root, path).values[i].data) <= REGISTRY_MAX_VALUE_SIZE

\* A hive whose export succeeded comes back as it was, whatever happened to
\* the other hive, however often the power failed and although every import
\* turns the lists around; the size announced to vfs_truncate is exactly what
\* is written, and a tree out of an import's limits is refused as a whole.
HivesComeBack ==
    \A h \in Hives : stored[h] # NoKey =>
        LET import == registry_hive_import(NoKey, disk[h])
        IN  /\ Len(disk[h]) = Len(HiveCells(stored[h]))
            /\ import.ok <=> Importable(stored[h])
            /\ import.ok => Content(import.root) = Content(stored[h])
            /\ ~import.ok => import.root = NoKey
=============================================================================
