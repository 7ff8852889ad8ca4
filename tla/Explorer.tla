------------------------------ MODULE Explorer ------------------------------
(***************************************************************************)
(* The file explorer (programs/explorer): windows that each show one       *)
(* folder, with a context menu whose choice arrives later than the click   *)
(* that opened it, and an edit field for renaming.  Other programs change  *)
(* the same folders at any time.                                           *)
(*                                                                         *)
(* A path is a sequence of names.  The files are listed in the order in    *)
(* which they were made; each carries an id that no name change touches.   *)
(* Window geometry is reduced to what a click hits.  The folders are those *)
(* of one mounted file system; the empty path is its root.                 *)
(***************************************************************************)
EXTENDS Integers, Sequences, FiniteSets, SequencesExt, FiniteSetsExt

CONSTANTS
    ExplorerWindows,  \* the handles explorer_create_instance may get
    FirstEntries,     \* what is on the disk at first: a sequence of entries
    TypedNames,       \* the texts a user types into an edit field
    NewNames,         \* "new_file", "new_file (1)", ... in this order
    MAX_ITEMS,
    MaxEntries,       \* most entries on the disk
    MaxActs           \* clicks, keys and changes by others in one run

ASSUME ExplorerAssumption ==
    /\ FirstEntries \in Seq([path : Seq(STRING), folder : BOOLEAN, id : Nat])
    /\ {MAX_ITEMS, MaxEntries, MaxActs} \subseteq Nat

VARIABLES
    entries,   \* the files and folders on the disk
    view,      \* view[w]: the ExplorerWindowState of an open window
    menu,      \* the context menu that is open: the window it belongs to, or 0
    doomed,    \* the paths for which a delete dialog is open
    acts,      \* clicks, keys and changes so far
    renamed    \* ghost: the last rename an explorer made, [id, asked]

explorerVars == <<entries, view, menu, doomed, acts, renamed>>

NoIndex == -1
NoItem == [name |-> "", path |-> <<>>]   \* a cleared slot of items
NotRenamed == [id |-> 0, asked |-> 0]

----------------------------------------------------------------------------
(* The disk, as the explorer uses it through the VFS.                      *)

Named(disk, path) == SelectInSeq(disk, LAMBDA e : e.path = path)
vfs_exists(disk, path) == path = <<>> \/ Named(disk, path) # 0
vfs_directory_check(disk, path) ==
    path = <<>> \/ (Named(disk, path) # 0 /\ disk[Named(disk, path)].folder)
IdAt(disk, path) == IF Named(disk, path) = 0 THEN 0 ELSE disk[Named(disk, path)].id

Inside(path, folder) == Len(path) > Len(folder) /\ IsPrefix(folder, path)
Listing(disk, folder) ==
    SelectSeq(disk, LAMBDA e : Inside(e.path, folder) /\ Len(e.path) = Len(folder) + 1)

\* variant: the new name is not looked up
NeverTaken(disk, path, name) == FALSE

\* A rename is refused when the new name is taken in the same folder.
NameTaken(disk, path, name) == vfs_exists(disk, Front(path) \o <<name>>)

vfs_rename(disk, path, name) ==
    IF Named(disk, path) = 0 \/ NameTaken(disk, path, name) THEN disk
    ELSE [i \in DOMAIN disk |->
            IF disk[i].path = path \/ Inside(disk[i].path, path)
            THEN [disk[i] EXCEPT !.path[Len(path)] = name] ELSE disk[i]]

vfs_remove(disk, path) ==
    SelectSeq(disk, LAMBDA e : e.path # path /\ ~Inside(e.path, path))

NewId(disk) == 1 + Max({0} \cup {disk[i].id : i \in DOMAIN disk})
Created(disk, path, folder) ==
    IF vfs_exists(disk, path) \/ ~vfs_directory_check(disk, Front(path)) THEN disk
    ELSE Append(disk, [path |-> path, folder |-> folder, id |-> NewId(disk)])

----------------------------------------------------------------------------
(* The state of a window.                                                  *)

\* populate_state_from_vfs: the first MAX_ITEMS items of the folder.
populate_state_from_vfs(state, disk, path) ==
    LET list == Listing(disk, path)
        n == IF Len(list) < MAX_ITEMS THEN Len(list) ELSE MAX_ITEMS
    IN  [state EXCEPT !.full_path = path, !.stale = FALSE,
            !.items = [i \in 1..n |-> [name |-> Last(list[i].path), path |-> list[i].path]]]

allocate_window_state ==
    [full_path |-> <<>>, items |-> <<>>, context_item_index |-> NoIndex,
     context_directive |-> 0, text |-> "", is_active |-> FALSE, asked |-> 0,
     stale |-> FALSE]

\* A slot of items; the slots behind the last item are cleared.
ItemAt(state, i) == IF i + 1 \in DOMAIN state.items THEN state.items[i + 1] ELSE NoItem

\* Every other window that shows a folder keeps what it read before.
Outdated(views, before, after) ==
    [w \in DOMAIN views |->
        [views[w] EXCEPT !.stale = @ \/ Listing(before, views[w].full_path)
                                          # Listing(after, views[w].full_path)]]

ExplorerInit ==
    /\ entries = FirstEntries
    /\ view = [w \in {} |-> allocate_window_state]
    /\ menu = 0 /\ doomed = {} /\ acts = 0 /\ renamed = NotRenamed

Acts == acts < MaxActs /\ acts' = acts + 1

\* Window w is left in state over the disk, which is not changed.
Shows(w, state) == view' = [view EXCEPT ![w] = state] /\ UNCHANGED entries

\* Window w changed the disk and read its folder again.
Changed(w, state, disk) ==
    /\ entries' = disk
    /\ view' = [Outdated(view, entries, disk)
                    EXCEPT ![w] = populate_state_from_vfs(state, disk, state.full_path)]

----------------------------------------------------------------------------
(* Opening and closing.                                                    *)

\* The state is filled before the window exists.
explorer_create_instance(w, path) ==
    view' = [x \in DOMAIN view \cup {w} |->
                IF x = w THEN populate_state_from_vfs(allocate_window_state, entries, path)
                ELSE view[x]]

\* explorer_main: an argument that is no folder opens the root.
explorer_main(w) ==
    /\ w \in ExplorerWindows \ DOMAIN view /\ Acts
    /\ \E path \in {entries[i].path : i \in DOMAIN entries} \cup {<<>>} :
          explorer_create_instance(w, IF vfs_directory_check(entries, path) THEN path ELSE <<>>)
    /\ UNCHANGED <<entries, menu, doomed, renamed>>

\* DWM_EVENT_DESTROY; the menu of the window may stay open without effect.
free_window_state(w) ==
    /\ w \in DOMAIN view /\ Acts
    /\ view' = [x \in DOMAIN view \ {w} |-> view[x]]
    /\ menu' = IF menu = w THEN 0 ELSE menu
    /\ UNCHANGED <<entries, doomed, renamed>>

----------------------------------------------------------------------------
(* Renaming.                                                               *)

\* The disk after finalize_rename of a window with an item chosen.
Finalized(state) ==
    LET item == ItemAt(state, state.context_item_index)
    IN  IF state.text = "" \/ item.path = <<>> \/ Last(item.path) = state.text THEN entries
        ELSE vfs_rename(entries, item.path, state.text)

\* variant: the items are not read again after the rename
KeepsItems(state, disk) ==
    [state EXCEPT !.is_active = FALSE, !.context_item_index = NoIndex, !.asked = 0]

\* The folder is read again and the field hidden; its text stays.
AfterRename(state, disk) ==
    [populate_state_from_vfs(state, disk, state.full_path)
        EXCEPT !.is_active = FALSE, !.context_item_index = NoIndex, !.asked = 0]

finalize_rename(w) ==
    LET state == view[w]
        disk == Finalized(state)
    IN  /\ entries' = disk
        /\ view' = [Outdated(view, entries, disk) EXCEPT ![w] = AfterRename(state, disk)]
        /\ renamed' = IF disk = entries THEN renamed
                      ELSE [id |-> IdAt(entries, ItemAt(state, state.context_item_index).path),
                            asked |-> state.asked]

----------------------------------------------------------------------------
(* DWM_EVENT_MOUSE.  A click outside an open menu closes it first and then *)
(* reaches the window.                                                     *)

BackPlace == -2
BlankPlace == -3
Targets(state) == {BackPlace, BlankPlace} \cup {i - 1 : i \in DOMAIN state.items}

\* The click is outside the tile of the chosen item.
Away(state, target) ==
    state.context_item_index # NoIndex /\ target # state.context_item_index

\* It goes on to what it hits: no item is chosen, or it is in the tile of the
\* chosen one, which is blank when that item is gone.
GoesOn(state, target) ==
    \/ ~Away(state, target)
    \/ target = BlankPlace /\ state.context_item_index >= Len(state.items)

\* A click that ends there: the left button away from the chosen item, or the
\* right one on the back button.
ClickAway(w) ==
    /\ w \in DOMAIN view /\ Acts
    /\ \E target \in Targets(view[w]) : Away(view[w], target)
    /\ finalize_rename(w)
    /\ menu' = 0
    /\ UNCHANGED doomed

\* The left button on the back button, an item or nothing.
BackButton(w, state) ==
    IF state.full_path = <<>> THEN Shows(w, state)
    ELSE Shows(w, populate_state_from_vfs(state, entries, Front(state.full_path)))

\* A file is opened by another program, a folder in the window.
OpenedHere(state, item) ==
    IF vfs_directory_check(entries, item.path)
    THEN populate_state_from_vfs(state, entries, item.path) ELSE state

LeftClick(w) ==
    /\ w \in DOMAIN view /\ Acts
    /\ \E target \in Targets(view[w]), double \in BOOLEAN :
          /\ GoesOn(view[w], target)
          /\ \/ target = BackPlace /\ BackButton(w, view[w])
             \/ target = BlankPlace /\ Shows(w, view[w])
             \/ /\ target \notin {BackPlace, BlankPlace}
                /\ Shows(w, IF double THEN OpenedHere(view[w], ItemAt(view[w], target)) ELSE view[w])
    /\ menu' = 0
    /\ UNCHANGED <<doomed, renamed>>

\* The right button opens the menu of an item or of the window.
MenuOpened(state, target) ==
    IF target = BlankPlace THEN [state EXCEPT !.context_item_index = NoIndex, !.context_directive = 0]
    ELSE [state EXCEPT !.context_item_index = target, !.context_directive = 1]

RightClick(w) ==
    /\ w \in DOMAIN view /\ Acts
    /\ \E target \in Targets(view[w]) \ {BackPlace} :
          /\ GoesOn(view[w], target)
          /\ Shows(w, MenuOpened(view[w], target))
    /\ menu' = w
    /\ UNCHANGED <<doomed, renamed>>

\* Away from the chosen item it ends the rename first; the click then hits an
\* item of the list as it was read again.
RightClickAway(w) ==
    /\ w \in DOMAIN view /\ Acts
    /\ \E target \in Targets(view[w]) \ {BackPlace} :
          LET disk == Finalized(view[w])
              after == AfterRename(view[w], disk)
              hit == IF target \in Targets(after) THEN target ELSE BlankPlace
          IN  /\ Away(view[w], target)
              /\ entries' = disk
              /\ view' = [Outdated(view, entries, disk) EXCEPT ![w] = MenuOpened(after, hit)]
              /\ renamed' = IF disk = entries THEN renamed
                    ELSE [id |-> IdAt(entries, ItemAt(view[w], view[w].context_item_index).path),
                          asked |-> view[w].asked]
    /\ menu' = w
    /\ UNCHANGED doomed

----------------------------------------------------------------------------
(* DWM_EVENT_KEYBOARD goes to the focused window, whether or not a menu is *)
(* open and whether or not the field is visible.                           *)

TypeName(w) ==
    /\ w \in DOMAIN view /\ Acts
    /\ \E text \in TypedNames : Shows(w, [view[w] EXCEPT !.text = text])
    /\ UNCHANGED <<menu, doomed, renamed>>

Enter(w) ==
    /\ w \in DOMAIN view /\ Acts
    /\ IF view[w].context_item_index = NoIndex THEN UNCHANGED <<entries, view, renamed>>
       ELSE finalize_rename(w)
    /\ UNCHANGED <<menu, doomed>>

\* DWM_EVENT_REFRESH
Refresh(w) ==
    /\ w \in DOMAIN view /\ Acts
    /\ Shows(w, populate_state_from_vfs(view[w], entries, view[w].full_path))
    /\ UNCHANGED <<menu, doomed, renamed>>

----------------------------------------------------------------------------
(* DWM_EVENT_CONTEXT_MENU: the choice, handled with the index and the      *)
(* directive the window has by then.                                       *)

generate_unique_name(state, disk) ==
    LET free == {i \in DOMAIN NewNames : ~vfs_exists(disk, state.full_path \o <<NewNames[i]>>)}
    IN  IF free = {} THEN Last(NewNames) ELSE NewNames[Min(free)]

Unchosen(state) == [state EXCEPT !.context_item_index = NoIndex]

\* New Folder and New File; Refresh and Paste read the folder again as well,
\* and what is pasted arrives later; Properties opens a window.
WindowMenu(w) ==
    /\ menu = w /\ w \in DOMAIN view /\ view[w].context_directive = 0 /\ Acts
    /\ menu' = 0
    /\ \/ \E folder \in BOOLEAN :
             /\ Len(entries) < MaxEntries
             /\ Changed(w, view[w], Created(entries,
                    view[w].full_path \o <<generate_unique_name(view[w], entries)>>, folder))
       \/ Changed(w, view[w], entries)
       \/ Changed(w, Unchosen(view[w]), entries)
       \/ Shows(w, Unchosen(view[w]))
    /\ UNCHANGED <<doomed, renamed>>

\* The item the menu is about.  Nothing checks that the index still names one:
\* behind the last item is a cleared slot, and before the first one whatever
\* the heap holds there.
Chosen(state) ==
    IF state.context_item_index # NoIndex THEN {ItemAt(state, state.context_item_index)}
    ELSE {NoItem} \cup {[name |-> "", path |-> entries[i].path] : i \in DOMAIN entries}

OpenItem(w, item) ==
    /\ Shows(w, Unchosen(OpenedHere(view[w], item)))
    /\ UNCHANGED doomed

CutCopyProperties(w) ==
    /\ Shows(w, Unchosen(view[w]))
    /\ UNCHANGED doomed

DeleteItem(w, item) ==
    /\ Shows(w, Unchosen(view[w]))
    /\ doomed' = doomed \cup {item.path}

\* Rename: the field is shown with the name, the item's own is cleared.
RenameItem(w, item) ==
    LET i == view[w].context_item_index
        cleared == [j \in DOMAIN view[w].items |->
                       IF j = i + 1 THEN [view[w].items[j] EXCEPT !.name = ""]
                       ELSE view[w].items[j]]
    IN  /\ i # NoIndex
        /\ Shows(w, [view[w] EXCEPT !.text = item.name, !.is_active = TRUE,
                        !.items = cleared, !.asked = IdAt(entries, item.path)])
        /\ UNCHANGED doomed

ItemMenu(w) ==
    /\ menu = w /\ w \in DOMAIN view /\ view[w].context_directive = 1 /\ Acts
    /\ menu' = 0
    /\ \E item \in Chosen(view[w]) :
          OpenItem(w, item) \/ CutCopyProperties(w) \/ DeleteItem(w, item) \/ RenameItem(w, item)
    /\ UNCHANGED renamed

----------------------------------------------------------------------------
(* The delete dialog and the other programs.                               *)

DeleteConfirmed ==
    /\ doomed # {} /\ Acts
    /\ \E path \in doomed :
          /\ doomed' = doomed \ {path}
          /\ entries' = IF path = <<>> THEN entries ELSE vfs_remove(entries, path)
          /\ view' = Outdated(view, entries, entries')
    /\ UNCHANGED <<menu, renamed>>

OtherPrograms ==
    /\ Acts
    /\ \/ \E i \in DOMAIN entries : entries' = vfs_remove(entries, entries[i].path)
       \/ \E i \in DOMAIN entries, n \in TypedNames :
             n # "" /\ entries' = vfs_rename(entries, entries[i].path, n)
    /\ view' = Outdated(view, entries, entries')
    /\ UNCHANGED <<menu, doomed, renamed>>

ExplorerNext ==
    \/ \E w \in ExplorerWindows :
          \/ explorer_main(w) \/ free_window_state(w)
          \/ ClickAway(w) \/ LeftClick(w) \/ RightClick(w) \/ RightClickAway(w)
          \/ TypeName(w) \/ Enter(w) \/ Refresh(w) \/ WindowMenu(w) \/ ItemMenu(w)
    \/ DeleteConfirmed \/ OtherPrograms

ExplorerSpec == ExplorerInit /\ [][ExplorerNext]_explorerVars

----------------------------------------------------------------------------
(* Properties.                                                             *)

\* A window shows its folder: whatever it did itself (a rename, a new file,
\* a refresh, going back) is in its list, in the disk's order, unless another
\* program or another window changed the folder since; a name is only blank
\* while the field for the new one is visible.  No two entries of a folder have one name.
FolderIsShown ==
    /\ \A w \in DOMAIN view :
          LET list == Listing(entries, view[w].full_path)
              shown == view[w].items
          IN  ~view[w].stale =>
                /\ [i \in DOMAIN shown |-> shown[i].path] =
                       [i \in DOMAIN shown |-> list[i].path]
                /\ Len(shown) = Min({Len(list), MAX_ITEMS})
                /\ \A i \in DOMAIN shown : shown[i].name = Last(shown[i].path)
                      \/ (shown[i].name = "" /\ view[w].is_active)
    /\ \A i, j \in DOMAIN entries : entries[i].path = entries[j].path => i = j

\* finalize_rename says that the item's name was cleared when the rename
\* started: only the item for which Rename was chosen is renamed.
RenamesWhatWasAsked == renamed.id = renamed.asked
=============================================================================
