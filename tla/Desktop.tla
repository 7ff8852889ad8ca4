------------------------------ MODULE Desktop ------------------------------
(***************************************************************************)
(* The desktop: one frame of dwm_update (dwm/dwm_update.c) over the data   *)
(* of Windows, with the mouse (dwm/dwm_mouse.c), drags                     *)
(* (dwm/dwm_drag_drop.c), context menus (dwm/dwm_events.c,                 *)
(* dwm/dwm_context_menu.c), the rename box (dwm/dwm_rename.c), the icons   *)
(* (dwm/dwm.c), and the procedures of the task bar, the start menu, the    *)
(* message box and the delete dialog (dwm/windows/).                       *)
(*                                                                         *)
(* A frame is: announce the change of focus, dispatch every message, take  *)
(* every queued mouse event, draw.  Between frames other threads run under *)
(* the same lock: keys are delivered, programs open windows, the copy      *)
(* thread adds and removes icons.                                          *)
(*                                                                         *)
(* Geometry is left out: the pointer of a mouse event is over some place,  *)
(* and what a message's coordinates hit is a choice of its procedure.  A   *)
(* file of the desktop directory and the label of its icon are one name.   *)
(***************************************************************************)
EXTENDS Windows, TLC

CONSTANTS
    MaxIcons,      \* icons created in one run
    FileNames,     \* names of items of the desktop directory
    Mounts,        \* the names that are mounted devices
    FirstIcons,    \* the icons the boot puts on the desktop, by name
    MaxInputs      \* keys, mouse events and calls of other threads in one run

ASSUME DesktopAssumption ==
    /\ MaxIcons \in Nat /\ MaxInputs \in Nat
    /\ Mounts \subseteq FileNames
    /\ FirstIcons \in Seq(FileNames) /\ Len(FirstIcons) <= MaxIcons

VARIABLES
    dwm,           \* the window manager's structures, see Windows
    phase,         \* where thread_dwm_main is in a frame
    inputs         \* how many inputs were taken

deskVars == <<dwm, phase, inputs>>

Icons == 1..MaxIcons
IconSet(d) == ToSet(d.icons)

\* dwm_initiate and the boot's icons: the task bar is the first window.
dwm_initiate ==
    dwm_allocate_window(
        NoWindows @@
        [icons |-> [i \in DOMAIN FirstIcons |-> i],
         path |-> [i \in Icons |-> IF i \in DOMAIN FirstIcons THEN FirstIcons[i] ELSE "none"],
         files |-> ToSet(FirstIcons),
         focused_icon |-> 0, last_focused_icon |-> 0, dragged_icon |-> 0,
         rename |-> 0, text |-> "none", menu |-> "none", handle |-> 0,
         start_menu_handle |-> 0, left |-> FALSE, right |-> FALSE,
         last_left |-> FALSE, last_right |-> FALSE, drag_pending |-> FALSE],
        "taskbar")

DesktopInit == phase = "idle" /\ inputs = 0 /\ dwm = dwm_initiate

----------------------------------------------------------------------------
(* Icons and the rename box.                                               *)

\* dwm_create_icon: a new icon is the last one.
dwm_create_icon(d, i) == [d EXCEPT !.icons = Append(@, i)]

\* dwm_create_file, dwm_create_folder and dwm_create_mount differ in the image.
dwm_create_file(d, name) ==
    LET i == CHOOSE j \in Icons : j \notin IconSet(d)
    IN  [dwm_create_icon(d, i) EXCEPT !.path[i] = name]

rename_end(d) == [d EXCEPT !.rename = 0, !.text = "none"]

\* variant: the rename box is not told
KeepsRename(d, i) ==
    [d EXCEPT !.focused_icon = IF @ = i THEN 0 ELSE @,
              !.last_focused_icon = IF @ = i THEN 0 ELSE @,
              !.dragged_icon = IF @ = i THEN 0 ELSE @,
              !.icons = Remove(@, i), !.path[i] = "none"]

\* dwm_destroy_icon: the rename box, the focus and the drag forget the icon
\* before it is freed.
dwm_destroy_icon(d, i) ==
    LET d1 == IF d.rename = i THEN rename_end(d) ELSE d
    IN  IF i \notin IconSet(d) THEN d
        ELSE [d1 EXCEPT !.focused_icon = IF @ = i THEN 0 ELSE @,
                        !.last_focused_icon = IF @ = i THEN 0 ELSE @,
                        !.dragged_icon = IF @ = i THEN 0 ELSE @,
                        !.icons = Remove(@, i), !.path[i] = "none"]

dwm_summon_message_box(d) == dwm_allocate_window(d, "box")

\* vfs_rename takes a name no item has.
RenameAllowed(d, from, to) == from \in d.files /\ to \notin d.files

\* dwm_desktop_rename_commit: the box closes whatever becomes of the name.
dwm_desktop_rename_commit(d) ==
    LET icon == d.rename
        old == d.path[icon]
        closed == rename_end(d)
    IN  IF icon = 0 THEN d
        ELSE IF d.text \in {"", old} THEN closed
        ELSE IF ~RenameAllowed(d, old, d.text) THEN dwm_summon_message_box(closed)
        ELSE [closed EXCEPT !.path[icon] = d.text,
                            !.files = (@ \ {old}) \cup {d.text}]

\* dwm_desktop_rename_begin: one rename at a time, and not of a device.
dwm_desktop_rename_begin(d, icon) ==
    LET d1 == dwm_desktop_rename_commit(d)
    IN  IF d.rename = icon THEN d
        ELSE IF d1.path[icon] \in Mounts THEN dwm_summon_message_box(d1)
        ELSE [d1 EXCEPT !.rename = icon, !.text = d1.path[icon],
                        !.dragged_icon = IF @ = icon THEN 0 ELSE @]

\* dwm_desktop_rename_key: while the box is open it takes every key; t is
\* what the box holds after a character or a backspace.
dwm_desktop_rename_key(d, key, t) ==
    CASE key = "enter" -> dwm_desktop_rename_commit(d)
      [] key = "escape" -> rename_end(d)
      [] key = "text" -> [d EXCEPT !.text = t]
      [] OTHER -> d

----------------------------------------------------------------------------
(* Context menus.                                                          *)

dwm_create_context_menu(d, directive) == [d EXCEPT !.menu = directive]

\* dwm_summon_context_menu, called by the procedure of a window.
dwm_summon_context_menu(d, w) ==
    IF w \notin Live(d) THEN d
    ELSE dwm_create_context_menu([d EXCEPT !.handle = w], "USER")

\* dwm_desktop_create_file and dwm_desktop_create_folder: a name nobody has,
\* the item, and its icon.
dwm_desktop_create(d) ==
    IF FileNames \subseteq d.files \/ Len(d.icons) = MaxIcons THEN d
    ELSE LET name == CHOOSE n \in FileNames : n \notin d.files
         IN  dwm_create_file([d EXCEPT !.files = @ \cup {name}], name)

DesktopMenu == {"refresh", "new", "paste", "properties"}
IconMenu == {"open", "cut", "rename", "delete", "properties"}

\* dwm_desktop_context_callback.
dwm_desktop_context_callback(d, item) ==
    CASE item = "new" -> dwm_desktop_create(d)
      [] item = "properties" -> dwm_summon_message_box(d)
      [] OTHER -> d

\* dwm_summon_dialog_delete.
dwm_summon_dialog_delete(d, path) ==
    dwm_window_resource_add(dwm_allocate_window(d, "dialog"), d.next_window_id, path)

\* dwm_icon_context_callback: nothing without a focused icon.
dwm_icon_context_callback(d, item) ==
    LET icon == d.focused_icon
    IN  CASE icon = 0 \/ item \in {"open", "cut"} -> d
          [] icon # 0 /\ item = "rename" -> dwm_desktop_rename_begin(d, icon)
          [] icon # 0 /\ item = "delete" -> dwm_summon_dialog_delete(d, d.path[icon])
          [] icon # 0 /\ item = "properties" -> dwm_allocate_window(d, "app")

\* dwm_process_context_menu_events.  The owner of a user menu is kept as a
\* pointer: when that window is gone the handle is read from freed memory.
dwm_process_context_menu_events(d, item, garbage) ==
    CASE d.menu = "USER" ->
            dwm_post_message(d, IF d.handle \in Live(d) THEN d.handle ELSE garbage,
                             "CONTEXT_MENU", FALSE)
      [] d.menu = "DESKTOP" -> dwm_desktop_context_callback(d, item)
      [] d.menu = "ICON" -> dwm_icon_context_callback(d, item)

----------------------------------------------------------------------------
(* Clicks.  A place is what the pointer is over.                           *)

WindowParts(kind) ==
    CASE kind \in {"taskbar", "start"} -> {"client"}
      [] kind \in {"box", "dialog"} -> {"close", "title", "client"}
      [] kind = "app" -> {"close", "minimize", "resize", "title", "client"}

Place(at, on, part, again) == [at |-> at, on |-> on, part |-> part, again |-> again]

\* The places there are; "again" says that a second click is quick enough
\* for a double click, or that the pointer moved.
Places(d) ==
    {Place("menu", g, item, FALSE) :
        g \in IF d.menu = "USER" /\ d.handle \notin Live(d) THEN 0..MaxWindows ELSE {0},
        item \in CASE d.menu = "none" -> {}
                   [] d.menu = "USER" -> {"item", "edge"}
                   [] d.menu = "DESKTOP" -> DesktopMenu \cup {"edge"}
                   [] d.menu = "ICON" -> IconMenu \cup {"edge"}}
    \cup {Place("box", 0, "", FALSE) : b \in IF d.rename = 0 THEN {} ELSE {0}}
    \cup UNION {{Place("window", w, part, FALSE) : part \in WindowParts(d.kind[w])} :
                w \in Live(d)}
    \cup {Place("icon", i, "", again) : i \in IconSet(d), again \in BOOLEAN}
    \cup {Place("desktop", 0, "", FALSE)}

\* The top-level window over a child.
RECURSIVE RootOf(_, _)
RootOf(d, w) == IF d.parent[w] = 0 THEN w ELSE RootOf(d, d.parent[w])

\* dwm_handle_window_clicks.
dwm_handle_window_clicks(d, w, part, new_left) ==
    LET posted == dwm_post_message(d, w, "MOUSE", d.left)
        root == RootOf(d, w)
        d1 == IF dwm_get_focused_window(posted) = root THEN posted
              ELSE dwm_set_focus(posted, root)
    IN  CASE part = "resize" -> [d1 EXCEPT !.dragged_resizing = w]
          [] part = "close" /\ new_left -> dwm_post_message(d1, w, "CLOSE", FALSE)
          [] part = "minimize" /\ new_left -> dwm_post_message(d1, w, "MINIMIZE", FALSE)
          [] part = "title" /\ new_left -> [d1 EXCEPT !.dragged_window = w]
          [] part = "client" /\ new_left -> [d1 EXCEPT !.captured_window = w]
          [] OTHER -> d1

\* dwm_handle_icon_clicks, after dwm_set_desktop_focus.
dwm_handle_icon_clicks(d, p, new_left) ==
    LET d1 == [d EXCEPT !.focused_icon = p.on]
    IN  IF p.at = "icon" /\ p.on \in IconSet(d)
        THEN IF ~new_left THEN dwm_create_context_menu(d1, "ICON")
             ELSE IF p.again /\ p.on = d.last_focused_icon
             THEN [d1 EXCEPT !.focused_icon = 0, !.last_focused_icon = 0,
                             !.dragged_icon = 0]
             ELSE [d1 EXCEPT !.dragged_icon = p.on, !.last_focused_icon = p.on]
        ELSE IF new_left THEN [d EXCEPT !.last_focused_icon = 0]
        ELSE dwm_create_context_menu(d, "DESKTOP")

\* dwm_handle_context_menu_clicks, on the menu: a left click on an item
\* chooses it, any click closes the menu.
dwm_handle_context_menu_clicks(d, p, new_left) ==
    [IF new_left /\ p.part # "edge"
     THEN dwm_process_context_menu_events(d, p.part, p.on) ELSE d EXCEPT !.menu = "none"]

\* dwm_update_mouse: the context menu first, then the rename box, the
\* windows, and the desktop.
dwm_update_mouse(d, p) ==
    LET new_left == d.left /\ ~d.last_left
        new_right == d.right /\ ~d.last_right
        committed == dwm_desktop_rename_commit([d EXCEPT !.menu = "none"])
    IN  IF ~new_left /\ ~new_right THEN d
        ELSE IF p.at = "menu" THEN dwm_handle_context_menu_clicks(d, p, new_left)
        ELSE IF p.at = "box" THEN [d EXCEPT !.menu = "none"]
        ELSE IF p.at = "window" THEN dwm_handle_window_clicks(committed, p.on, p.part, new_left)
        ELSE dwm_handle_icon_clicks([committed EXCEPT !.desktop_focused = TRUE], p, new_left)

\* A drag goes on while the left button is down and ends when it is up:
\* dwm_update_window_dragging and dwm_update_icon_dragging move what is held,
dwm_update_window_dragging(d) == [d EXCEPT !.dragged_window = IF d.left THEN @ ELSE 0]

dwm_update_icon_dragging(d) == [d EXCEPT !.dragged_icon = IF d.left THEN @ ELSE 0]

\* dwm_update_window_resizing tells the window of a new size,
dwm_update_window_resizing(d, moved) ==
    IF ~d.left THEN [d EXCEPT !.dragged_resizing = 0]
    ELSE IF moved THEN dwm_window_send_event(d, d.dragged_resizing, "RESIZE") ELSE d

\* and dwm_update_window_capture of every motion, and of the end of the drag.
dwm_update_window_capture(d, moved) ==
    IF ~d.left THEN [dwm_post_message(d, d.captured_window, "MOUSE_UP", FALSE)
                        EXCEPT !.captured_window = 0]
    ELSE IF moved THEN dwm_post_message(d, d.captured_window, "MOUSE_MOVE", TRUE)
    ELSE d

Dragging(d) == \/ d.dragged_window # 0 \/ d.dragged_resizing # 0
               \/ d.dragged_icon # 0 \/ d.captured_window # 0

\* dwm_apply_mouse_state.
dwm_apply_mouse_state(d, p) ==
    IF d.dragged_window # 0 THEN dwm_update_window_dragging(d)
    ELSE IF d.dragged_resizing # 0 THEN dwm_update_window_resizing(d, p.again)
    ELSE IF d.dragged_icon # 0 THEN dwm_update_icon_dragging(d)
    ELSE IF d.captured_window # 0 THEN dwm_update_window_capture(d, p.again)
    ELSE dwm_update_mouse(d, p)

\* The body of dwm_update's loop over the mouse events: motion during a drag
\* is put off, and applied before a button changes.
MouseEvent(d, left, right, p) ==
    LET changed == left # d.left \/ right # d.right
        flushed == IF d.drag_pending /\ changed
                   THEN [dwm_apply_mouse_state(d, p) EXCEPT !.drag_pending = FALSE]
                   ELSE d
        d1 == [flushed EXCEPT !.left = left, !.right = right]
    IN  IF Dragging(d) /\ ~changed THEN [d1 EXCEPT !.drag_pending = TRUE]
        ELSE dwm_apply_mouse_state(d1, p)

----------------------------------------------------------------------------
(* Window procedures.  c is what the coordinates or the key of a message   *)
(* hit.                                                                    *)

dwm_start_menu_is_open(d) == d.start_menu_handle \in Live(d)

\* dwm_start_menu_open: one start menu at a time.
dwm_start_menu_open(d) ==
    LET w == d.next_window_id
        d1 == dwm_allocate_window(d, "start")
    IN  IF dwm_start_menu_is_open(d) \/ w > MaxWindows THEN d
        ELSE dwm_window_send_event([d1 EXCEPT !.start_menu_handle = w], 1, "REDRAW")

dwm_start_menu_close(d) ==
    IF dwm_start_menu_is_open(d)
    THEN dwm_window_send_event(d, d.start_menu_handle, "CLOSE") ELSE d

dwm_start_menu_toggle(d) ==
    IF dwm_start_menu_is_open(d) THEN dwm_start_menu_close(d) ELSE dwm_start_menu_open(d)

callback_taskbar_handler(d, m, c) ==
    IF m.message = "MOUSE" /\ m.left /\ c = "yes" THEN dwm_start_menu_toggle(d) ELSE d

\* callback_start_menu_handler: an item closes the menu and acts; some items
\* open a message box, the others send a kernel event.
callback_start_menu_handler(d, m, w, c) ==
    CASE m.message = "MOUSE" /\ m.left /\ c = "yes" -> dwm_start_menu_close(d)
      [] m.message = "MOUSE" /\ m.left /\ c = "no" ->
             dwm_summon_message_box(dwm_start_menu_close(d))
      [] m.message = "KEYBOARD" /\ c = "yes" -> dwm_start_menu_close(d)
      [] m.message = "FOCUS_LOST" -> dwm_start_menu_close(d)
      [] m.message = "DESTROY" ->
             dwm_window_send_event([d EXCEPT !.start_menu_handle = IF @ = w THEN 0 ELSE @],
                                   1, "REDRAW")
      [] OTHER -> d

callback_message_box_handler(d, m, w, c) ==
    IF c = "yes" /\ (m.message = "KEYBOARD" \/ (m.message = "MOUSE" /\ m.left))
    THEN dwm_window_send_event(d, w, "CLOSE") ELSE d

\* perform_icon_deletion: the first icon with the path goes even when the
\* item itself could not be removed.
perform_icon_deletion(d, w, removed) ==
    LET path == d.subject[w]
        same == {i \in IconSet(d) : d.path[i] = path}
        first == d.icons[CHOOSE k \in DOMAIN d.icons :
                            /\ d.icons[k] \in same
                            /\ \A l \in DOMAIN d.icons : d.icons[l] \in same => k <= l]
        d1 == IF removed THEN [d EXCEPT !.files = @ \ {path}] ELSE d
        d2 == IF path = "none" \/ same = {} THEN d1 ELSE dwm_destroy_icon(d1, first)
    IN  dwm_window_send_event(d2, w, "CLOSE")

callback_deletion_dialog_handler(d, m, w, c) ==
    IF m.message \notin {"MOUSE", "KEYBOARD"} THEN d
    ELSE CASE c = "yes" -> perform_icon_deletion(d, w, TRUE)
           [] c = "fail" -> perform_icon_deletion(d, w, FALSE)
           [] c = "no" -> dwm_window_send_event(d, w, "CLOSE")
           [] OTHER -> d

\* A program's procedure: it may close its window or open a menu over it.
ProgramHandler(d, m, w, c) ==
    CASE m.message = "KEYBOARD" /\ c = "yes" -> dwm_window_send_event(d, w, "CLOSE")
      [] m.message = "MOUSE" /\ ~m.left /\ c = "yes" -> dwm_summon_context_menu(d, w)
      [] OTHER -> d

Procedure(d, m, w, c) ==
    CASE d.kind[w] = "taskbar" -> callback_taskbar_handler(d, m, c)
      [] d.kind[w] = "start" -> callback_start_menu_handler(d, m, w, c)
      [] d.kind[w] = "box" -> callback_message_box_handler(d, m, w, c)
      [] d.kind[w] = "dialog" -> callback_deletion_dialog_handler(d, m, w, c)
      [] d.kind[w] = "app" -> ProgramHandler(d, m, w, c)

\* What a message can hit: only a click and a key have a choice.
Hits(d, m) ==
    IF m.hwnd \notin Live(d) \/ m.message \notin {"MOUSE", "KEYBOARD"} THEN {"none"}
    ELSE IF d.kind[m.hwnd] = "dialog" THEN {"none", "yes", "fail", "no"}
    ELSE IF d.kind[m.hwnd] = "start" THEN {"none", "yes", "no"}
    ELSE {"none", "yes"}

\* The window procedure has seen the message; told records what it knows of
\* the focus.
Told(d, m) ==
    [d EXCEPT !.told[m.hwnd] = CASE m.message = "FOCUS_GAINED" -> TRUE
                                 [] m.message = "FOCUS_LOST" -> FALSE
                                 [] OTHER -> @]

\* dwm_dispatch_message: a message for a window that is gone is dropped; a
\* CLOSE is followed by a DESTROY and by the end of the window.
dwm_dispatch_message(d, m, c) ==
    LET w == m.hwnd
        handled == Procedure(Told(d, m), m, w, c)
    IN  IF w \notin Live(d) THEN d
        ELSE IF m.message = "CLOSE"
        THEN dwm_destroy_window(Procedure(handled, [m EXCEPT !.message = "DESTROY"], w, c), w)
        ELSE handled

----------------------------------------------------------------------------
(* The frame and what happens between frames.                              *)

Bounded == inputs < MaxInputs /\ inputs' = inputs + 1

\* thread_dwm_main: a key, for the rename box or the focused window.
Key(key, t) ==
    /\ phase = "idle"
    /\ Bounded
    /\ dwm' = IF dwm.rename # 0 THEN dwm_desktop_rename_key(dwm, key, t)
              ELSE dwm_post_message(dwm, dwm_get_focused_window(dwm), "KEYBOARD", FALSE)
    /\ UNCHANGED phase

\* dwm_update begins: the change of focus is announced.
FrameStart ==
    /\ phase = "idle"
    /\ phase' = "messages"
    /\ dwm' = dwm_process_focus_change(dwm)
    /\ UNCHANGED inputs

\* dwm_get_message and dwm_dispatch_message.
Dispatch(c) ==
    /\ phase = "messages"
    /\ dwm.msgs # <<>>
    /\ c \in Hits(dwm, Head(dwm.msgs))
    /\ dwm' = dwm_dispatch_message([dwm EXCEPT !.msgs = Tail(@)], Head(dwm.msgs), c)
    /\ UNCHANGED <<phase, inputs>>

Drained ==
    /\ phase = "messages"
    /\ dwm.msgs = <<>>
    /\ phase' = "input"
    /\ UNCHANGED <<dwm, inputs>>

Mouse(left, right, p) ==
    /\ phase = "input"
    /\ Bounded
    /\ dwm' = MouseEvent(dwm, left, right, p)
    /\ UNCHANGED phase

\* The rest of dwm_update: the motion still put off is applied, the frame is
\* drawn, and the buttons are remembered for the next frame.
FrameEnd(p) ==
    /\ phase = "input"
    /\ phase' = "idle"
    /\ LET d == IF dwm.drag_pending
                THEN [dwm_apply_mouse_state(dwm, p) EXCEPT !.drag_pending = FALSE] ELSE dwm
       IN  dwm' = [d EXCEPT !.last_left = d.left, !.last_right = d.right]
    /\ UNCHANGED inputs

\* A program opens its window, perhaps inside another one, and takes the focus.
OpenProgram(parent) ==
    /\ phase = "idle"
    /\ Bounded
    /\ LET d == dwm_allocate_window(dwm, "app")
           w == dwm.next_window_id
       IN  dwm' = dwm_window_set_focus(
                      IF parent = 0 THEN d ELSE dwm_window_set_parent(d, w, parent), w)
    /\ UNCHANGED phase

\* The copy thread adds the icon of a copied item, or removes the icon of a
\* moved one (dwm_desktop_add_item_icon, dwm_destroy_icon).
IconArrives(name) ==
    /\ phase = "idle"
    /\ Bounded
    /\ name \notin dwm.files /\ Len(dwm.icons) < MaxIcons
    /\ dwm' = dwm_create_file([dwm EXCEPT !.files = @ \cup {name}], name)
    /\ UNCHANGED phase

IconLeaves(i) ==
    /\ phase = "idle"
    /\ Bounded
    /\ i \in IconSet(dwm)
    /\ dwm' = dwm_destroy_icon([dwm EXCEPT !.files = @ \ {dwm.path[i]}], i)
    /\ UNCHANGED phase

DesktopNext ==
    \/ \E key \in {"text", "enter", "escape", "other"},
          t \in IF dwm.rename = 0 THEN {""} ELSE FileNames \cup {""} : Key(key, t)
    \/ FrameStart \/ Drained
    \/ \E c \in {"none", "yes", "no", "fail"} : Dispatch(c)
    \/ \E left, right \in BOOLEAN, p \in Places(dwm) : Mouse(left, right, p)
    \/ \E again \in BOOLEAN : FrameEnd(Place("desktop", 0, "", again))
    \/ \E parent \in {0} \cup {w \in Live(dwm) : dwm.kind[w] = "app"} : OpenProgram(parent)
    \/ \E name \in FileNames : IconArrives(name)
    \/ \E i \in Icons : IconLeaves(i)

DesktopSpec == DesktopInit /\ [][DesktopNext]_deskVars

----------------------------------------------------------------------------
(* Properties.                                                             *)

\* Nothing the window manager keeps a pointer to has been freed: whatever is
\* dragged, resized, captured, renamed or focused exists, the window tree
\* agrees with the window list, and a start menu that is open is the one whose
\* handle is kept.  The code says so of the rename box (dwm.c:392); the
\* pointers live across frames in which a message, a key or another thread
\* destroys the window or the icon, and one frame may ask several times for
\* the start menu to close.
NothingDangles ==
    /\ WindowsSound(dwm)
    /\ {dwm.focused_icon, dwm.last_focused_icon, dwm.dragged_icon, dwm.rename}
         \subseteq IconSet(dwm) \cup {0}
    /\ {w \in Live(dwm) : dwm.kind[w] = "start"} \subseteq {dwm.start_menu_handle}

\* Every window knows whether it has the focus once the messages of a frame
\* are dispatched, unless the ring overflowed: the one window that was told
\* FOCUS_GAINED last and not FOCUS_LOST is the one dwm_process_focus_change
\* saw.
FocusIsTold ==
    phase = "input" /\ ~dwm.lost =>
        \A w \in Live(dwm) : dwm.told[w] <=> (w = dwm.last_focus)

\* The window manager's pointers and the focus that it has told the windows
\* of are true, after every message, key and click.
DesktopIsSound == NothingDangles /\ FocusIsTold
=============================================================================
