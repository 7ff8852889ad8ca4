------------------------------ MODULE Windows ------------------------------
(***************************************************************************)
(* The window manager's own data (dwm/dwm.c, dwm/dwm_core_internal.c,      *)
(* dwm/dwm_dispatch.c): the z-ordered list of windows, the tree of parents *)
(* and children, the focus, and the ring of messages through which every   *)
(* event reaches a window procedure.                                       *)
(*                                                                         *)
(* The structures of the code (workspace, dragdrop, context, ctxmenu,      *)
(* input) are the fields of one record, and each function of the code is   *)
(* an operator from such a record to the next one, because the handlers    *)
(* nest them: dispatching a CLOSE runs the procedure twice and then        *)
(* destroys the window with its children.  Everything here runs with       *)
(* kernel_big_lock held, so a handler is one step.                         *)
(*                                                                         *)
(* A window is known by its handle.  Handles come from a 32-bit counter;   *)
(* the model has MaxWindows of them and a creation beyond that is a        *)
(* creation whose malloc failed.  Positions, sizes and pixels are left out.*)
(***************************************************************************)
EXTENDS Naturals, Sequences, SequencesExt

CONSTANTS
    MaxWindows,           \* windows created in one run
    DWM_MSG_QUEUE_SIZE    \* slots of the message ring, one of them never used

ASSUME WindowsAssumption ==
    MaxWindows \in Nat \ {0} /\ DWM_MSG_QUEUE_SIZE \in Nat \ {0, 1}

Handles == 1..MaxWindows

\* The windows that exist: the workspace list holds each of them once,
\* children too.
Live(d) == ToSet(d.list)

\* The state dwm_initiate leaves: the task bar is the only window.
NoWindows ==
    [list |-> <<>>, kind |-> [w \in Handles |-> "none"],
     parent |-> [w \in Handles |-> 0], children |-> [w \in Handles |-> <<>>],
     subject |-> [w \in Handles |-> "none"], next_window_id |-> 1,
     desktop_focused |-> FALSE, last_focus |-> 0,
     msgs |-> <<>>, lost |-> FALSE, told |-> [w \in Handles |-> FALSE],
     dragged_window |-> 0, dragged_resizing |-> 0, captured_window |-> 0]

----------------------------------------------------------------------------
(* Messages.                                                               *)

\* dwm_post_message: a full ring drops the message.
dwm_post_message(d, handle, message, left) ==
    IF Len(d.msgs) = DWM_MSG_QUEUE_SIZE - 1
    THEN [d EXCEPT !.lost = TRUE]
    ELSE [d EXCEPT !.msgs = Append(@, [hwnd |-> handle, message |-> message,
                                       left |-> left])]

\* dwm_window_send_event: only to a window that still exists.
dwm_window_send_event(d, handle, event) ==
    IF handle \in Live(d) THEN dwm_post_message(d, handle, event, FALSE) ELSE d

----------------------------------------------------------------------------
(* The list of windows and the focus.                                      *)

\* dwm_get_focused_window: the last window of the list, unless the desktop
\* was clicked.
dwm_get_focused_window(d) ==
    IF d.desktop_focused \/ d.list = <<>> THEN 0 ELSE Last(d.list)

\* dwm_set_focus: the target moves to the end of the list.
dwm_set_focus(d, target) ==
    IF target = 0 THEN d
    ELSE [d EXCEPT !.desktop_focused = FALSE,
                   !.list = IF target \in ToSet(@)
                            THEN Append(Remove(@, target), target) ELSE @]

\* dwm_window_set_focus: the same, for the parent of a child window.
dwm_window_set_focus(d, handle) ==
    IF handle \notin Live(d) THEN d
    ELSE dwm_set_focus(d, IF d.parent[handle] # 0 THEN d.parent[handle] ELSE handle)

\* variant: a window that is gone stops the change from being announced
OnlyBetweenWindows(d) ==
    LET current == dwm_get_focused_window(d)
        previous == d.last_focus
    IN  IF current = previous THEN d
        ELSE IF previous \in Live(d)
             THEN dwm_post_message(
                      dwm_post_message([d EXCEPT !.last_focus = current],
                                       previous, "FOCUS_LOST", FALSE),
                      current, "FOCUS_GAINED", FALSE)
             ELSE [d EXCEPT !.last_focus = current]

\* dwm_process_focus_change, once per frame: the window that had the focus
\* and the one that has it now are both told.
dwm_process_focus_change(d) ==
    LET current == dwm_get_focused_window(d)
        previous == d.last_focus
        d1 == [d EXCEPT !.last_focus = current]
        d2 == IF previous \in Live(d)
              THEN dwm_post_message(d1, previous, "FOCUS_LOST", FALSE) ELSE d1
    IN  IF current = previous THEN d
        ELSE IF current # 0 THEN dwm_post_message(d2, current, "FOCUS_GAINED", FALSE)
        ELSE d2

----------------------------------------------------------------------------
(* Creation and destruction.                                               *)

\* dwm_allocate_window: the new window is the last of the list, so it has
\* the focus, and is asked to draw itself.  Without memory nothing changes.
dwm_allocate_window(d, kind) ==
    LET w == d.next_window_id
    IN  IF w > MaxWindows THEN d
        ELSE dwm_post_message(
                 [d EXCEPT !.next_window_id = @ + 1, !.kind[w] = kind,
                           !.list = Append(@, w), !.desktop_focused = FALSE],
                 w, "REDRAW", FALSE)

\* dwm_window_resource_add, for the one resource a handler reads back: the
\* path a dialog is about.
dwm_window_resource_add(d, handle, resource) ==
    IF handle \notin Live(d) THEN d ELSE [d EXCEPT !.subject[handle] = resource]

\* dwm_window_set_parent.
dwm_window_set_parent(d, child, parent) ==
    IF {child, parent} \subseteq Live(d)
    THEN LET old == d.parent[child]
             without == IF old = 0 THEN d.children
                        ELSE [d.children EXCEPT ![old] = Remove(@, child)]
         IN  [d EXCEPT !.parent[child] = parent,
                       !.children = [without EXCEPT ![parent] = Append(@, child)]]
    ELSE d

\* variant: a window dragged by its title bar is not forgotten
ReleaseDrag(d, h) ==
    [d EXCEPT !.dragged_resizing = IF @ = h THEN 0 ELSE @,
              !.captured_window = IF @ = h THEN 0 ELSE @]

\* dwm_destroy_window_internal, first part: no drag may go on with the window.
ForgetDrag(d, h) ==
    [d EXCEPT !.dragged_window = IF @ = h THEN 0 ELSE @,
              !.dragged_resizing = IF @ = h THEN 0 ELSE @,
              !.captured_window = IF @ = h THEN 0 ELSE @]

\* dwm_destroy_window: the window leaves the list and its parent, its
\* resources go, and its children are destroyed with it.
RECURSIVE dwm_destroy_window(_, _)
dwm_destroy_window(d, h) ==
    LET gone == [ForgetDrag(d, h) EXCEPT
                    !.list = Remove(@, h), !.subject[h] = "none",
                    !.children = IF d.parent[h] = 0 THEN @
                                 ELSE [@ EXCEPT ![d.parent[h]] = Remove(@, h)],
                    !.parent[h] = 0]
        DestroyChild(c, acc) ==
            dwm_destroy_window([acc EXCEPT !.children[h] = Remove(@, c),
                                           !.parent[c] = 0], c)
    IN  IF h \notin Live(d) THEN d ELSE FoldSeq(DestroyChild, gone, d.children[h])

----------------------------------------------------------------------------
(* What must hold of the window data between two handlers.                 *)

\* The drag state, the tree and the list agree: whoever is being dragged,
\* resized or captured exists, a parent lists exactly its children, and both
\* ends of the relation exist.
WindowsSound(d) ==
    /\ {d.dragged_window, d.dragged_resizing, d.captured_window} \subseteq Live(d) \cup {0}
    /\ IsInjective(d.list)
    /\ \A w \in Live(d) : d.parent[w] \in Live(d) \cup {0}
    /\ \A w \in Handles : /\ IsInjective(d.children[w])
                          /\ ToSet(d.children[w])
                               = {c \in Live(d) : d.parent[c] = w}
=============================================================================
