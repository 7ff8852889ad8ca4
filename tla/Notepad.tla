------------------------------ MODULE Notepad ------------------------------
(***************************************************************************)
(* The editor (programs/notepad): a window on one file with a growing      *)
(* buffer, a caret and a selection, edited by keys, by the mouse and from  *)
(* two menus, drawn in rows that wrap at the width of the window.          *)
(*                                                                         *)
(* A byte is a number: 0 the NUL byte, LineBreak the line break, Blank a     *)
(* space, Letter a letter.  A mouse position is the cell it falls into.   *)
(* The clipboard, the file and the allocator are outside: the clipboard    *)
(* may refuse a copy, a write may stop early, and a buffer may not grow.   *)
(***************************************************************************)
EXTENDS Naturals, Sequences, SequencesExt, Folds

CONSTANTS
    FirstTexts,        \* contents the file may have when it is opened
    Pasted,            \* what other programs leave on the clipboard
    LineBreak, Blank,    \* two bytes
    Letter,            \* the byte typed by the user, beside LineBreak
    FreshCapacity,     \* room of a new buffer beyond its text (2048)
    Widths,            \* characters of a row, for the widths of the window
    LINE_SCRATCH_SIZE, \* size of the buffer a row is drawn from
    MaxText,           \* longest text of a run
    MaxEvents          \* events of a run

ASSUME NotepadAssumption ==
    /\ {LineBreak, Blank, Letter, FreshCapacity, MaxText, MaxEvents, LINE_SCRATCH_SIZE}
          \subseteq Nat \ {0}
    /\ Widths \subseteq 1..(LINE_SCRATCH_SIZE - 1)
    /\ FirstTexts \subseteq Seq(Nat) /\ Pasted \subseteq Seq(Nat)

VARIABLES
    np,          \* the NotepadWindowState, its text in text_buffer[0..text_length)
    max_chars,   \* characters of a row at the window's width
    directive,   \* context_directive, with the menu that is open
    board,       \* the clipboard
    note,        \* the file: may it be written, does it hold what was last saved
    events       \* how many events the window has had

notepadVars == <<np, max_chars, directive, board, note, events>>

NoColumn == 0 - 1   \* has_preferred_col is false

----------------------------------------------------------------------------
(* Opening.                                                                *)

Opened(text, capacity) ==
    [open |-> TRUE, buffer |-> TRUE, text |-> text, capacity |-> capacity, cursor |-> 0,
     anchor |-> 0, selecting |-> FALSE, preferred |-> NoColumn]

\* allocate_notepad_window_state: no text without the permission to read or
\* without the file, and no buffer without memory.
allocate_notepad_window_state(text, readable, memory) ==
    IF ~memory THEN [Opened(<<>>, FreshCapacity) EXCEPT !.buffer = FALSE]
    ELSE IF ~readable THEN Opened(<<>>, FreshCapacity)
    ELSE Opened(text, Len(text) + FreshCapacity)

NotepadInit ==
    /\ \E text \in FirstTexts, writable, readable, memory \in BOOLEAN :
          /\ note = [writable |-> writable, whole |-> TRUE]
          /\ np = allocate_notepad_window_state(text, readable, memory)
    /\ max_chars \in Widths
    /\ directive = "none"
    /\ board \in Pasted
    /\ events = 0

----------------------------------------------------------------------------
(* Layout.  Rows and columns count from 0, as the caret index does; byte i *)
(* of the text is text[i + 1].                                             *)

\* Where the next byte goes after one at (row, col).
Advanced(pos, byte, width) ==
    IF byte = LineBreak \/ pos.col + 1 >= width THEN [row |-> pos.row + 1, col |-> 0]
    ELSE [pos EXCEPT !.col = @ + 1]

layout_pos_of(text, width, index) ==
    FoldLeft(LAMBDA pos, byte : Advanced(pos, byte, width), [row |-> 0, col |-> 0],
             SubSeq(text, 1, index))

\* layout_index_at: the first byte of the row that is not left of col, or the
\* row's line break; otherwise the end of the text.
layout_index_at(text, width, row, col) ==
    LET stops == {i \in 1..Len(text) :
                    LET pos == layout_pos_of(text, width, i - 1)
                    IN  pos.row = row /\ (pos.col >= col \/ text[i] = LineBreak)}
    IN  IF stops = {} THEN Len(text)
        ELSE (CHOOSE i \in stops : \A j \in stops : i <= j) - 1

\* layout_index_from_point: the column is kept inside the row.
layout_index_from_point(s, row, col) ==
    layout_index_at(s.text, max_chars, row, IF col > max_chars - 1 THEN max_chars - 1 ELSE col)

\* The loop of handle_notepad_redraw: where byte i is drawn, how much of the
\* scratch buffer the rows fill, and which bytes are highlighted.
handle_notepad_redraw(s) ==
    LET Drawn(d, i) ==
            LET wraps == s.text[i] = LineBreak \/ d.col + 1 >= max_chars
                used == IF s.text[i] = LineBreak THEN d.scratch ELSE d.scratch + 1
            IN  [row |-> IF wraps THEN d.row + 1 ELSE d.row,
                 col |-> IF wraps THEN 0 ELSE d.col + 1,
                 scratch |-> IF wraps \/ i = Len(s.text) THEN 0 ELSE used,
                 most |-> IF used > d.most THEN used ELSE d.most,
                 at |-> Append(d.at, <<d.row, d.col>>)]
    IN  FoldLeft(Drawn, [row |-> 0, col |-> 0, scratch |-> 0, most |-> 0, at |-> <<>>],
                 [i \in 1..Len(s.text) |-> i])

----------------------------------------------------------------------------
(* The caret, the selection and the buffer.                                *)

Least(a, b) == IF a < b THEN a ELSE b
Most(a, b) == IF a > b THEN a ELSE b

has_selection(s) == s.anchor # s.cursor
selection_start(s) == Least(s.anchor, s.cursor)
selection_end(s) == Most(s.anchor, s.cursor)
Selected(s) == SubSeq(s.text, selection_start(s) + 1, selection_end(s))

\* move_cursor.
move_cursor(s, index, extend) ==
    LET at == Least(index, Len(s.text))
    IN  [s EXCEPT !.cursor = at, !.anchor = IF extend THEN @ ELSE at]

select_range(s, start, end) == [s EXCEPT !.anchor = start, !.cursor = end]

\* The capacity ensure_capacity finds enough, by doubling.
Grown(s, needed) ==
    LET first == IF s.capacity > 0 THEN s.capacity ELSE FreshCapacity
        Doubled[n \in Nat] == IF n = 0 THEN first ELSE 2 * Doubled[n - 1]
        steps == CHOOSE n \in 0..MaxText :
                    Doubled[n] >= needed /\ \A m \in 0..(n - 1) : Doubled[m] < needed
    IN  Doubled[steps]

Fitting(s, needed) == s.buffer /\ needed <= s.capacity

\* ensure_capacity: memory says whether realloc finds room.
ensure_capacity(s, extra, memory) ==
    IF Fitting(s, Len(s.text) + extra) \/ ~memory THEN s
    ELSE [s EXCEPT !.buffer = TRUE, !.capacity = Grown(s, Len(s.text) + extra)]

\* delete_range, an empty one changing nothing, and delete_selection.
delete_range(s, start, end) ==
    LET to == Least(end, Len(s.text))
    IN  IF start >= to THEN s
        ELSE move_cursor([s EXCEPT !.text = SubSeq(@, 1, start) \o SubSeq(@, to + 1, Len(@))],
                         start, FALSE)

delete_selection(s) ==
    IF has_selection(s) THEN delete_range(s, selection_start(s), selection_end(s)) ELSE s

\* insert_bytes replaces the selection, which is gone even when the buffer
\* cannot grow.
insert_bytes(s, data, memory) ==
    LET cut == delete_selection(s)
        room == ensure_capacity(cut, Len(data), memory)
    IN  IF data = <<>> THEN cut
        ELSE IF ~Fitting(room, Len(cut.text) + Len(data)) THEN cut
        ELSE move_cursor([room EXCEPT !.text = SubSeq(@, 1, cut.cursor) \o data
                                                 \o SubSeq(@, cut.cursor + 1, Len(@))],
                         cut.cursor + Len(data), FALSE)

\* char_class and select_word_at: the run of bytes of one class, or one break.
char_class(byte) == CASE byte = Letter -> "word"
                      [] byte \in {Blank, 0} -> "blank"
                      [] byte = LineBreak -> "break"
                      [] OTHER -> "other"

select_word_at(s, index) ==
    LET at == Least(index, Len(s.text) - 1)
        class == char_class(s.text[at + 1])
        Run(i, j) == \A k \in i..j : char_class(s.text[k + 1]) = class
        start == CHOOSE i \in 0..at : Run(i, at) /\ (i = 0 \/ ~Run(i - 1, at))
        end == CHOOSE j \in at..(Len(s.text) - 1) :
                  Run(at, j) /\ (j = Len(s.text) - 1 \/ ~Run(at, j + 1))
    IN  IF s.text = <<>> THEN s
        ELSE IF class = "break" THEN select_range(s, at, at + 1)
        ELSE select_range(s, start, end + 1)

----------------------------------------------------------------------------
(* The window procedure.  s is the state its handlers find.                *)

\* callback_handler_notepad makes a buffer first when loading left none; it
\* returns when even that fails.
Ready(s, memory) == IF s.buffer THEN s
                    ELSE ensure_capacity([s EXCEPT !.text = <<>>, !.capacity = 0], 1, memory)

\* The handler turns the state into new.
Handle(new) ==
    /\ Len(new.text) <= MaxText
    /\ np' = new

\* notepad_copy: the clipboard may refuse (taken is FALSE).
notepad_copy(s, taken) ==
    board' = IF has_selection(s) /\ taken THEN Selected(s) ELSE board

\* notepad_cut deletes only what the clipboard has taken.
notepad_cut(s, taken) ==
    /\ Handle(IF has_selection(s) /\ taken THEN delete_selection(s) ELSE s)
    /\ notepad_copy(s, taken)

notepad_paste(s, memory) ==
    /\ Handle(IF board = <<>> THEN s ELSE insert_bytes(s, board, memory))
    /\ UNCHANGED board

notepad_select_all(s) == Handle(select_range(s, 0, Len(s.text))) /\ UNCHANGED board

\* The Ctrl shortcuts of handle_notepad_keypress.
Shortcut(s, key, memory, taken) ==
    LET plain == [s EXCEPT !.preferred = NoColumn]
    IN  /\ CASE key = "A" -> notepad_select_all(plain)
             [] key = "C" -> Handle(s) /\ notepad_copy(s, taken)
             [] key = "X" -> notepad_cut(plain, taken)
             [] key = "V" -> notepad_paste(plain, memory)
        /\ UNCHANGED <<max_chars, directive, note>>

\* The navigation keys.  Up and Down keep the column they started from.
Navigated(s, key, shift, ctrl) ==
    LET pos == layout_pos_of(s.text, max_chars, s.cursor)
        col == IF s.preferred = NoColumn THEN pos.col ELSE s.preferred
        plain == [s EXCEPT !.preferred = NoColumn]
        kept == [s EXCEPT !.preferred = col]
        IndexAt(row, c) == layout_index_at(s.text, max_chars, row, c)
    IN  CASE key = "LEFT" ->
               IF ~shift /\ has_selection(s) THEN move_cursor(plain, selection_start(s), FALSE)
               ELSE IF s.cursor > 0 THEN move_cursor(plain, s.cursor - 1, shift) ELSE plain
          [] key = "RIGHT" ->
               IF ~shift /\ has_selection(s) THEN move_cursor(plain, selection_end(s), FALSE)
               ELSE IF s.cursor < Len(s.text) THEN move_cursor(plain, s.cursor + 1, shift)
               ELSE plain
          [] key = "UP" ->
               move_cursor(kept, IF pos.row = 0 THEN 0 ELSE IndexAt(pos.row - 1, col), shift)
          [] key = "DOWN" -> move_cursor(kept, IndexAt(pos.row + 1, col), shift)
          [] key = "HOME" -> move_cursor(plain, IF ctrl THEN 0 ELSE IndexAt(pos.row, 0), shift)
          [] key = "END" -> move_cursor(plain, IF ctrl THEN Len(s.text)
                                               ELSE IndexAt(pos.row, max_chars), shift)

NavigationKeys == {"LEFT", "RIGHT", "UP", "DOWN", "HOME", "END"}

Navigate(s, key, shift, ctrl) ==
    /\ Handle(Navigated(s, key, shift, ctrl))
    /\ UNCHANGED <<max_chars, directive, board, note>>

\* The other keys: Delete, Backspace, and a typed character.
Edit(old, key, memory) ==
    LET s == [old EXCEPT !.preferred = NoColumn]
    IN  /\ CASE key = "DELETE" -> Handle(IF has_selection(s) THEN delete_selection(s)
                                         ELSE delete_range(s, s.cursor, s.cursor + 1))
             [] key = "BACKSPACE" -> Handle(IF has_selection(s) THEN delete_selection(s)
                                            ELSE IF s.cursor = 0 THEN s
                                            ELSE delete_range(s, s.cursor - 1, s.cursor))
             [] key = "ENTER" -> Handle(insert_bytes(s, <<LineBreak>>, memory))
             [] key = "LETTER" -> Handle(insert_bytes(s, <<Letter>>, memory))
        /\ UNCHANGED <<max_chars, directive, board, note>>

\* handle_notepad_mouse, a left click on the text.
Click(old, row, col, double, shift) ==
    LET s == [old EXCEPT !.preferred = NoColumn]
        index == layout_index_from_point(s, row, col)
    IN  /\ Handle(IF double THEN [select_word_at(s, index) EXCEPT !.selecting = FALSE]
                  ELSE [move_cursor(s, index, shift) EXCEPT !.selecting = TRUE])
        /\ UNCHANGED <<max_chars, directive, board, note>>

\* handle_notepad_mouse: the menu button and the right button open a menu.
OpenMenu(s, which) ==
    /\ Handle(s)
    /\ directive' = which
    /\ UNCHANGED <<max_chars, board, note>>

\* handle_notepad_mouse_move, with the button held or not.
handle_notepad_mouse_move(s, row, col, held) ==
    /\ s.selecting
    /\ Handle(IF held THEN move_cursor(s, layout_index_from_point(s, row, col), TRUE)
              ELSE [s EXCEPT !.selecting = FALSE])
    /\ UNCHANGED <<max_chars, directive, board, note>>

\* DWM_EVENT_MOUSE_UP, and a change of focus.
StopDrag(s) ==
    /\ Handle([s EXCEPT !.selecting = FALSE])
    /\ UNCHANGED <<max_chars, directive, board, note>>

\* handle_notepad_resize: the rows wrap elsewhere, the preferred column stays.
handle_notepad_resize(s, width) ==
    /\ Handle(s)
    /\ max_chars' = width
    /\ UNCHANGED <<directive, board, note>>

\* notepad_save: the file is sized first and then written, as far as it goes.
notepad_save(s, complete) ==
    /\ Handle(s)
    /\ note' = IF note.writable THEN [note EXCEPT !.whole = s.text = <<>> \/ complete] ELSE note

\* variant: the text goes, the caret stays
ClearText(s) == [s EXCEPT !.text = <<>>]

\* The Clear command.
Cleared(s) == move_cursor([s EXCEPT !.text = <<>>], 0, FALSE)

\* DWM_EVENT_CONTEXT_MENU: the item of the menu context_directive names.  New
\* and Open show a message, Exit sends DWM_EVENT_DESTROY.
FileMenu(s, item, complete) ==
    /\ directive = "FILE"
    /\ CASE item = "Save" -> notepad_save(s, complete)
         [] item = "Clear" -> Handle(Cleared(s)) /\ UNCHANGED note
         [] item \in {"New", "Open", "Exit"} -> Handle(s) /\ UNCHANGED note
    /\ directive' = "none"
    /\ UNCHANGED <<max_chars, board>>

CanvasMenu(old, item, memory, taken) ==
    LET s == [old EXCEPT !.preferred = NoColumn]
    IN  /\ directive = "CANVAS"
        /\ CASE item = "Cut" -> notepad_cut(s, taken)
             [] item = "Copy" -> Handle(s) /\ notepad_copy(s, taken)
             [] item = "Paste" -> notepad_paste(s, memory)
             [] item = "Delete" -> Handle(delete_selection(s)) /\ UNCHANGED board
             [] item = "Select all" -> notepad_select_all(s)
        /\ directive' = "none"
        /\ UNCHANGED <<max_chars, note>>

\* free_notepad_window_state, at DWM_EVENT_DESTROY: later events find no state.
free_notepad_window_state ==
    /\ np' = [np EXCEPT !.open = FALSE, !.buffer = FALSE, !.text = <<>>, !.cursor = 0,
                        !.anchor = 0]
    /\ UNCHANGED <<max_chars, directive, board, note>>

\* Another program copies something.
CopyElsewhere ==
    /\ board' \in Pasted
    /\ UNCHANGED <<np, max_chars, directive, note>>

\* An event whose handler runs, memory saying whether a buffer can be had.
WithBuffer(s, memory) ==
    \/ \E key \in {"A", "C", "X", "V"}, taken \in BOOLEAN : Shortcut(s, key, memory, taken)
    \/ \E key \in NavigationKeys, shift, ctrl \in BOOLEAN : Navigate(s, key, shift, ctrl)
    \/ \E key \in {"DELETE", "BACKSPACE", "ENTER", "LETTER"} : Edit(s, key, memory)
    \/ \E row, col \in 0..2, double, shift \in BOOLEAN : Click(s, row, col, double, shift)
    \/ \E row, col \in 0..2, held \in BOOLEAN : handle_notepad_mouse_move(s, row, col, held)
    \/ \E which \in {"FILE", "CANVAS"} : OpenMenu(s, which)
    \/ StopDrag(s)
    \/ \E width \in Widths : handle_notepad_resize(s, width)
    \/ \E item \in {"New", "Open", "Save", "Clear", "Exit"}, complete \in BOOLEAN :
          FileMenu(s, item, complete)
    \/ \E item \in {"Cut", "Copy", "Paste", "Delete", "Select all"}, taken \in BOOLEAN :
          CanvasMenu(s, item, memory, taken)

\* callback_handler_notepad.
callback_handler_notepad ==
    \/ \E memory \in BOOLEAN : Ready(np, memory).buffer /\ WithBuffer(Ready(np, memory), memory)
    \/ free_notepad_window_state

NotepadNext ==
    /\ events < MaxEvents
    /\ events' = events + 1
    /\ np.open
    /\ callback_handler_notepad \/ CopyElsewhere

NotepadSpec == NotepadInit /\ [][NotepadNext]_notepadVars

----------------------------------------------------------------------------
(* Properties.                                                             *)

\* Whatever is typed, pasted, cut, selected with a drag, cleared or refused
\* for want of memory, the caret and the anchor stay inside the text and the
\* text inside the buffer: every memmove and memcpy of procedure.c computes
\* its bounds from them.  The rows are drawn where the arrow keys and the
\* mouse find them (procedure.c:92 "Rules shared by drawing, the arrow keys
\* and mouse hit testing"), and a row fits the scratch buffer.
EditorIsSound ==
    /\ np.cursor <= Len(np.text) /\ np.anchor <= Len(np.text)
    /\ IF np.buffer THEN Len(np.text) <= np.capacity ELSE np.text = <<>>
    /\ handle_notepad_redraw(np).most < LINE_SCRATCH_SIZE
    /\ \A i \in 0..Len(np.text) :
          LET pos == layout_pos_of(np.text, max_chars, i)
          IN  /\ layout_index_at(np.text, max_chars, pos.row, pos.col) = i
              /\ i < Len(np.text) =>
                    handle_notepad_redraw(np).at[i + 1] = <<pos.row, pos.col>>
=============================================================================
