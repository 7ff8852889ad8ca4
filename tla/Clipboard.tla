----------------------------- MODULE Clipboard -----------------------------
(***************************************************************************)
(* The clipboard (dwm/dwm_clipboard.c): one payload at a time, packed into *)
(* bytes, with a sequence number that changes with every change, and the   *)
(* Cut, Copy and Paste commands of the desktop on top of it.               *)
(*                                                                         *)
(* A byte is a small number: 0 ends a string, Newline separates the paths  *)
(* of a file list read as text.  put is what a caller stored, kept beside  *)
(* the packed bytes to compare what the readers return.                    *)
(*                                                                         *)
(* A paste of files hands its list to a copy window whose thread works on  *)
(* while the user goes on copying and cutting (pastes; FileCopy is that    *)
(* thread), and a finished cut calls back with the sequence number the     *)
(* paste saw.                                                              *)
(***************************************************************************)
EXTENDS Naturals, Sequences, SequencesExt

CONSTANTS
    Texts,                    \* byte strings a caller stores as text or raw bytes
    FilePaths,                \* the paths of existing items
    DWM_MAX_PATH_LEN,         \* size of a path buffer
    DWM_CLIPBOARD_MAX_BYTES,  \* largest payload
    DWM_CLIPBOARD_MAX_FILES,  \* most paths of one payload
    Newline,                  \* the byte '\n'
    MaxChanges,               \* changes of the clipboard in one run
    MaxPastes                 \* copy windows opened in one run

ASSUME ClipboardAssumption ==
    /\ Newline \in Nat \ {0}
    /\ {DWM_MAX_PATH_LEN, DWM_CLIPBOARD_MAX_BYTES, DWM_CLIPBOARD_MAX_FILES,
        MaxChanges, MaxPastes} \subseteq Nat
    /\ Texts \subseteq Seq(Nat)
    /\ \A p \in FilePaths : p \in Seq(Nat \ {0, Newline})

VARIABLES
    clip,      \* the static struct clip
    put,       \* what was last stored, before packing
    pastes     \* the copy windows opened by pastes, with what each was given

clipVars == <<clip, put, pastes>>

ClipboardInit ==
    /\ clip = [sequence |-> 0, format |-> "EMPTY", data |-> <<>>,
               file_count |-> 0, file_op |-> "COPY"]
    /\ put = <<>>
    /\ pastes = <<>>

----------------------------------------------------------------------------
(* Changing the contents.                                                  *)

\* clip_install: the old payload goes, the new one is swapped in.
clip_install(format, data, count, op, value) ==
    /\ clip.sequence < MaxChanges
    /\ clip' = [format |-> format, data |-> data, file_count |-> count, file_op |-> op,
                sequence |-> clip.sequence + 1]
    /\ put' = value
    /\ UNCHANGED pastes

\* clip_take_locked and the sequence number, by whoever empties the clipboard.
Emptied(c) == [format |-> "EMPTY", data |-> <<>>, file_count |-> 0, file_op |-> "COPY",
               sequence |-> c.sequence + 1]

dwm_clipboard_clear ==
    /\ clip.format # "EMPTY"
    /\ clip.sequence < MaxChanges
    /\ clip' = Emptied(clip)
    /\ put' = <<>>
    /\ UNCHANGED pastes

\* strnlen: the bytes before the first 0, at most n.
BeforeNul(s, n) ==
    LET ends == {i \in 1..Len(s) : s[i] = 0}
        len == IF ends = {} THEN Len(s) ELSE (CHOOSE i \in ends : \A j \in ends : i <= j) - 1
    IN  SubSeq(s, 1, IF len < n THEN len ELSE n)

\* dwm_clipboard_set_text_n: an empty text clears, one too long is refused.
dwm_clipboard_set_text_n(text, n) ==
    LET t == BeforeNul(text, n)
    IN  IF t = <<>> THEN dwm_clipboard_clear
        ELSE /\ Len(t) <= DWM_CLIPBOARD_MAX_BYTES - 1
             /\ clip_install("TEXT", t, 0, "COPY", t)

\* dwm_clipboard_set.
dwm_clipboard_set(bytes) ==
    IF bytes = <<>> THEN dwm_clipboard_clear
    ELSE /\ Len(bytes) <= DWM_CLIPBOARD_MAX_BYTES
         /\ clip_install("BINARY", bytes, 0, "COPY", bytes)

\* dwm_clipboard_set_image: width * height pixels, one byte each here.
dwm_clipboard_set_image(width, height) ==
    /\ width > 0 /\ height > 0 /\ width * height <= DWM_CLIPBOARD_MAX_BYTES
    /\ clip_install("IMAGE", [i \in 1..(width * height) |-> 1], 0, "COPY",
                    <<width, height>>)

\* variant: a path shares its end with the next one
PackTight(paths) == FlattenSeq(paths) \o <<0>>

\* The packed list of dwm_clipboard_set_files: every path with its 0.
Pack(paths) == FlattenSeq([i \in DOMAIN paths |-> Append(paths[i], 0)])

\* dwm_clipboard_set_files: everything is checked before anything changes.
dwm_clipboard_set_files(paths, op) ==
    /\ Len(paths) \in 1..DWM_CLIPBOARD_MAX_FILES
    /\ \A i \in DOMAIN paths : Len(paths[i]) \in 1..(DWM_MAX_PATH_LEN - 1)
    /\ clip_install("FILES", Pack(paths), Len(paths), op, paths)

----------------------------------------------------------------------------
(* Reading the contents.                                                   *)

\* clip_binary_is_text_locked.
clip_binary_is_text == clip.format = "BINARY" /\ 0 \notin ToSet(clip.data)

\* dwm_clipboard_has_format.
dwm_clipboard_has_format(format) ==
    IF format = "TEXT" THEN clip.format \in {"TEXT", "FILES"} \/ clip_binary_is_text
    ELSE clip.format = format

\* clip_copy_text_out: at most size - 1 bytes, a 0 of a list as a newline.
clip_copy_text_out(src, size) ==
    [i \in 1..(IF Len(src) < size - 1 THEN Len(src) ELSE size - 1) |->
        IF src[i] = 0 THEN Newline ELSE src[i]]

\* dwm_clipboard_get_text: the length of the whole text and what fits into a
\* buffer of that size.
dwm_clipboard_get_text(size) ==
    LET text == IF clip.format = "FILES" THEN SubSeq(clip.data, 1, Len(clip.data) - 1)
                ELSE IF dwm_clipboard_has_format("TEXT") THEN clip.data ELSE <<>>
    IN  [length |-> Len(text),
         out |-> IF size = 0 THEN <<>> ELSE clip_copy_text_out(text, size)]

\* What comes behind the first string.
AfterNul(s) == SubSeq(s, Len(BeforeNul(s, Len(s))) + 2, Len(s))

\* dwm_clipboard_get_file walks over index strings; a path longer than the
\* buffer is refused.
dwm_clipboard_get_file(index, size) ==
    LET RestAfter[i \in 0..index] ==
            IF i = 0 THEN clip.data ELSE AfterNul(RestAfter[i - 1])
        path == BeforeNul(RestAfter[index], Len(clip.data))
    IN  IF clip.format = "FILES" /\ index < clip.file_count /\ Len(path) < size
        THEN [ok |-> TRUE, path |-> path] ELSE [ok |-> FALSE, path |-> <<>>]

\* dwm_clipboard_get_data and dwm_clipboard_get.
dwm_clipboard_get_data(size) ==
    IF clip.format \in {"TEXT", "BINARY"}
    THEN SubSeq(clip.data, 1, IF Len(clip.data) < size THEN Len(clip.data) ELSE size)
    ELSE <<>>

----------------------------------------------------------------------------
(* Cut, Copy and Paste.                                                    *)

\* dwm_clipboard_put_file: one existing item of a mounted device.
dwm_clipboard_put_file(path, op) ==
    /\ path \in FilePaths
    /\ dwm_clipboard_set_files(<<path>>, op)

\* dwm_clipboard_paste_into, for files: one copy window with every path of
\* the list, remembering the sequence number when it is a cut.
PasteFiles ==
    /\ clip.format = "FILES"
    /\ Len(pastes) < MaxPastes
    /\ LET found == SelectSeq([i \in 1..clip.file_count |->
                                  dwm_clipboard_get_file(i - 1, DWM_MAX_PATH_LEN)],
                              LAMBDA r : r.ok)
       IN  /\ found # <<>>
           /\ pastes' = Append(pastes,
                 [items |-> [i \in DOMAIN found |-> found[i].path],
                  cut |-> clip.file_op = "CUT", sequence |-> clip.sequence,
                  given |-> put, state |-> "running"])
    /\ UNCHANGED <<clip, put>>

\* variant: whatever cut is on the clipboard is taken to be the finished one
AnyCut(sequence) == clip.format = "FILES" /\ clip.file_op = "CUT"

\* The test of dwm_clipboard_files_complete_cut.
SameCut(sequence) ==
    clip.sequence = sequence /\ clip.format = "FILES" /\ clip.file_op = "CUT"

\* The copy thread ends a paste and paste_cut_done empties the clipboard when
\* everything was moved and the clipboard still holds that cut.
PasteDone(k, moved_all) ==
    /\ pastes[k].state = "running"
    /\ clip.sequence < MaxChanges
    /\ pastes' = [pastes EXCEPT ![k].state = IF moved_all THEN "done" ELSE "failed"]
    /\ IF pastes[k].cut /\ moved_all /\ SameCut(pastes[k].sequence)
       THEN clip' = Emptied(clip) /\ put' = <<>>
       ELSE UNCHANGED <<clip, put>>

ClipboardNext ==
    \/ dwm_clipboard_clear
    \/ \E t \in Texts, n \in 0..DWM_CLIPBOARD_MAX_BYTES : dwm_clipboard_set_text_n(t, n)
    \/ \E t \in Texts : dwm_clipboard_set(t)
    \/ \E w, h \in 0..2 : dwm_clipboard_set_image(w, h)
    \/ \E p, q \in FilePaths, op \in {"COPY", "CUT"} : dwm_clipboard_set_files(<<p, q>>, op)
    \/ \E p \in FilePaths, op \in {"COPY", "CUT"} : dwm_clipboard_put_file(p, op)
    \/ PasteFiles
    \/ \E k \in DOMAIN pastes, moved_all \in BOOLEAN : PasteDone(k, moved_all)

ClipboardSpec == ClipboardInit /\ [][ClipboardNext]_clipVars

----------------------------------------------------------------------------
(* Properties.                                                             *)

\* The paths of a list, as the text they convert to.
Joined(paths) == SubSeq(FlattenSeq([i \in DOMAIN paths |-> Append(paths[i], Newline)]),
                        1, Len(FlattenSeq(paths)) + Len(paths) - 1)

\* What was put on the clipboard is what the readers return, whatever the
\* format it is packed into and read as: path by path, as text cut to the
\* reader's buffer, and as bytes (dwm_clipboard.c:15 describes the packing).
ReadsBack ==
    /\ clip.format = "FILES" =>
          /\ clip.file_count = Len(put)
          /\ \A i \in DOMAIN put :
                dwm_clipboard_get_file(i - 1, DWM_MAX_PATH_LEN) = [ok |-> TRUE, path |-> put[i]]
          /\ \A size \in 1..(DWM_CLIPBOARD_MAX_BYTES + 1) :
                \E text \in {dwm_clipboard_get_text(size)} :
                   text.length = Len(Joined(put)) /\ IsPrefix(text.out, Joined(put))
    /\ clip.format \in {"TEXT", "BINARY"} =>
          /\ dwm_clipboard_get_data(DWM_CLIPBOARD_MAX_BYTES) = put
          /\ dwm_clipboard_has_format("TEXT") =>
                dwm_clipboard_get_text(Len(put) + 1) = [length |-> Len(put), out |-> put]

\* A finished cut empties the clipboard only when it still holds what that
\* cut moved, and a paste is given the whole list: dwm_clipboard.h promises
\* that "a newer copy made in the meantime is never wiped".
CutEndsItself ==
    /\ \A k \in DOMAIN pastes' : k \notin DOMAIN pastes => pastes'[k].items = put
    /\ (clip'.format = "EMPTY" /\ clip.format # "EMPTY" /\ pastes' # pastes) =>
          \E k \in DOMAIN pastes :
             pastes[k] # pastes'[k] /\ pastes[k].given = put /\ pastes[k].cut
               /\ pastes[k].sequence = clip.sequence

\* The clipboard returns what was put on it, and only the cut that it belongs
\* to takes it away.
ClipboardIsSound == [][CutEndsItself /\ (clip' # clip => ReadsBack')]_clipVars
=============================================================================
