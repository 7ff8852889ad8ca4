------------------------------ MODULE MCDesktop ------------------------------
(***************************************************************************)
(* The desktop and the programs on it: window manager, clipboard,          *)
(* registry, image resources, explorer and notepad.  They share no state   *)
(* in these models; a behaviour belongs to one of them.                    *)
(***************************************************************************)
EXTENDS Desktop, Clipboard, Registry, Notepad, Resources, Explorer

VARIABLE part   \* the component whose behaviour it is

MCFirstIcons == <<"a">>

MCTexts == {<<>>, <<1>>, <<1, 2>>, <<1, 0, 2>>, <<2, 2, 1>>}

MCFilePaths == {<<1>>, <<2>>, <<1, 2>>}

MCPayloads == {<<>>, <<1>>, <<0, 1>>}

MCFirstTexts == {<<>>, <<1, 9, 2, 1>>}

MCPasted == {<<>>, <<0, 9>>}

(* Two built-in sprites, and a longer name that is cut to one of them.     *)
MCBuiltin == ("a" :> [width |-> 1, height |-> 1, palette_size |-> 1, data |-> <<5, 6, 0>>])
          @@ ("b" :> [width |-> 2, height |-> 1, palette_size |-> 1, data |-> <<7, 8, 0, 1>>])

MCCutNames == ("a" :> "a") @@ ("b" :> "b") @@ ("b2" :> "b")

(* No sprite, a good one, and one whose pixels are missing.                *)
MCUserFiles == {<<1>>, <<9, 1, 6, 1, 1, 1, 3, 4, 0>>, <<9, 1, 6, 1, 1, 1, 3, 4>>}

(* A folder with a file in it, and a file next to it.                      *)
MCFirstEntries == <<[path |-> <<"d">>, folder |-> TRUE, id |-> 1],
                    [path |-> <<"a">>, folder |-> FALSE, id |-> 2],
                    [path |-> <<"d", "b">>, folder |-> FALSE, id |-> 3]>>

MCNewNames == <<"n", "n1">>

Parts == {"desktop", "clipboard", "registry", "notepad", "resources", "explorer"}

Init ==
    /\ part \in Parts
    /\ DesktopInit /\ ClipboardInit /\ RegistryInit /\ ResourcesInit /\ ExplorerInit
    /\ NotepadInit
    /\ part # "notepad" =>
          /\ np = allocate_notepad_window_state(<<>>, TRUE, TRUE) /\ note.writable
          /\ max_chars = Min(Widths) /\ board = <<>>

Stays(p, vs) == IF part = p THEN TRUE ELSE UNCHANGED vs

RestStays ==
    /\ UNCHANGED part
    /\ Stays("desktop", deskVars) /\ Stays("clipboard", clipVars)
    /\ Stays("registry", registryVars) /\ Stays("notepad", notepadVars)
    /\ Stays("resources", resourceVars) /\ Stays("explorer", explorerVars)

Next ==
    \/ part = "desktop" /\ RestStays /\ DesktopNext
    \/ part = "clipboard" /\ RestStays /\ ClipboardNext
    \/ part = "registry" /\ RestStays /\ RegistryNext
    \/ part = "notepad" /\ RestStays /\ NotepadNext
    \/ part = "resources" /\ RestStays /\ ResourcesNext
    \/ part = "explorer" /\ RestStays /\ ExplorerNext

Spec == Init /\ [][Next]_<<part, deskVars, clipVars, registryVars, notepadVars, resourceVars,
                           explorerVars>>
=============================================================================
