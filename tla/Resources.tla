----------------------------- MODULE Resources -----------------------------
(***************************************************************************)
(* The images of the desktop: resource files (resources/                   *)
(* resource_manager.c), the export of the compiled-in sprites at boot      *)
(* (boot_export_images) and the two passes that register images by name    *)
(* (dwm_load_images).  A file is a sequence of cells, one for each field   *)
(* of the headers and one for each 16-bit word of the sprite.  A save can  *)
(* stop at any write, the power can go at any time, memory can run out     *)
(* and a user can change the files while the desktop is up.                *)
(***************************************************************************)
EXTENDS Naturals, Sequences, FiniteSets, SequencesExt

CONSTANTS
    ImageNames,          \* the names a file of the image directory can have
    dwm_builtin_images,  \* the compiled-in sprites by name
    CutNames,            \* a name as a map node keeps it, cut to MAP_NAME_MAX
    UserFiles,           \* the contents a user gives to a file, as cells
    RESOURCE_MAGIC,      \* magic and format version
    RESOURCE_MAX_PAYLOAD,
    SaveStops,           \* after how many cells a save can stop, a large number for never
    MaxBoots,            \* starts of the machine in one run
    MaxUserChanges       \* files changed by the user in one run

Builtins == DOMAIN dwm_builtin_images
RESOURCE_TYPE_SPRITE == 1
RESOURCE_HEADER_SIZE == 3       \* magic with version, type, payload size
SPRITE_HEADER_SIZE == 3         \* width, height, palette size
SPRITE_MAX_WORDS == RESOURCE_MAX_PAYLOAD - SPRITE_HEADER_SIZE

ASSUME ResourcesAssumption ==
    /\ Builtins \subseteq ImageNames
    /\ CutNames \in [ImageNames -> ImageNames]
    /\ \A b \in Builtins : CutNames[b] = b
    /\ UserFiles \subseteq Seq(Nat) /\ SaveStops \subseteq Nat
    /\ RESOURCE_MAGIC \in Nat \ {0}
    /\ {RESOURCE_MAX_PAYLOAD, MaxBoots, MaxUserChanges} \subseteq Nat

Missing == <<0>>          \* the path names no file
NoResource == <<>>        \* a NULL pointer

VARIABLES
    images,     \* images[n]: the cells of the file n, or Missing
    wrote,      \* wrote[n]: who wrote it, "save", "torn" (a save that stopped), "user" or "none"
    image_dir,  \* the image directory exists
    home,       \* the home device was found at this start
    stage,      \* "off", "export", "files", "builtins", "up", or "used" after a change
    todo,       \* the names the stage still has to visit
    resources,  \* workspace.resource_head: [name, image] in the order of loading
    short,      \* memory ran out since the start
    boots, changes

resourceVars == <<images, wrote, image_dir, home, stage, todo, resources, short,
                  boots, changes>>

ResourcesInit ==
    /\ images = [n \in ImageNames |-> Missing]
    /\ wrote = [n \in ImageNames |-> "none"]
    /\ image_dir = FALSE /\ home = FALSE /\ stage = "off" /\ todo = {}
    /\ resources = <<>> /\ short = FALSE /\ boots = 0 /\ changes = 0

----------------------------------------------------------------------------
(* Sprites and their files.                                                *)

sprite_word_count(width, height, palette_size) == palette_size * 2 + width * height

\* Zero for a sprite that cannot be stored.
sprite_payload_size(s) ==
    LET words == sprite_word_count(s.width, s.height, s.palette_size)
    IN  IF words > SPRITE_MAX_WORDS THEN 0 ELSE SPRITE_HEADER_SIZE + words

sprite_write(s) == <<s.width, s.height, s.palette_size>> \o s.data

\* The sprite in a payload, or NoResource.
sprite_read(cells, payload_size) ==
    IF payload_size < SPRITE_HEADER_SIZE THEN NoResource
    ELSE LET words == sprite_word_count(cells[1], cells[2], cells[3])
         IN  IF 0 \in {cells[1], cells[2], cells[3]} \/ words > SPRITE_MAX_WORDS
                \/ payload_size # SPRITE_HEADER_SIZE + words THEN NoResource
             ELSE [width |-> cells[1], height |-> cells[2], palette_size |-> cells[3],
                   data |-> SubSeq(cells, 4, 3 + words)]

\* sprite_get_bitmap: an index past the palette is a black pixel.
sprite_get_bitmap(s) ==
    [width |-> s.width, height |-> s.height,
     pixels |-> [i \in 1..(s.width * s.height) |->
        LET index == s.data[s.palette_size * 2 + i]
        IN  IF index < s.palette_size
            THEN <<s.data[2 * index + 1], s.data[2 * index + 2]>> ELSE <<0, 0>>]]

\* read_header: magic, version and sizes are those of a whole resource file.
read_header(file) ==
    /\ Len(file) >= RESOURCE_HEADER_SIZE
    /\ file[1] = RESOURCE_MAGIC
    /\ file[3] <= RESOURCE_MAX_PAYLOAD
    /\ Len(file) - RESOURCE_HEADER_SIZE >= file[3]

\* resource_load of a sprite: the handler reads what the header announced.
resource_load(file) ==
    IF file = Missing \/ ~read_header(file) \/ file[2] # RESOURCE_TYPE_SPRITE
    THEN NoResource
    ELSE sprite_read(SubSeq(file, RESOURCE_HEADER_SIZE + 1, Len(file)), file[3])

\* resource_save when the file could be sized or not, and the first n cells
\* were written: what is in the file, and whether the save says it succeeded.
resource_save(s, old, sized, n) ==
    LET payload == sprite_payload_size(s)
        total == RESOURCE_HEADER_SIZE + payload
        cells == <<RESOURCE_MAGIC, RESOURCE_TYPE_SPRITE, payload>> \o sprite_write(s)
        base == IF sized THEN [i \in 1..total |-> IF i <= Len(old) THEN old[i] ELSE 0]
                ELSE old
        len == IF n < total THEN n ELSE total
        file == [i \in 1..(IF len > Len(base) THEN len ELSE Len(base)) |->
                    IF i <= len THEN cells[i] ELSE base[i]]
    IN  [file |-> file, ok |-> n >= total /\ Len(file) = total]

----------------------------------------------------------------------------
(* The list of resources.                                                  *)

\* dwm_resource_load appends an image under its name cut to the node's size;
\* dwm_resource_find compares whole names and returns the first.
dwm_resource_load(name, image) ==
    Append(resources, [name |-> CutNames[name], image |-> image])

dwm_resource_find(name) ==
    LET i == SelectInSeq(resources, LAMBDA r : r.name = name)
    IN  IF i = 0 THEN NoResource ELSE resources[i].image

----------------------------------------------------------------------------
(* Starting.                                                               *)

\* The start of the machine: mounting finds the home device or not, and the
\* image directory is made when it is missing, which can fail unnoticed.
Boot ==
    /\ stage = "off" /\ boots < MaxBoots
    /\ boots' = boots + 1
    /\ home' \in BOOLEAN
    /\ image_dir' \in IF home' THEN {image_dir, TRUE} ELSE {image_dir}
    /\ stage' = "export"
    /\ todo' = IF home' THEN Builtins ELSE {}
    /\ resources' = <<>> /\ short' = FALSE
    /\ UNCHANGED <<images, wrote, changes>>

\* variant: an image that exists is saved again
SavesAlways(name) == TRUE

\* The test of boot_export_images: an existing file is left alone.
NotOnDisk(name) == images[name] = Missing

\* boot_export_images, one image.
boot_export_images ==
    /\ stage = "export"
    /\ \E name \in todo :
          /\ todo' = todo \ {name}
          /\ IF NotOnDisk(name) /\ image_dir /\ sprite_payload_size(dwm_builtin_images[name]) # 0
             THEN \E sized \in BOOLEAN, n \in SaveStops :
                    LET save == resource_save(dwm_builtin_images[name], <<>>, sized, n)
                    IN  /\ images' = [images EXCEPT ![name] = save.file]
                        /\ wrote' = [wrote EXCEPT ![name] = IF save.ok THEN "save" ELSE "torn"]
             ELSE UNCHANGED <<images, wrote>>
    /\ UNCHANGED <<image_dir, home, stage, resources, short, boots, changes>>

\* dwm_load_images begins when every image was visited: dwm_get_image_directory
\* needs a home device, and the listing has every file of the directory.
BeginLoading ==
    /\ stage = "export" /\ todo = {}
    /\ stage' = "files"
    /\ todo' = IF home /\ image_dir THEN {n \in ImageNames : images[n] # Missing} ELSE {}
    /\ UNCHANGED <<images, wrote, image_dir, home, resources, short, boots, changes>>

\* dwm_resource_image_load_file: a sprite that loads becomes an image, unless
\* there is no memory for it.
dwm_resource_image_load_file(name) ==
    LET s == resource_load(images[name])
    IN  \/ /\ s = NoResource
           /\ UNCHANGED <<resources, short>>
        \/ /\ s # NoResource
           /\ resources' = dwm_resource_load(name, sprite_get_bitmap(s))
           /\ UNCHANGED short
        \/ /\ s # NoResource /\ short' = TRUE
           /\ UNCHANGED resources

\* The first pass, one item of the listing.
LoadFile ==
    /\ stage = "files"
    /\ \E name \in todo :
          /\ todo' = todo \ {name}
          /\ IF dwm_resource_find(name) # NoResource THEN UNCHANGED <<resources, short>>
             ELSE dwm_resource_image_load_file(name)
    /\ UNCHANGED <<images, wrote, image_dir, home, stage, boots, changes>>

BeginBuiltins ==
    /\ stage = "files" /\ todo = {}
    /\ stage' = "builtins" /\ todo' = Builtins
    /\ UNCHANGED <<images, wrote, image_dir, home, resources, short, boots, changes>>

\* variant: only a file that is absent is replaced, not one that is unreadable
OnlyAbsent(name) == images[name] = Missing

\* The second pass loads what has no image under its name.
StillMissing(name) == dwm_resource_find(name) = NoResource

\* dwm_resource_sprite_load in the second pass, one name.
LoadBuiltin ==
    /\ stage = "builtins"
    /\ \E name \in todo :
          /\ todo' = todo \ {name}
          /\ \/ /\ StillMissing(name)
                /\ resources' = dwm_resource_load(name,
                                    sprite_get_bitmap(dwm_builtin_images[name]))
                /\ UNCHANGED short
             \/ /\ StillMissing(name) /\ short' = TRUE
                /\ UNCHANGED resources
             \/ /\ ~StillMissing(name)
                /\ UNCHANGED <<resources, short>>
    /\ UNCHANGED <<images, wrote, image_dir, home, stage, boots, changes>>

DesktopUp ==
    /\ stage = "builtins" /\ todo = {}
    /\ stage' = "up"
    /\ UNCHANGED <<images, wrote, image_dir, home, todo, resources, short, boots, changes>>

\* The user writes or removes a file of the image directory.
UserChanges ==
    /\ stage \in {"up", "used"} /\ home /\ image_dir /\ changes < MaxUserChanges
    /\ \E name \in ImageNames, file \in UserFiles \cup {Missing} :
          /\ images' = [images EXCEPT ![name] = file]
          /\ wrote' = [wrote EXCEPT ![name] = IF file = Missing THEN "none" ELSE "user"]
    /\ stage' = "used" /\ changes' = changes + 1
    /\ UNCHANGED <<image_dir, home, todo, resources, short, boots>>

\* The machine stops, at any point of the start too.
SwitchOff ==
    /\ stage # "off"
    /\ stage' = "off" /\ todo' = {} /\ resources' = <<>>
    /\ UNCHANGED <<images, wrote, image_dir, home, short, boots, changes>>

ResourcesNext ==
    \/ Boot \/ boot_export_images \/ BeginLoading \/ LoadFile \/ BeginBuiltins
    \/ LoadBuiltin \/ DesktopUp \/ UserChanges \/ SwitchOff

ResourcesSpec == ResourcesInit /\ [][ResourcesNext]_resourceVars

----------------------------------------------------------------------------
(* Properties.                                                             *)

\* The images that files of the directory give to a name.
OnDisk(name) ==
    {sprite_get_bitmap(resource_load(images[n])) :
        n \in {m \in ImageNames : CutNames[m] = name /\ resource_load(images[m]) # NoResource}}

\* A save that reported success left a file that loads as the sprite it was
\* given, whether or not the file could be sized first.  When the desktop
\* comes up and memory sufficed, every built-in name has an image: one that a
\* readable file gives to it, or, only when there is none, the built-in one.
\* So an image edited on the disk survives every later start, however many of
\* them were cut short.
ImagesAreRight ==
    /\ \A n \in Builtins : wrote[n] = "save" =>
          resource_load(images[n]) = dwm_builtin_images[n]
    /\ stage = "up" /\ ~short => \A b \in Builtins :
          LET given == IF home /\ image_dir THEN OnDisk(b) ELSE {}
          IN  dwm_resource_find(b) \in
                IF given = {} THEN {sprite_get_bitmap(dwm_builtin_images[b])} ELSE given

\* What a user wrote is only ever changed by the user (boot_export_images
\* leaves existing files alone).
UserFilesKept ==
    \A n \in ImageNames : wrote[n] = "user" /\ images'[n] # images[n] => UserChanges

\* The desktop shows the images of the directory, the built-in ones where
\* there is none, and never overwrites one that a user put there.
ResourcesAreSound == [][UserFilesKept /\ ImagesAreRight']_resourceVars
=============================================================================
