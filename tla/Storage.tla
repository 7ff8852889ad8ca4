------------------------------- MODULE Storage -------------------------------
(***************************************************************************)
(* The path of a write from BaseFS to the disk: the bitmap frame of an     *)
(* FSDeviceContext (bitmap.c), its one-sector cache (backend/io_x86.c),    *)
(* the ATA and AHCI drivers, and the write cache of the drive.  The VFS    *)
(* lock serialises the calls.                                              *)
(*                                                                         *)
(* A sector holds one value per offset.  A bitmap frame occupies a cell,   *)
(* <<sector, offset>>, and is known by it.  A command to the drive may     *)
(* fail, so what a function makes of a device is a set of devices, one for *)
(* each way its commands can end; ok is what it returns.                   *)
(***************************************************************************)
EXTENDS Integers, Sequences

CONSTANTS
    Sectors, Offsets,
    Frames,         \* the cells of the allocation bitmap
    DeviceTypes,    \* "ATA", "AHCI"
    Faults,         \* commands that may fail: see FaultKinds
    MaxWrites,      \* bound: values written in a behaviour
    None            \* 0xFFFFFFFF: no sector or frame is cached

Cells == Sectors \X Offsets

(* The write-back and the read of a sector fetch, the write-back of        *)
(* fs_cache_sync, and FLUSH CACHE.                                         *)
FaultKinds == {"evict", "fetch", "sync", "flush"}

ASSUME StorageAssumption ==
    /\ Frames \subseteq Cells
    /\ DeviceTypes \subseteq {"ATA", "AHCI"}
    /\ Faults \subseteq FaultKinds
    /\ MaxWrites \in Nat
    /\ None \notin Sectors /\ None \notin Frames

VARIABLES
    device_type,
    dev,        \* the context and the drive, see Device
    bits,       \* ghost: the bitmap as set by the allocator
    synced,     \* vfs_sync_all returned true, and nothing was written since
    n           \* bound used up; also the last value written

storageVars == <<device_type, dev, bits, synced, n>>

Value == 0..MaxWrites

Disk == [Sectors -> [Offsets -> Value]]

Blank == [s \in Sectors |-> [o \in Offsets |-> 0]]

(* media survives a power loss, drive is what the drive answers; sector,   *)
(* dirty and window are the sector cache, frame, frame_dirty and bitmap    *)
(* the bitmap frame; view holds every write the sector cache accepted,     *)
(* past all its earlier states, failed the faults met.                     *)
Device ==
    [media : Disk, drive : Disk, sector : Sectors \cup {None}, dirty : BOOLEAN,
     window : [Offsets -> Value], frame : Frames \cup {None}, frame_dirty : BOOLEAN,
     bitmap : Value, view : Disk, past : Seq(Disk), failed : SUBSET FaultKinds,
     ok : BOOLEAN]

-----------------------------------------------------------------------------
(***************************************************************************)
(* The drivers.                                                            *)
(***************************************************************************)
Ok(d) == [d EXCEPT !.ok = TRUE]

Fault(kind, d) ==
    IF kind \in Faults THEN {[d EXCEPT !.ok = FALSE, !.failed = @ \cup {kind}]} ELSE {}

(* The drive takes the window in.                                          *)
Transferred(d) == [d EXCEPT !.drive[d.sector] = d.window]

Flushed(d) == [d EXCEPT !.media = d.drive]

ata_write_unflushed(d) == {Ok(Transferred(d))}  \* variant: no FLUSH CACHE

(* FLUSH CACHE follows every write; how it ends is not looked at.          *)
ata_write_sector(d) ==
    {Ok(Flushed(Transferred(d)))} \cup {Ok(x) : x \in Fault("flush", Transferred(d))}

ahci_write_sectors(d) == {Ok(Transferred(d))}

write_sector(d) ==
    IF device_type = "ATA" THEN ata_write_sector(d) ELSE ahci_write_sectors(d)

ahci_flush_cache(d) == {Ok(Flushed(d))} \cup Fault("flush", d)

-----------------------------------------------------------------------------
(***************************************************************************)
(* The sector cache.                                                       *)
(***************************************************************************)
Pending(d) == d.dirty /\ d.sector # None

EvictDropped(d) == {Ok([d EXCEPT !.dirty = FALSE])}  \* variant: no write-back

Evict(d) ==
    IF Pending(d)
    THEN {[x EXCEPT !.dirty = FALSE] : x \in write_sector(d)} \cup Fault("evict", d)
    ELSE {Ok(d)}

Fetch(d, s) == {Ok([d EXCEPT !.window = d.drive[s], !.sector = s])} \cup Fault("fetch", d)

fs_cache_flush_and_fetch(d, s) ==
    IF d.sector = s THEN {Ok(d)}
    ELSE UNION {IF x.ok THEN Fetch(x, s) ELSE {x} : x \in Evict(d)}

(* The byte goes to the window; it is dropped when its sector cannot be    *)
(* fetched.                                                                *)
Store(d, c, v) ==
    LET view == [d.view EXCEPT ![c[1]][c[2]] = v]
    IN  [d EXCEPT !.window[c[2]] = v, !.dirty = TRUE, !.view = view, !.past = Append(@, view)]

fs_mem_write(d, c, v) ==
    {IF x.ok THEN Store(x, c, v) ELSE x : x \in fs_cache_flush_and_fetch(d, c[1])}

(* What fs_readb returns of cell c.                                        *)
Byte(d, c) == IF d.ok THEN d.window[c[2]] ELSE 0

(* The result of the write is not looked at.                               *)
fs_cache_sync(d) ==
    IF Pending(d)
    THEN {Ok([x EXCEPT !.dirty = FALSE]) : x \in write_sector(d) \cup Fault("sync", d)}
    ELSE {Ok(d)}

no_drive_flush(d) == fs_cache_sync(d)  \* variant: leaves it in the drive's cache

fs_cache_flush(d) ==
    UNION {IF device_type = "AHCI" THEN ahci_flush_cache(x) ELSE {x} : x \in fs_cache_sync(d)}

-----------------------------------------------------------------------------
(***************************************************************************)
(* The bitmap frame.                                                       *)
(***************************************************************************)
fs_bitmap_flush(d) ==
    IF d.frame_dirty /\ d.frame # None
    THEN {[x EXCEPT !.frame_dirty = FALSE] : x \in fs_mem_write(d, d.frame, d.bitmap)}
    ELSE {d}

LoadFrame(d, f) ==
    {[x EXCEPT !.frame = f, !.bitmap = Byte(x, f), !.frame_dirty = FALSE] :
        x \in fs_cache_flush_and_fetch(d, f[1])}

sync_unflushed(d, f) ==  \* variant: the old frame is not written
    IF d.frame = f THEN {d} ELSE LoadFrame(d, f)

fs_bitmap_sync(d, f) ==
    IF d.frame = f THEN {d} ELSE UNION {LoadFrame(x, f) : x \in fs_bitmap_flush(d)}

-----------------------------------------------------------------------------
(* fs_device_open.                                                         *)
Opened(d) ==
    [d EXCEPT !.sector = None, !.dirty = FALSE, !.frame = None, !.frame_dirty = FALSE]

(* A formatted device, opened.                                             *)
StorageInit ==
    /\ device_type \in DeviceTypes
    /\ dev = [media |-> Blank, drive |-> Blank, sector |-> None, dirty |-> FALSE,
              window |-> [o \in Offsets |-> 0], frame |-> None, frame_dirty |-> FALSE,
              bitmap |-> 0, view |-> Blank, past |-> <<Blank>>, failed |-> {}, ok |-> TRUE]
    /\ bits = [f \in Frames |-> 0]
    /\ synced = FALSE
    /\ n = 0

(* Another value is written, by the call that leads to one of devices.     *)
Write(devices) ==
    /\ n < MaxWrites
    /\ n' = n + 1
    /\ dev' \in devices
    /\ synced' = FALSE
    /\ UNCHANGED device_type

write(c) == Write(fs_mem_write(dev, c, n + 1)) /\ UNCHANGED bits

(* fs_bitmap_set and fs_bitmap_clear.                                      *)
fs_bitmap_set(f) ==
    /\ Write({[x EXCEPT !.bitmap = n + 1, !.frame_dirty = TRUE] : x \in fs_bitmap_sync(dev, f)})
    /\ bits' = [bits EXCEPT ![f] = n + 1]

Access(devices) == dev' \in devices /\ UNCHANGED <<device_type, bits, n>>

read(c) == Access(fs_cache_flush_and_fetch(dev, c[1])) /\ UNCHANGED synced

fs_bitmap_get(f) == Access(fs_bitmap_sync(dev, f)) /\ UNCHANGED synced

(* The end of fs_alloc and fs_free.                                        *)
flush == Access(fs_bitmap_flush(dev)) /\ UNCHANGED synced

(* vfs_sync_all with this device mounted.                                  *)
fs_device_sync ==
    /\ Access(UNION {fs_cache_flush(x) : x \in fs_bitmap_flush(dev)})
    /\ synced' = (dev'.ok /\ ~dev'.frame_dirty /\ ~dev'.dirty)

(* The drive writes a cached sector when it likes.                         *)
Destage(s) ==
    /\ dev' = [dev EXCEPT !.media[s] = dev.drive[s]]
    /\ UNCHANGED <<device_type, bits, synced, n>>

(* The machine starts again from what is on the media.                     *)
MachineStops ==
    /\ dev' = Opened([dev EXCEPT !.drive = dev.media, !.view = dev.media, !.past = <<dev.media>>])
    /\ bits' = [f \in Frames |-> dev.media[f[1]][f[2]]]
    /\ synced' = FALSE
    /\ UNCHANGED <<device_type, n>>

StorageNext ==
    \/ \E c \in Cells : write(c) /\ c \notin Frames
    \/ \E c \in Cells : read(c)
    \/ \E f \in Frames : fs_bitmap_set(f) \/ fs_bitmap_get(f)
    \/ \E s \in Sectors : Destage(s)
    \/ flush \/ fs_device_sync \/ MachineStops

StorageSpec == StorageInit /\ [][StorageNext]_storageVars

-----------------------------------------------------------------------------
(* A dirty sector or frame is always one the context can write back.       *)
StorageTypeOK ==
    /\ dev \in Device
    /\ dev.dirty => dev.sector # None
    /\ dev.frame_dirty => dev.frame # None
    /\ bits \in [Frames -> Value]
    /\ synced \in BOOLEAN /\ n \in Value

(* A write the cache accepted is not lost when another sector needs the    *)
(* window, not even when the write-back or the read fails: the window      *)
(* holds its sector, the drive all others.                                 *)
EvictionLosesNothing ==
    "sync" \notin dev.failed =>
        \A s \in Sectors : dev.view[s] = IF s = dev.sector THEN dev.window ELSE dev.drive[s]

(* The allocator sees every bit it has set, in whichever cache it is.      *)
BitmapIsCoherent ==
    dev.failed = {} =>
        \A f \in Frames : bits[f] = IF f = dev.frame THEN dev.bitmap ELSE dev.view[f[1]][f[2]]

(* The sector window and the bitmap frame, two caches over one disk, never *)
(* lose a write the file system made, whichever of them evicts the other.  *)
CachesAreCoherent == StorageTypeOK /\ EvictionLosesNothing /\ BitmapIsCoherent

(* The order of writes: on an ATA disk, which is flushed after every       *)
(* sector, a power loss leaves the writes up to some point and none after. *)
DiskIsPrefix ==
    device_type = "ATA" /\ dev.failed \cap {"sync", "flush"} = {} =>
        \E k \in DOMAIN dev.past : dev.media = dev.past[k]

Durable ==
    /\ dev.media = dev.view
    /\ \A f \in Frames : dev.media[f[1]][f[2]] = bits[f]

(* After a vfs_sync_all without faults, everything is on the media.        *)
SyncedIsDurable == synced /\ dev.failed = {} => Durable

(* What a power loss leaves on the media: on ATA the writes up to some     *)
(* point, and after a good vfs_sync_all all of them.                       *)
WritesAreDurable == DiskIsPrefix /\ SyncedIsDurable

(* vfs_sync_all "returns false if any device failed to flush": when it     *)
(* returned true, everything is on the media.                              *)
SyncIsHonest == synced => Durable
=============================================================================
