--------------------------- MODULE StorageProofs ---------------------------
(***************************************************************************)
(* Proofs about Storage, for any sectors, offsets, bitmap frames, device   *)
(* types and faults.                                                       *)
(*                                                                         *)
(* Each function of io_x86.c and bitmap.c is an operator from a device to  *)
(* the devices it may leave, so there is a lemma per function that says    *)
(* what it preserves of any well-formed device, and the steps follow.      *)
(***************************************************************************)
EXTENDS Storage, TLAPS

(* The sector window over the drive: the window holds its sector and the   *)
(* drive all others; a clean window is what the drive has.                 *)
WindowOK(d) ==
    "sync" \notin d.failed =>
        /\ \A s \in Sectors : d.view[s] = IF s = d.sector THEN d.window ELSE d.drive[s]
        /\ ~d.dirty /\ d.sector # None => d.window = d.drive[d.sector]

(* The last state recorded is the current one, and an ATA disk is at one   *)
(* of the states, because a flush follows every write.                     *)
HistoryOK(d) ==
    /\ Len(d.past) > 0 /\ d.past[Len(d.past)] = d.view
    /\ device_type = "ATA" /\ d.failed \cap {"sync", "flush"} = {} =>
          /\ d.media = d.drive
          /\ \E k \in 1..Len(d.past) : d.media = d.past[k]

SectorOK(d) ==
    /\ d \in Device
    /\ d.dirty => d.sector # None
    /\ WindowOK(d)
    /\ HistoryOK(d)

(* The bitmap frame over the sectors: a clean frame is what they have, and *)
(* b is the bitmap as the allocator set it.                                *)
FrameOK(d, b) ==
    /\ d.frame_dirty => d.frame # None
    /\ d.failed = {} =>
          /\ ~d.frame_dirty /\ d.frame # None =>
                d.bitmap = d.view[d.frame[1]][d.frame[2]]
          /\ \A f \in Frames :
                b[f] = IF f = d.frame THEN d.bitmap ELSE d.view[f[1]][f[2]]

(* What an operation on the sector window leaves alone.                    *)
KeepsFrame(d, x) ==
    /\ x.frame = d.frame /\ x.frame_dirty = d.frame_dirty /\ x.bitmap = d.bitmap
    /\ d.failed \subseteq x.failed

(* What an operation that accepts no write leaves alone as well.           *)
Keeps(d, x) == KeepsFrame(d, x) /\ x.view = d.view /\ x.past = d.past

(* Every cell is in a sector; every frame is a cell.                       *)
LEMMA CellFacts ==
    /\ \A c \in Cells : c[1] \in Sectors /\ c[2] \in Offsets
    /\ Frames \subseteq Cells
    /\ None \notin Sectors /\ None \notin Frames
BY StorageAssumption DEF Cells

(* A failed command changes nothing but what was met and what is returned. *)
LEMMA FaultKeeps ==
    ASSUME NEW d, SectorOK(d), NEW kind \in FaultKinds, NEW x \in Fault(kind, d)
    PROVE  /\ x = [d EXCEPT !.ok = FALSE, !.failed = @ \cup {kind}]
           /\ SectorOK(x) /\ Keeps(d, x)
           /\ ~x.ok /\ kind \in x.failed
           /\ x.dirty = d.dirty /\ x.sector = d.sector
           /\ x.media = d.media /\ x.drive = d.drive /\ x.window = d.window
<1>1. x = [d EXCEPT !.ok = FALSE, !.failed = @ \cup {kind}]
    BY DEF Fault
<1>2. d \in Device
    BY DEF SectorOK
<1>3. x \in Device
    BY <1>1, <1>2 DEF Device
<1>4. /\ Keeps(d, x) /\ ~x.ok /\ kind \in x.failed
      /\ x.dirty = d.dirty /\ x.sector = d.sector
      /\ x.media = d.media /\ x.drive = d.drive /\ x.window = d.window
    BY <1>1, <1>2 DEF Device, Keeps, KeepsFrame
<1>5. SectorOK(x)
    BY <1>3, <1>4 DEF SectorOK, WindowOK, HistoryOK, Keeps, KeepsFrame
<1> QED BY <1>1, <1>3, <1>4, <1>5

(* A command that succeeds and does nothing else keeps everything.         *)
LEMMA OkKeeps ==
    ASSUME NEW d, SectorOK(d)
    PROVE  /\ SectorOK(Ok(d)) /\ Keeps(d, Ok(d)) /\ Ok(d).ok
           /\ Ok(d).failed = d.failed
           /\ Ok(d).dirty = d.dirty /\ Ok(d).sector = d.sector
           /\ Ok(d).media = d.media /\ Ok(d).drive = d.drive /\ Ok(d).window = d.window
<1>1. d \in Device
    BY DEF SectorOK
<1>2. Ok(d) \in Device
    BY <1>1 DEF Ok, Device
<1>3. /\ Keeps(d, Ok(d)) /\ Ok(d).ok
      /\ Ok(d).failed = d.failed
      /\ Ok(d).dirty = d.dirty /\ Ok(d).sector = d.sector
      /\ Ok(d).media = d.media /\ Ok(d).drive = d.drive /\ Ok(d).window = d.window
    BY <1>1 DEF Ok, Device, Keeps, KeepsFrame
<1>4. SectorOK(Ok(d))
    BY <1>2, <1>3 DEF SectorOK, WindowOK, HistoryOK, Keeps, KeepsFrame
<1> QED BY <1>3, <1>4

(* The drive takes the window in: now it has every write accepted.         *)
LEMMA TransferredFacts ==
    ASSUME NEW d, SectorOK(d), d.sector # None
    PROVE  LET x == Transferred(d)
           IN  /\ x \in Device /\ Keeps(d, x) /\ x.failed = d.failed
               /\ x.dirty = d.dirty /\ x.sector = d.sector /\ x.window = d.window
               /\ x.media = d.media
               /\ x.drive = [d.drive EXCEPT ![d.sector] = d.window]
               /\ "sync" \notin d.failed => x.drive = d.view
<1> DEFINE x == Transferred(d)
<1>1. /\ d \in Device /\ d.sector \in Sectors /\ d.window \in [Offsets -> Value]
      /\ d.drive \in Disk /\ d.view \in Disk
    BY DEF SectorOK, Device
<1>2. x = [d EXCEPT !.drive = [d.drive EXCEPT ![d.sector] = d.window]]
    BY <1>1 DEF Transferred
<1>3. [d.drive EXCEPT ![d.sector] = d.window] \in Disk
    BY <1>1 DEF Disk
<1>4. /\ x.drive = [d.drive EXCEPT ![d.sector] = d.window]
      /\ Keeps(d, x) /\ x.failed = d.failed /\ x.media = d.media
      /\ x.dirty = d.dirty /\ x.sector = d.sector /\ x.window = d.window
    BY <1>1, <1>2 DEF Device, Keeps, KeepsFrame
<1>5. x \in Device
    BY <1>1, <1>2, <1>3 DEF Device
<1>6. "sync" \notin d.failed => x.drive = d.view
    BY <1>1, <1>3, <1>4 DEF SectorOK, WindowOK, Disk
<1> HIDE DEF x
<1> QED BY <1>4, <1>5, <1>6 DEF x

(* The media takes in what the drive has.                                  *)
LEMMA FlushedFacts ==
    ASSUME NEW d \in Device
    PROVE  LET x == Flushed(d)
           IN  /\ x \in Device /\ Keeps(d, x) /\ x.failed = d.failed
               /\ x.dirty = d.dirty /\ x.sector = d.sector /\ x.window = d.window
               /\ x.media = d.drive /\ x.drive = d.drive /\ x.ok = d.ok
BY DEF Flushed, Device, Keeps, KeepsFrame

(* A write-back that was not refused, after which the window is clean.     *)
Written(d, x) ==
    /\ SectorOK(x) /\ Keeps(d, x) /\ x.ok /\ ~x.dirty /\ x.sector = d.sector
    /\ "sync" \notin x.failed => x.drive = x.view

(* A window written back is no longer dirty.                               *)
LEMMA CleanedOK ==
    ASSUME NEW d, SectorOK(d), d.sector # None,
           NEW x \in Device, Keeps(d, x), x.ok, x.sector = d.sector, x.window = d.window,
           x.drive = [d.drive EXCEPT ![d.sector] = d.window],
           device_type = "ATA" /\ x.failed \cap {"sync", "flush"} = {} => x.media = x.drive
    PROVE  Written(d, [x EXCEPT !.dirty = FALSE])
<1> DEFINE y == [x EXCEPT !.dirty = FALSE]
<1>1. /\ y \in Device /\ y.dirty = FALSE /\ y.ok /\ Keeps(d, y) /\ y.failed = x.failed
      /\ y.sector = d.sector /\ y.window = d.window /\ y.drive = x.drive /\ y.media = x.media
    BY DEF Device, Keeps, KeepsFrame
<1>2. "sync" \notin y.failed => y.drive = y.view
  <2>1. SUFFICES ASSUME "sync" \notin y.failed PROVE y.drive = y.view
    OBVIOUS
  <2>2. "sync" \notin d.failed
    BY <1>1, <2>1 DEF Keeps, KeepsFrame
  <2>3. Transferred(d).drive = d.view
    BY <2>2, TransferredFacts
  <2>4. Transferred(d).drive = x.drive
    BY TransferredFacts
  <2> QED BY <1>1, <2>3, <2>4 DEF Keeps
<1>3. y.drive[y.sector] = y.window
    BY <1>1 DEF SectorOK, Device, Disk
<1>4. WindowOK(y)
    BY <1>1, <1>2, <1>3 DEF WindowOK
<1>5. HistoryOK(y)
  <2>1. Len(y.past) > 0 /\ y.past[Len(y.past)] = y.view /\ Len(y.past) \in Nat
    BY <1>1 DEF SectorOK, HistoryOK, Keeps, Device
  <2>2. Len(y.past) \in 1..Len(y.past)
    BY <2>1
  <2>3. device_type = "ATA" /\ y.failed \cap {"sync", "flush"} = {} =>
            y.media = y.drive /\ y.media = y.past[Len(y.past)]
    BY <1>1, <1>2, <2>1
  <2> QED BY <2>1, <2>2, <2>3 DEF HistoryOK
<1> HIDE DEF y
<1>6. Written(d, y)
    BY <1>1, <1>2, <1>4, <1>5 DEF SectorOK, Written
<1> QED BY <1>6 DEF y

(* A driver writes the sector it is given, or fails and changes nothing.   *)
LEMMA WriteSectorOK ==
    ASSUME NEW d, SectorOK(d), d.sector # None, NEW x \in write_sector(d)
    PROVE  Written(d, [x EXCEPT !.dirty = FALSE])
<1> DEFINE t == Transferred(d)
<1>1. /\ t \in Device /\ Keeps(d, t) /\ t.failed = d.failed
      /\ t.sector = d.sector /\ t.window = d.window
      /\ t.drive = [d.drive EXCEPT ![d.sector] = d.window]
    BY TransferredFacts
<1> HIDE DEF t
<1>2. SUFFICES /\ x \in Device /\ Keeps(d, x) /\ x.ok /\ x.sector = d.sector
               /\ x.window = d.window /\ x.drive = t.drive
               /\ device_type = "ATA" /\ x.failed \cap {"sync", "flush"} = {} =>
                      x.media = x.drive
    BY <1>1, CleanedOK
<1>3. CASE device_type # "ATA"
  <2>1. x = Ok(t)
    BY <1>3 DEF write_sector, ahci_write_sectors, t
  <2> QED BY <1>1, <1>3, <2>1 DEF Ok, Device, Keeps, KeepsFrame
<1>4. CASE device_type = "ATA" /\ x = Ok(Flushed(t))
  <2>1. /\ Flushed(t) \in Device /\ Keeps(t, Flushed(t))
        /\ Flushed(t).sector = t.sector /\ Flushed(t).window = t.window
        /\ Flushed(t).drive = t.drive /\ Flushed(t).media = t.drive
    BY <1>1, FlushedFacts
  <2> QED BY <1>1, <1>4, <2>1 DEF Ok, Device, Keeps, KeepsFrame
<1>5. CASE device_type = "ATA" /\ x # Ok(Flushed(t))
  <2>1. PICK z \in Fault("flush", t) : x = Ok(z)
    BY <1>5 DEF write_sector, ata_write_sector, t
  <2>2. z = [t EXCEPT !.ok = FALSE, !.failed = @ \cup {"flush"}]
    BY <2>1 DEF Fault
  <2>3. z.failed = t.failed \cup {"flush"}
    BY <1>1, <2>2 DEF Device
  <2>4. /\ z \in Device /\ Keeps(t, z) /\ z.sector = t.sector
        /\ z.window = t.window /\ z.drive = t.drive
    BY <1>1, <2>2, <2>3 DEF Device, Keeps, KeepsFrame, FaultKinds
  <2>5. /\ x \in Device /\ Keeps(z, x) /\ x.ok /\ x.sector = z.sector
        /\ x.window = z.window /\ x.drive = z.drive /\ x.failed = z.failed
    BY <2>1, <2>4 DEF Ok, Device, Keeps, KeepsFrame
  <2>6. "flush" \in x.failed
    BY <2>3, <2>5
  <2> QED BY <1>1, <2>4, <2>5, <2>6 DEF Keeps, KeepsFrame
<1> QED BY <1>3, <1>4, <1>5

-----------------------------------------------------------------------------
(***************************************************************************)
(* The sector cache.                                                       *)
(***************************************************************************)
(* An access leaves a well-formed device, which says so if a command       *)
(* failed, and does not touch the disk if the window was clean.            *)
Accessed(d, x) ==
    /\ SectorOK(x) /\ KeepsFrame(d, x)
    /\ ~x.ok => x.failed # {}
    /\ ~d.dirty => x.media = d.media /\ x.drive = d.drive

(* Evicting writes a dirty window back before it forgets it.               *)
LEMMA EvictOK ==
    ASSUME NEW d, SectorOK(d), NEW x \in Evict(d)
    PROVE  /\ Accessed(d, x) /\ Keeps(d, x) /\ x.sector = d.sector
           /\ x.ok => ~x.dirty
           /\ ~d.dirty => ~x.dirty
<1>1. d \in Device /\ (d.dirty => d.sector # None) /\ d.dirty \in BOOLEAN
    BY DEF SectorOK, Device
<1>2. CASE Pending(d) /\ x \in {[z EXCEPT !.dirty = FALSE] : z \in write_sector(d)}
  <2>1. PICK z \in write_sector(d) : x = [z EXCEPT !.dirty = FALSE]
    BY <1>2
  <2>2. Written(d, x)
    BY <1>2, <2>1, WriteSectorOK DEF Pending
  <2> QED BY <1>2, <2>2 DEF Written, Accessed, Keeps, Pending
<1>3. CASE Pending(d) /\ x \in Fault("evict", d)
  <2>1. /\ SectorOK(x) /\ Keeps(d, x) /\ ~x.ok /\ "evict" \in x.failed
        /\ x.sector = d.sector /\ x.dirty = d.dirty
    BY <1>3, FaultKeeps DEF FaultKinds
  <2> QED BY <1>3, <2>1 DEF Accessed, Keeps, Pending
<1>4. CASE ~Pending(d) /\ x = Ok(d)
  <2>1. ~d.dirty
    BY <1>1, <1>4 DEF Pending
  <2> QED BY <1>4, <2>1, OkKeeps DEF Accessed, Keeps
<1> QED BY <1>2, <1>3, <1>4 DEF Evict

(* Fetching fills the window with what the drive holds.                    *)
LEMMA FetchOK ==
    ASSUME NEW d, SectorOK(d), ~d.dirty, NEW s \in Sectors, NEW x \in Fetch(d, s)
    PROVE  /\ Accessed(d, x) /\ Keeps(d, x) /\ ~x.dirty
           /\ x.ok => x.sector = s
<1>1. d \in Device
    BY DEF SectorOK
<1>2. CASE x \in Fault("fetch", d)
  <2>1. /\ SectorOK(x) /\ Keeps(d, x) /\ ~x.ok /\ "fetch" \in x.failed
        /\ x.dirty = d.dirty /\ x.media = d.media /\ x.drive = d.drive
    BY <1>2, FaultKeeps DEF FaultKinds
  <2> QED BY <2>1 DEF Accessed, Keeps
<1>3. CASE x = Ok([d EXCEPT !.window = d.drive[s], !.sector = s])
  <2>1. d.drive[s] \in [Offsets -> Value]
    BY <1>1 DEF Device, Disk
  <2>2. /\ x.window = d.drive[s] /\ x.sector = s /\ x.ok
        /\ x.drive = d.drive /\ x.media = d.media /\ x.dirty = d.dirty
        /\ x.failed = d.failed /\ Keeps(d, x)
    BY <1>1, <1>3 DEF Ok, Device, Keeps, KeepsFrame
  <2>3. x \in Device
    BY <1>1, <1>3, <2>1 DEF Ok, Device
  <2>4. WindowOK(x)
    <3>1. SUFFICES ASSUME "sync" \notin d.failed, NEW r \in Sectors
                   PROVE  d.view[r] = d.drive[r]
      BY <2>2 DEF WindowOK, Keeps
    <3>2. d.sector # None => d.window = d.drive[d.sector]
      BY <3>1 DEF SectorOK, WindowOK
    <3>3. d.view[r] = IF r = d.sector THEN d.window ELSE d.drive[r]
      BY <3>1 DEF SectorOK, WindowOK
    <3> QED BY <3>2, <3>3, CellFacts
  <2>5. HistoryOK(x)
    BY <2>2 DEF SectorOK, HistoryOK, Keeps
  <2> QED BY <2>2, <2>3, <2>4, <2>5 DEF Accessed, SectorOK, Keeps
<1> QED BY <1>2, <1>3 DEF Fetch

(* Evicting before fetching, or the window as it is when it is the one.    *)
LEMMA FlushAndFetchOK ==
    ASSUME NEW d, SectorOK(d), NEW s \in Sectors, NEW x \in fs_cache_flush_and_fetch(d, s)
    PROVE  /\ Accessed(d, x) /\ Keeps(d, x)
           /\ x.ok => x.sector = s
           /\ ~d.dirty => ~x.dirty
<1>1. CASE d.sector = s
  <2>1. x = Ok(d)
    BY <1>1 DEF fs_cache_flush_and_fetch
  <2> QED BY <1>1, <2>1, OkKeeps DEF Accessed, Keeps
<1>2. CASE d.sector # s
  <2>1. PICK y \in Evict(d) : x \in IF y.ok THEN Fetch(y, s) ELSE {y}
    BY <1>2 DEF fs_cache_flush_and_fetch
  <2>2. /\ Accessed(d, y) /\ Keeps(d, y) /\ SectorOK(y)
        /\ y.ok => ~y.dirty
        /\ ~d.dirty => ~y.dirty
    BY EvictOK DEF Accessed
  <2>3. CASE ~y.ok
    BY <2>1, <2>2, <2>3
  <2>4. CASE y.ok
    <3>1. /\ Accessed(y, x) /\ Keeps(y, x) /\ ~x.dirty /\ (x.ok => x.sector = s)
      BY <2>1, <2>2, <2>4, FetchOK
    <3> QED BY <2>2, <2>4, <3>1 DEF Accessed, Keeps, KeepsFrame
  <2> QED BY <2>3, <2>4
<1> QED BY <1>1, <1>2

(* An accepted write: one cell of the view, recorded.                      *)
LEMMA StoreOK ==
    ASSUME NEW d, SectorOK(d), NEW c \in Cells, d.sector = c[1], NEW v \in Value
    PROVE  LET x == Store(d, c, v)
           IN  /\ SectorOK(x) /\ KeepsFrame(d, x) /\ x.ok = d.ok /\ x.failed = d.failed
               /\ x.view = [d.view EXCEPT ![c[1]][c[2]] = v]
<1> DEFINE x == Store(d, c, v)
           view == [d.view EXCEPT ![c[1]][c[2]] = v]
           window == [d.window EXCEPT ![c[2]] = v]
<1>1. /\ c[1] \in Sectors /\ c[2] \in Offsets /\ d \in Device
      /\ d.view \in Disk /\ d.window \in [Offsets -> Value] /\ d.past \in Seq(Disk)
    BY CellFacts DEF SectorOK, Device
<1>2. view \in Disk /\ window \in [Offsets -> Value]
    BY <1>1 DEF Disk
<1>3. x = [d EXCEPT !.window = window, !.dirty = TRUE, !.view = view,
                    !.past = Append(d.past, view)]
    BY DEF Store
<1>4. Append(d.past, view) \in Seq(Disk)
    BY <1>1, <1>2
<1>5. view[c[1]] = [d.view[c[1]] EXCEPT ![c[2]] = v]
      /\ \A s \in Sectors \ {c[1]} : view[s] = d.view[s]
    BY <1>1 DEF Disk
<1> HIDE DEF view, window, x
<1>6. /\ x.window = window /\ x.dirty /\ x.view = view /\ x.past = Append(d.past, view)
      /\ x.sector = d.sector /\ x.drive = d.drive /\ x.media = d.media
      /\ x.failed = d.failed /\ x.ok = d.ok /\ KeepsFrame(d, x)
    BY <1>1, <1>3 DEF Device, KeepsFrame
<1>7. x \in Device
    BY <1>1, <1>2, <1>3, <1>4 DEF Device
<1>8. WindowOK(x)
  <2>1. SUFFICES ASSUME "sync" \notin x.failed, NEW s \in Sectors
                 PROVE  view[s] = IF s = d.sector THEN window ELSE d.drive[s]
    BY <1>6 DEF WindowOK
  <2>2. d.view[s] = IF s = d.sector THEN d.window ELSE d.drive[s]
    BY <1>6, <2>1 DEF SectorOK, WindowOK
  <2> QED BY <1>5, <2>2 DEF window
<1>9. HistoryOK(x)
  <2>1. /\ Len(x.past) = Len(d.past) + 1 /\ Len(d.past) \in Nat
        /\ x.past[Len(x.past)] = view
        /\ \A k \in 1..Len(d.past) : x.past[k] = d.past[k] /\ k \in 1..Len(x.past)
    BY <1>1, <1>2, <1>6
  <2> QED BY <1>6, <2>1 DEF HistoryOK, SectorOK
<1>10. SectorOK(x)
    BY <1>1, <1>6, <1>7, <1>8, <1>9, CellFacts DEF SectorOK
<1> QED BY <1>6, <1>10 DEF x, view

(* A write into the window marks it dirty.                                 *)
LEMMA MemWriteOK ==
    ASSUME NEW d, SectorOK(d), NEW c \in Cells, NEW v \in Value,
           NEW x \in fs_mem_write(d, c, v)
    PROVE  /\ SectorOK(x) /\ KeepsFrame(d, x)
           /\ x.failed = {} => x.view = [d.view EXCEPT ![c[1]][c[2]] = v]
<1>1. PICK y \in fs_cache_flush_and_fetch(d, c[1]) : x = IF y.ok THEN Store(y, c, v) ELSE y
    BY DEF fs_mem_write
<1>2. /\ SectorOK(y) /\ Keeps(d, y)
      /\ y.ok => y.sector = c[1]
      /\ ~y.ok => y.failed # {}
    BY CellFacts, FlushAndFetchOK DEF Accessed
<1>3. CASE ~y.ok
    BY <1>1, <1>2, <1>3 DEF Keeps
<1>4. CASE y.ok
  <2>1. /\ SectorOK(x) /\ KeepsFrame(y, x) /\ x.view = [y.view EXCEPT ![c[1]][c[2]] = v]
    BY <1>1, <1>2, <1>4, StoreOK
  <2> QED BY <1>2, <2>1 DEF Keeps, KeepsFrame
<1> QED BY <1>3, <1>4

(* With a clean window and no lost write the drive has the view.           *)
LEMMA CleanDriveIsView ==
    ASSUME NEW d, SectorOK(d), ~d.dirty, "sync" \notin d.failed
    PROVE  d.drive = d.view
<1>1. d.drive \in Disk /\ d.view \in Disk
    BY DEF SectorOK, Device
<1>2. ASSUME NEW s \in Sectors PROVE d.view[s] = d.drive[s]
  <2>1. /\ d.view[s] = IF s = d.sector THEN d.window ELSE d.drive[s]
        /\ d.sector # None => d.window = d.drive[d.sector]
    BY DEF SectorOK, WindowOK
  <2> QED BY <2>1, CellFacts
<1> QED BY <1>1, <1>2 DEF Disk

(* The write-back of a sync leaves a clean window even when it failed.     *)
LEMMA CacheSyncOK ==
    ASSUME NEW d, SectorOK(d), NEW x \in fs_cache_sync(d)
    PROVE  SectorOK(x) /\ Keeps(d, x) /\ x.ok /\ ~x.dirty
<1>1. d \in Device /\ (d.dirty => d.sector # None) /\ d.dirty \in BOOLEAN
    BY DEF SectorOK, Device
<1>2. CASE ~Pending(d)
  <2>1. x = Ok(d) /\ ~d.dirty
    BY <1>1, <1>2 DEF fs_cache_sync, Pending
  <2> QED BY <2>1, OkKeeps
<1>3. CASE Pending(d)
  <2>1. PICK z \in write_sector(d) \cup Fault("sync", d) : x = Ok([z EXCEPT !.dirty = FALSE])
    BY <1>3 DEF fs_cache_sync
  <2> DEFINE y == [z EXCEPT !.dirty = FALSE]
  <2>2. SUFFICES SectorOK(y) /\ Keeps(d, y) /\ ~y.dirty
    BY <2>1, OkKeeps DEF Keeps, KeepsFrame
  <2>3. CASE z \in write_sector(d)
    BY <1>3, <2>3, WriteSectorOK DEF Written, Pending
  <2>4. CASE z \in Fault("sync", d)
    <3>1. SectorOK(z) /\ Keeps(d, z) /\ "sync" \in z.failed /\ z \in Device
      BY <2>4, FaultKeeps DEF FaultKinds, SectorOK
    <3>2. /\ y \in Device /\ Keeps(z, y) /\ y.failed = z.failed /\ y.dirty = FALSE
          /\ y.past = z.past /\ y.view = z.view
      BY <3>1 DEF Device, Keeps, KeepsFrame
    <3>3. WindowOK(y) /\ HistoryOK(y)
      BY <3>1, <3>2 DEF WindowOK, HistoryOK, SectorOK
    <3> HIDE DEF y
    <3> QED BY <3>1, <3>2, <3>3 DEF SectorOK, Keeps, KeepsFrame
  <2> QED BY <2>1, <2>3, <2>4
<1> QED BY <1>2, <1>3

(* The flush leaves nothing dirty, or reports a failure.                   *)
LEMMA CacheFlushOK ==
    ASSUME NEW d, SectorOK(d), device_type \in DeviceTypes, NEW x \in fs_cache_flush(d)
    PROVE  /\ SectorOK(x) /\ Keeps(d, x) /\ ~x.dirty
           /\ x.failed = {} => x.media = x.drive
<1>1. PICK y \in fs_cache_sync(d) :
          x \in IF device_type = "AHCI" THEN ahci_flush_cache(y) ELSE {y}
    BY DEF fs_cache_flush
<1>2. SectorOK(y) /\ Keeps(d, y) /\ ~y.dirty /\ y \in Device
    BY CacheSyncOK DEF SectorOK
<1>3. CASE device_type # "AHCI"
  <2>1. device_type = "ATA" /\ x = y
    BY <1>1, <1>3, StorageAssumption
  <2> QED BY <1>2, <2>1 DEF SectorOK, HistoryOK
<1>4. CASE x \in Fault("flush", y) /\ device_type = "AHCI"
  <2>1. /\ SectorOK(x) /\ Keeps(y, x) /\ "flush" \in x.failed /\ x.dirty = y.dirty
    BY <1>2, <1>4, FaultKeeps DEF FaultKinds
  <2> QED BY <1>2, <2>1 DEF Keeps, KeepsFrame
<1>5. CASE x = Ok(Flushed(y)) /\ device_type = "AHCI"
  <2> DEFINE z == Flushed(y)
  <2>1. /\ z \in Device /\ Keeps(y, z) /\ z.failed = y.failed
        /\ z.dirty = y.dirty /\ z.sector = y.sector /\ z.window = y.window
        /\ z.media = y.drive /\ z.drive = y.drive
    BY <1>2, FlushedFacts
  <2> HIDE DEF z
  <2>2. SectorOK(z)
    BY <1>2, <1>5, <2>1 DEF SectorOK, WindowOK, HistoryOK, Keeps
  <2>3. x = Ok(z)
    BY <1>5 DEF z
  <2> QED BY <1>2, <2>1, <2>2, <2>3, OkKeeps DEF Keeps, KeepsFrame
<1> QED BY <1>1, <1>3, <1>4, <1>5 DEF ahci_flush_cache

-----------------------------------------------------------------------------
(***************************************************************************)
(* The bitmap frame.                                                       *)
(***************************************************************************)
LEMMA BitmapFlushOK ==
    ASSUME NEW d, SectorOK(d), NEW b, FrameOK(d, b), NEW x \in fs_bitmap_flush(d)
    PROVE  /\ SectorOK(x) /\ FrameOK(x, b) /\ ~x.frame_dirty /\ x.frame = d.frame
           /\ d.failed \subseteq x.failed
           /\ ~d.frame_dirty => x = d
<1>1. d \in Device /\ d.frame_dirty \in BOOLEAN /\ d.bitmap \in Value /\ d.view \in Disk
    BY DEF SectorOK, Device
<1>2. CASE ~d.frame_dirty
    BY <1>2 DEF fs_bitmap_flush
<1>3. CASE d.frame_dirty
  <2>1. d.frame # None /\ d.frame \in Frames /\ d.frame \in Cells
    BY <1>1, <1>3, CellFacts DEF FrameOK, Device
  <2>2. PICK y \in fs_mem_write(d, d.frame, d.bitmap) : x = [y EXCEPT !.frame_dirty = FALSE]
    BY <1>3, <2>1 DEF fs_bitmap_flush
  <2>3. /\ SectorOK(y) /\ KeepsFrame(d, y) /\ y \in Device
        /\ y.failed = {} => y.view = [d.view EXCEPT ![d.frame[1]][d.frame[2]] = d.bitmap]
    BY <1>1, <2>1, MemWriteOK DEF SectorOK
  <2>4. /\ x \in Device /\ x.frame_dirty = FALSE /\ x.frame = d.frame /\ x.bitmap = d.bitmap
        /\ x.failed = y.failed /\ x.view = y.view /\ x.past = y.past /\ x.dirty = y.dirty
        /\ x.sector = y.sector /\ x.window = y.window /\ x.drive = y.drive /\ x.media = y.media
    BY <2>2, <2>3 DEF Device, KeepsFrame
  <2>5. SectorOK(x)
    BY <2>3, <2>4 DEF SectorOK, WindowOK, HistoryOK
  <2>6. ASSUME x.failed = {}
        PROVE  /\ x.bitmap = x.view[x.frame[1]][x.frame[2]]
               /\ \A f \in Frames : b[f] = IF f = x.frame THEN x.bitmap ELSE x.view[f[1]][f[2]]
    <3>1. /\ d.failed = {}
          /\ x.view = [d.view EXCEPT ![d.frame[1]][d.frame[2]] = d.bitmap]
      BY <2>3, <2>4, <2>6 DEF KeepsFrame
    <3>2. x.view[d.frame[1]][d.frame[2]] = d.bitmap
      BY <1>1, <2>1, <3>1, CellFacts DEF Disk
    <3>3. ASSUME NEW f \in Frames, f # d.frame
          PROVE  x.view[f[1]][f[2]] = d.view[f[1]][f[2]]
      <4>1. f \in Sectors \X Offsets /\ d.frame \in Sectors \X Offsets
        BY <2>1, CellFacts DEF Cells
      <4>2. f[1] # d.frame[1] \/ f[2] # d.frame[2]
        BY <3>3, <4>1
      <4> QED BY <1>1, <3>1, <4>1, <4>2 DEF Disk
    <3> QED BY <2>4, <3>1, <3>2, <3>3 DEF FrameOK
  <2>7. FrameOK(x, b)
    BY <2>4, <2>6 DEF FrameOK
  <2> QED BY <1>3, <2>3, <2>4, <2>5, <2>7 DEF KeepsFrame
<1> QED BY <1>1, <1>2, <1>3

(* The new frame is read from a sector that has every bit of it.           *)
LEMMA LoadFrameOK ==
    ASSUME NEW d, SectorOK(d), NEW b, FrameOK(d, b), ~d.frame_dirty,
           NEW f \in Frames, NEW x \in LoadFrame(d, f)
    PROVE  /\ SectorOK(x) /\ FrameOK(x, b) /\ ~x.frame_dirty /\ x.frame = f
           /\ d.failed \subseteq x.failed
           /\ ~d.dirty => x.media = d.media /\ x.drive = d.drive /\ ~x.dirty
<1>1. PICK y \in fs_cache_flush_and_fetch(d, f[1]) :
          x = [y EXCEPT !.frame = f, !.bitmap = Byte(y, f), !.frame_dirty = FALSE]
    BY DEF LoadFrame
<1>2. f \in Cells /\ f[1] \in Sectors /\ f[2] \in Offsets /\ f # None
    BY CellFacts
<1>3. /\ SectorOK(y) /\ y \in Device /\ Keeps(d, y)
      /\ y.ok => y.sector = f[1]
      /\ ~y.ok => y.failed # {}
      /\ ~d.dirty => y.media = d.media /\ y.drive = d.drive /\ ~y.dirty
    BY <1>2, FlushAndFetchOK DEF Accessed, SectorOK
<1>4. Byte(y, f) \in Value
    BY <1>2, <1>3, StorageAssumption DEF Byte, Device, Value
<1>5. /\ x \in Device /\ x.frame_dirty = FALSE /\ x.frame = f /\ x.bitmap = Byte(y, f)
      /\ x.failed = y.failed /\ x.view = y.view /\ x.past = y.past /\ x.dirty = y.dirty
      /\ x.sector = y.sector /\ x.window = y.window /\ x.drive = y.drive /\ x.media = y.media
    BY <1>1, <1>2, <1>3, <1>4 DEF Device
<1>6. SectorOK(x)
    BY <1>3, <1>5 DEF SectorOK, WindowOK, HistoryOK
<1>7. ASSUME x.failed = {}
      PROVE  /\ x.bitmap = x.view[f[1]][f[2]]
             /\ \A g \in Frames : b[g] = IF g = f THEN x.bitmap ELSE x.view[g[1]][g[2]]
  <2>1. y.ok /\ y.sector = f[1] /\ "sync" \notin y.failed /\ d.failed = {}
    BY <1>3, <1>5, <1>7 DEF Keeps, KeepsFrame
  <2>2. y.view[f[1]] = y.window
    BY <1>2, <1>3, <2>1 DEF SectorOK, WindowOK
  <2>3. x.bitmap = x.view[f[1]][f[2]]
    BY <1>5, <2>1, <2>2 DEF Byte
  <2>4. ASSUME NEW g \in Frames PROVE b[g] = x.view[g[1]][g[2]]
    <3>1. /\ b[g] = IF g = d.frame THEN d.bitmap ELSE d.view[g[1]][g[2]]
          /\ d.frame # None => d.bitmap = d.view[d.frame[1]][d.frame[2]]
      BY <2>1 DEF FrameOK
    <3> QED BY <1>3, <1>5, <3>1, CellFacts DEF Keeps
  <2> QED BY <2>3, <2>4
<1>8. FrameOK(x, b)
    BY <1>2, <1>5, <1>7 DEF FrameOK
<1> QED BY <1>3, <1>5, <1>6, <1>8 DEF Keeps, KeepsFrame

(* The bitmap frame goes to the drive through the window.                  *)
LEMMA BitmapSyncOK ==
    ASSUME NEW d, SectorOK(d), NEW b, FrameOK(d, b), NEW f \in Frames,
           NEW x \in fs_bitmap_sync(d, f)
    PROVE  /\ SectorOK(x) /\ FrameOK(x, b) /\ x.frame = f
           /\ d.failed \subseteq x.failed
           /\ ~d.dirty /\ ~d.frame_dirty =>
                 x.media = d.media /\ x.drive = d.drive /\ ~x.dirty /\ ~x.frame_dirty
<1>1. CASE d.frame = f
    BY <1>1 DEF fs_bitmap_sync
<1>2. CASE d.frame # f
  <2>1. PICK y \in fs_bitmap_flush(d) : x \in LoadFrame(y, f)
    BY <1>2 DEF fs_bitmap_sync
  <2>2. /\ SectorOK(y) /\ FrameOK(y, b) /\ ~y.frame_dirty
        /\ d.failed \subseteq y.failed
        /\ ~d.frame_dirty => y = d
    BY <2>1, BitmapFlushOK
  <2>3. /\ SectorOK(x) /\ FrameOK(x, b) /\ ~x.frame_dirty /\ x.frame = f
        /\ y.failed \subseteq x.failed
        /\ ~y.dirty => x.media = y.media /\ x.drive = y.drive /\ ~x.dirty
    BY <2>1, <2>2, LoadFrameOK
  <2> QED BY <2>2, <2>3
<1> QED BY <1>1, <1>2

(* A bit set in the frame: the frame is dirty, the sectors are behind.     *)
LEMMA SetBitOK ==
    ASSUME NEW d, SectorOK(d), NEW b \in [Frames -> Value], FrameOK(d, b),
           NEW f \in Frames, d.frame = f, NEW v \in Value
    PROVE  LET x == [d EXCEPT !.bitmap = v, !.frame_dirty = TRUE]
           IN  SectorOK(x) /\ FrameOK(x, [b EXCEPT ![f] = v])
<1> DEFINE x == [d EXCEPT !.bitmap = v, !.frame_dirty = TRUE]
<1>1. d \in Device /\ f # None
    BY CellFacts DEF SectorOK
<1>2. /\ x \in Device /\ x.frame_dirty = TRUE /\ x.frame = f /\ x.bitmap = v
      /\ x.failed = d.failed /\ x.view = d.view /\ x.past = d.past /\ x.dirty = d.dirty
      /\ x.sector = d.sector /\ x.window = d.window /\ x.drive = d.drive /\ x.media = d.media
    BY <1>1 DEF Device
<1> HIDE DEF x
<1>3. SectorOK(x)
    BY <1>2 DEF SectorOK, WindowOK, HistoryOK
<1>4. FrameOK(x, [b EXCEPT ![f] = v])
    BY <1>1, <1>2 DEF FrameOK
<1> QED BY <1>3, <1>4 DEF x

-----------------------------------------------------------------------------
(***************************************************************************)
(* The inductive invariant.  CachesAreCoherent does not carry a step by    *)
(* itself: that an eviction may forget a clean window, or a clean frame,   *)
(* needs WindowOK and FrameOK, which say what a clean one holds.           *)
(***************************************************************************)
SyncedOK ==
    synced =>
        /\ ~dev.dirty /\ ~dev.frame_dirty
        /\ dev.failed = {} => dev.media = dev.drive

StorageInv ==
    /\ device_type \in DeviceTypes
    /\ SectorOK(dev) /\ FrameOK(dev, bits)
    /\ bits \in [Frames -> Value] /\ synced \in BOOLEAN /\ n \in Value
    /\ SyncedOK

(* The invariant says what the runs check.                                 *)
LEMMA StorageInvImplies == StorageInv => CachesAreCoherent /\ WritesAreDurable
<1> SUFFICES ASSUME StorageInv PROVE CachesAreCoherent /\ WritesAreDurable
    OBVIOUS
<1>1. StorageTypeOK
    BY DEF StorageInv, SectorOK, FrameOK, StorageTypeOK
<1>2. EvictionLosesNothing
    BY DEF StorageInv, SectorOK, WindowOK, EvictionLosesNothing
<1>3. BitmapIsCoherent
    BY DEF StorageInv, FrameOK, BitmapIsCoherent
<1>4. DiskIsPrefix
  <2>1. DOMAIN dev.past = 1..Len(dev.past)
    BY DEF StorageInv, SectorOK, Device
  <2> QED BY <2>1 DEF StorageInv, SectorOK, HistoryOK, DiskIsPrefix
<1>5. SyncedIsDurable
  <2>1. SUFFICES ASSUME synced, dev.failed = {} PROVE Durable
    BY DEF SyncedIsDurable
  <2>2. SectorOK(dev) /\ FrameOK(dev, bits) /\ SyncedOK
    BY DEF StorageInv
  <2>3. ~dev.dirty /\ ~dev.frame_dirty /\ dev.media = dev.drive
    BY <2>1, <2>2 DEF SyncedOK
  <2>4. dev.media = dev.view
    BY <2>1, <2>2, <2>3, CleanDriveIsView
  <2>5. ASSUME NEW f \in Frames PROVE dev.media[f[1]][f[2]] = bits[f]
    BY <2>1, <2>2, <2>3, <2>4, CellFacts DEF FrameOK
  <2> QED BY <2>4, <2>5 DEF Durable
<1> QED BY <1>1, <1>2, <1>3, <1>4, <1>5 DEF CachesAreCoherent, WritesAreDurable

(* What is on the blank disk: zero everywhere.                             *)
LEMMA BlankFacts ==
    /\ Blank \in Disk /\ 0 \in Value
    /\ \A f \in Frames : Blank[f[1]][f[2]] = 0
BY StorageAssumption, CellFacts DEF Blank, Disk, Value

(* A mounted disk satisfies the invariant.                                 *)
LEMMA StorageInitInv == StorageInit => StorageInv
<1> SUFFICES ASSUME StorageInit PROVE StorageInv
    OBVIOUS
<1>1. /\ device_type \in DeviceTypes
      /\ bits = [f \in Frames |-> 0] /\ synced = FALSE /\ n = 0
      /\ dev.media = Blank /\ dev.drive = Blank /\ dev.sector = None /\ dev.dirty = FALSE
      /\ dev.frame = None /\ dev.frame_dirty = FALSE /\ dev.view = Blank
      /\ dev.past = <<Blank>> /\ dev.failed = {}
    BY DEF StorageInit
<1>2. dev \in Device
    BY BlankFacts DEF StorageInit, Device
<1>3. SectorOK(dev)
    BY <1>1, <1>2, CellFacts DEF SectorOK, WindowOK, HistoryOK
<1>4. FrameOK(dev, bits)
    BY <1>1, BlankFacts, CellFacts DEF FrameOK
<1> QED BY <1>1, <1>3, <1>4, BlankFacts DEF StorageInv, SyncedOK

(* What a step has to show, device_type being fixed.                       *)
LEMMA StepOK ==
    ASSUME StorageInv, device_type' = device_type,
           SectorOK(dev'), FrameOK(dev', bits'),
           bits' \in [Frames -> Value], synced' \in BOOLEAN, n' \in Value, SyncedOK'
    PROVE  StorageInv'
BY DEF StorageInv, SectorOK, HistoryOK, WindowOK, FrameOK

(* A write of a byte.                                                      *)
LEMMA WriteStep ==
    ASSUME StorageInv, NEW c \in Cells, c \notin Frames, write(c)
    PROVE  StorageInv'
<1>1. /\ dev' \in fs_mem_write(dev, c, n + 1) /\ n' = n + 1 /\ n < MaxWrites
      /\ synced' = FALSE /\ bits' = bits /\ device_type' = device_type
    BY DEF write, Write
<1>2. n + 1 \in Value
    BY <1>1, StorageAssumption DEF StorageInv, Value
<1>3. /\ SectorOK(dev) /\ FrameOK(dev, bits) /\ bits \in [Frames -> Value]
      /\ dev \in Device
    BY DEF StorageInv, SectorOK
<1>4. /\ SectorOK(dev') /\ KeepsFrame(dev, dev')
      /\ dev'.failed = {} => dev'.view = [dev.view EXCEPT ![c[1]][c[2]] = n + 1]
    BY <1>1, <1>2, <1>3, MemWriteOK
<1>5. FrameOK(dev', bits)
  <2>1. ASSUME dev'.failed = {}, NEW f \in Frames
        PROVE  dev'.view[f[1]][f[2]] = dev.view[f[1]][f[2]]
    <3>1. f \in Sectors \X Offsets /\ c \in Sectors \X Offsets
      BY CellFacts DEF Cells
    <3>2. f[1] # c[1] \/ f[2] # c[2]
      BY <3>1
    <3> QED BY <1>3, <1>4, <2>1, <3>1, <3>2 DEF Device, Disk
  <2>2. dev.frame # None => dev.frame \in Frames
    BY <1>3 DEF Device
  <2> QED BY <1>3, <1>4, <2>1, <2>2 DEF FrameOK, KeepsFrame
<1> QED BY <1>1, <1>2, <1>3, <1>4, <1>5, StepOK DEF SyncedOK

(* A change of the bitmap frame.                                           *)
LEMMA BitmapSetStep ==
    ASSUME StorageInv, NEW f \in Frames, fs_bitmap_set(f)
    PROVE  StorageInv'
<1>1. /\ n' = n + 1 /\ n < MaxWrites /\ synced' = FALSE
      /\ bits' = [bits EXCEPT ![f] = n + 1] /\ device_type' = device_type
    BY DEF fs_bitmap_set, Write
<1>2. n + 1 \in Value
    BY <1>1, StorageAssumption DEF StorageInv, Value
<1>3. PICK x \in fs_bitmap_sync(dev, f) :
          dev' = [x EXCEPT !.bitmap = n + 1, !.frame_dirty = TRUE]
    BY DEF fs_bitmap_set, Write
<1>4. SectorOK(dev) /\ FrameOK(dev, bits) /\ bits \in [Frames -> Value]
    BY DEF StorageInv
<1>5. SectorOK(x) /\ FrameOK(x, bits) /\ x.frame = f
    BY <1>3, <1>4, BitmapSyncOK
<1>6. SectorOK(dev') /\ FrameOK(dev', bits')
    BY <1>1, <1>2, <1>3, <1>4, <1>5, SetBitOK
<1>7. bits' \in [Frames -> Value]
    BY <1>1, <1>2, <1>4
<1> QED BY <1>1, <1>2, <1>6, <1>7, StepOK DEF SyncedOK

(* A read of a byte.                                                       *)
LEMMA ReadStep ==
    ASSUME StorageInv, NEW c \in Cells, read(c)
    PROVE  StorageInv'
<1>1. /\ dev' \in fs_cache_flush_and_fetch(dev, c[1])
      /\ UNCHANGED <<device_type, bits, n, synced>>
    BY DEF read, Access
<1>2. SectorOK(dev) /\ FrameOK(dev, bits) /\ SyncedOK
    BY DEF StorageInv
<1>3. /\ Accessed(dev, dev') /\ Keeps(dev, dev')
      /\ ~dev.dirty => ~dev'.dirty
    BY <1>1, <1>2, CellFacts, FlushAndFetchOK
<1>4. SectorOK(dev') /\ FrameOK(dev', bits') /\ SyncedOK'
    BY <1>1, <1>2, <1>3 DEF Accessed, Keeps, KeepsFrame, FrameOK, SyncedOK
<1> QED BY <1>1, <1>4, StepOK DEF StorageInv

(* A look at the bitmap frame.                                             *)
LEMMA BitmapGetStep ==
    ASSUME StorageInv, NEW f \in Frames, fs_bitmap_get(f)
    PROVE  StorageInv'
<1>1. /\ dev' \in fs_bitmap_sync(dev, f)
      /\ UNCHANGED <<device_type, bits, n, synced>>
    BY DEF fs_bitmap_get, Access
<1>2. SectorOK(dev) /\ FrameOK(dev, bits) /\ SyncedOK
    BY DEF StorageInv
<1>3. /\ SectorOK(dev') /\ FrameOK(dev', bits) /\ dev.failed \subseteq dev'.failed
      /\ ~dev.dirty /\ ~dev.frame_dirty =>
            /\ dev'.media = dev.media /\ dev'.drive = dev.drive
            /\ ~dev'.dirty /\ ~dev'.frame_dirty
    BY <1>1, <1>2, BitmapSyncOK
<1>4. SyncedOK'
    BY <1>1, <1>2, <1>3 DEF SyncedOK
<1> QED BY <1>1, <1>3, <1>4, StepOK DEF StorageInv

(* A flush of the window.                                                  *)
LEMMA FlushStep ==
    ASSUME StorageInv, flush
    PROVE  StorageInv'
<1>1. dev' \in fs_bitmap_flush(dev) /\ UNCHANGED <<device_type, bits, n, synced>>
    BY DEF flush, Access
<1>2. SectorOK(dev) /\ FrameOK(dev, bits) /\ SyncedOK
    BY DEF StorageInv
<1>3. /\ SectorOK(dev') /\ FrameOK(dev', bits)
      /\ ~dev.frame_dirty => dev' = dev
    BY <1>1, <1>2, BitmapFlushOK
<1>4. SyncedOK'
    BY <1>1, <1>2, <1>3 DEF SyncedOK
<1> QED BY <1>1, <1>3, <1>4, StepOK DEF StorageInv

(* The synchronisation of the device.                                      *)
LEMMA DeviceSyncStep ==
    ASSUME StorageInv, fs_device_sync
    PROVE  StorageInv'
<1>1. /\ UNCHANGED <<device_type, bits, n>>
      /\ synced' = (dev'.ok /\ ~dev'.frame_dirty /\ ~dev'.dirty)
    BY DEF fs_device_sync, Access
<1>2. PICK x \in fs_bitmap_flush(dev) : dev' \in fs_cache_flush(x)
    BY DEF fs_device_sync, Access
<1>3. SectorOK(dev) /\ FrameOK(dev, bits) /\ device_type \in DeviceTypes
    BY DEF StorageInv
<1>4. SectorOK(x) /\ FrameOK(x, bits) /\ ~x.frame_dirty
    BY <1>2, <1>3, BitmapFlushOK
<1>5. /\ SectorOK(dev') /\ Keeps(x, dev') /\ ~dev'.dirty
      /\ dev'.failed = {} => dev'.media = dev'.drive
    BY <1>2, <1>3, <1>4, CacheFlushOK
<1>6. FrameOK(dev', bits)
    BY <1>4, <1>5 DEF FrameOK, Keeps, KeepsFrame
<1>7. synced' \in BOOLEAN
    BY <1>1
<1>8. SyncedOK'
    BY <1>4, <1>5 DEF SyncedOK, Keeps, KeepsFrame
<1> QED BY <1>1, <1>5, <1>6, <1>7, <1>8, StepOK DEF StorageInv

(* On ATA the media has the sector already, unless a flush failed.         *)
LEMMA DestageStep ==
    ASSUME StorageInv, NEW s \in Sectors, Destage(s)
    PROVE  StorageInv'
<1>1. UNCHANGED <<device_type, bits, synced, n>>
    BY DEF Destage
<1>2. dev \in Device /\ SectorOK(dev) /\ FrameOK(dev, bits) /\ SyncedOK
    BY DEF StorageInv, SectorOK
<1> DEFINE media == [dev.media EXCEPT ![s] = dev.drive[s]]
<1>3. dev' = [dev EXCEPT !.media = media]
    BY <1>2 DEF Destage
<1>4. /\ media \in Disk
      /\ dev.media = dev.drive => media = dev.media
    BY <1>2 DEF Device, Disk
<1> HIDE DEF media
<1>5. /\ dev' \in Device /\ dev'.media = media /\ dev'.frame_dirty = dev.frame_dirty
      /\ dev'.frame = dev.frame /\ dev'.bitmap = dev.bitmap
      /\ dev'.failed = dev.failed /\ dev'.view = dev.view /\ dev'.past = dev.past
      /\ dev'.dirty = dev.dirty /\ dev'.sector = dev.sector /\ dev'.window = dev.window
      /\ dev'.drive = dev.drive
    BY <1>2, <1>3, <1>4 DEF Device
<1>6. HistoryOK(dev')
    BY <1>2, <1>4, <1>5 DEF SectorOK, HistoryOK
<1>7. SectorOK(dev') /\ FrameOK(dev', bits) /\ SyncedOK'
    BY <1>1, <1>2, <1>4, <1>5, <1>6 DEF SectorOK, WindowOK, FrameOK, SyncedOK
<1> QED BY <1>1, <1>7, StepOK DEF StorageInv

(* A power loss forgets the caches and keeps the drive.                    *)
LEMMA MachineStopsStep ==
    ASSUME StorageInv, MachineStops
    PROVE  StorageInv'
<1>1. /\ device_type' = device_type /\ n' = n /\ synced' = FALSE
      /\ bits' = [f \in Frames |-> dev.media[f[1]][f[2]]]
    BY DEF MachineStops
<1>2. dev \in Device /\ dev.media \in Disk
    BY DEF StorageInv, SectorOK, Device
<1> DEFINE past == <<dev.media>>
           off == [dev EXCEPT !.drive = dev.media, !.view = dev.media, !.past = past]
<1>3. past \in Seq(Disk) /\ Len(past) = 1 /\ past[1] = dev.media
    BY <1>2
<1> HIDE DEF past
<1>4. /\ off \in Device /\ off.media = dev.media /\ off.drive = dev.media
      /\ off.view = dev.media /\ off.past = past
    BY <1>2, <1>3 DEF Device
<1>5. dev' = [off EXCEPT !.sector = None, !.dirty = FALSE, !.frame = None, !.frame_dirty = FALSE]
    BY DEF MachineStops, Opened, past
<1> HIDE DEF off
<1>6. /\ dev' \in Device /\ dev'.media = dev.media /\ dev'.drive = dev.media
      /\ dev'.view = dev.media /\ dev'.past = past /\ dev'.sector = None
      /\ dev'.dirty = FALSE /\ dev'.frame = None /\ dev'.frame_dirty = FALSE
    BY <1>4, <1>5 DEF Device
<1>7. SectorOK(dev')
    BY <1>6, <1>3, CellFacts DEF SectorOK, WindowOK, HistoryOK
<1>8. FrameOK(dev', bits') /\ bits' \in [Frames -> Value]
    BY <1>1, <1>2, <1>6, CellFacts DEF FrameOK, Disk
<1> QED BY <1>1, <1>7, <1>8, StepOK DEF StorageInv, SyncedOK

(* Every step preserves the invariant.                                     *)
LEMMA StorageNextInv == StorageInv /\ [StorageNext]_storageVars => StorageInv'
<1> SUFFICES ASSUME StorageInv, [StorageNext]_storageVars PROVE StorageInv'
    OBVIOUS
<1>1. CASE \E c \in Cells : write(c) /\ c \notin Frames
    BY <1>1, WriteStep
<1>2. CASE \E c \in Cells : read(c)
    BY <1>2, ReadStep
<1>3. CASE \E f \in Frames : fs_bitmap_set(f) \/ fs_bitmap_get(f)
    BY <1>3, BitmapSetStep, BitmapGetStep
<1>4. CASE \E s \in Sectors : Destage(s)
    BY <1>4, DestageStep
<1>5. CASE flush
    BY <1>5, FlushStep
<1>6. CASE fs_device_sync
    BY <1>6, DeviceSyncStep
<1>7. CASE MachineStops
    BY <1>7, MachineStopsStep
<1>8. CASE UNCHANGED storageVars
    BY <1>8 DEF storageVars, StorageInv, SectorOK, WindowOK, HistoryOK, FrameOK, SyncedOK
<1> QED BY <1>1, <1>2, <1>3, <1>4, <1>5, <1>6, <1>7, <1>8 DEF StorageNext

(* The invariant of the caches holds throughout.                           *)
LEMMA StorageInvariant == StorageSpec => []StorageInv
<1> QED BY StorageInitInv, StorageNextInv, PTL DEF StorageSpec

(* fs_cache_flush_and_fetch and fs_bitmap_sync: whichever of the sector    *)
(* window and the bitmap frame evicts the other, and whatever commands     *)
(* fail, no write that was accepted is lost.                               *)
THEOREM StorageCachesAreCoherent == StorageSpec => []CachesAreCoherent
<1> QED BY StorageInvariant, StorageInvImplies, PTL

(* ata_write_sector and fs_cache_flush: what a power loss leaves is the    *)
(* disk after some prefix of the writes on ATA, and everything after a     *)
(* vfs_sync_all that met no fault on either driver.                        *)
THEOREM StorageWritesAreDurable == StorageSpec => []WritesAreDurable
<1> QED BY StorageInvariant, StorageInvImplies, PTL
=============================================================================
