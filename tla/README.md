# A TLA+ verification project for AVR-Kernel

This directory holds TLA+ models of the kernel's core, the TLC configurations
that check them on small instances, and proofs that TLAPS checks for every
value of the constants. `PROJECT.json` maps each definition to the lines it
models, and lists the runs, the mutated definitions that each property must
catch, the hazards, the findings and the theorems. Paths below are relative to
`src/kernel/`.

## 1. The system

The repository is a small operating system: a 32-bit x86 kernel with preemptive
threads, a window manager and a disk file system, with an older
single-threaded AVR port and a Raspberry Pi 4 boot stub beside it.

### Components

| Component | State | Operations | Interacts through |
|---|---|---|---|
| Mutexes (`boot/x86/mutex.c`) | `locked`, `owner`, a queue of waiter nodes on the waiters' stacks | `mutex_lock`, `mutex_trylock`, `mutex_unlock` | thread states; the scheduler switches blocked threads away |
| Events (`boot/x86/scheduler.c`) | `signaled`, a list of waiting ThreadBlocks | `event_wait`, `event_signal`, reset, destroy | thread states, the timer |
| Scheduler (`boot/x86/scheduler.c`) | run queue, reap list, `current_thread`, per thread: state, base and dynamic priority, CPU usage, wait time, boost, ticks | the timer and yield handler, create, exit, sleep, yield | entered by the timer interrupt and by `int 0x80` |
| Process table (`scheduler/process.c`) | slots with generations, thread lists, page directories | create, destroy, kill threads | marks threads DEAD for the scheduler to reap |
| Memory (`arch/x86/slab.c`, `malloc.c`, `virtual/`) | frames, virtual pages, slab pages with free lists | malloc, free, realloc, map and unmap page runs, thread stacks | everything allocates |
| Kernel object heap (`arch/x86/heap.c`, `arch/avr/heap.c`) | a block bitmap, headers inside the pool | `kmalloc`, `kfree`, the walk `kmalloc_next` | knodes live in it |
| VFS (`vfs/`) | a recursive lock, mounted devices, an open table | path resolution, open/read/write/close, remove, copy, sync | the one lock above all file-system calls |
| BaseFS (`fs/basefs/`) | on disk: allocation bitmap, directory and file headers, extents; in memory: bitmap frame, one-sector window | create, delete, resize, recursive delete, allocate, free, sync | ATA and AHCI drivers below |
| Disk drivers (`arch/x86/drivers/ata`, `ahci`) | controller registers; the drive's write cache | sector read, sector write, cache flush | called by the sector cache |
| File copy (`dwm/windows/filecopy.c`) | a queue of jobs with items, a worker thread, an event | summon, add, cancel, copy, verify, move | worker takes `kernel_big_lock` and calls the VFS; the DWM thread adds and cancels |
| Window manager (`dwm/`) | windows, z-order, focus, message ring, icons, menus, drag and rename state | frames: focus change, dispatch, mouse, draw; create, destroy | runs under `kernel_big_lock`; window procedures are called back |
| Clipboard (`dwm/dwm_clipboard.c`) | one packed payload, a sequence number | cut, copy, paste, complete a cut | hands files to the copy window, which calls back |
| Kernel events (`events.c`) | a list of events with alive flags | send, remove, update in three steps | any thread sends; the kernel thread acts unlocked |
| Input (`boot/x86/interrupt.c`, keyboard, mouse, PS/2) | modifier state, partial packets, key ring, mouse ring | interrupts, drain | interrupt handlers against the DWM thread |
| Knodes (`knode.c`) | directories with references and linked extents | create, destroy, add and remove references | VFS paths start here |
| Registry (`registry/`), resources (`resources/`, `dwm/resources.c`, `boot/x86/boot.c`) | key trees and their hive files; image files and the table of images | edit, export, import; save at boot, load | VFS |
| Explorer, Notepad (`programs/`) | a listing with a menu and an edit field; a text buffer with caret and selection | mouse, keys, menu commands | DWM messages, VFS, clipboard |
| Console, syscall commands | text | user commands | VFS |
| X4 emulator (`emulation/x4/`), AVR port | a CPU and its memory | execute | console |

### What is hard here, and what correctness means

* **Interleaving with interrupts.** The kernel is preemptive and has one CPU:
  everything between `irq_save` and `irq_restore` is one step, everything else
  interleaves. A thread that blocks gives up the CPU in the middle of a call
  and resumes later in a state others have changed. Correct: no wake-up is
  lost, a resumed thread has what it waited for, nobody waits for ever.
* **Lifetimes.** Threads die by themselves or are killed, and their stacks are
  freed by a later scheduler entry. Correct: the stack in use is never freed.
* **Scheduling policy.** Priorities degrade, recover and are boosted. Correct:
  bounds hold, waits are bounded, no thread starves.
* **Power loss.** BaseFS has no journal; the order of writes inside each
  operation is all that protects the tree. Correct: what a lookup finds is
  intact after a loss at any write of a delete, and operations on a damaged disk end.
* **Caches.** Three caches lie between BaseFS and the media. Correct: eviction
  loses nothing, the allocator sees its own bits, the disk is a prefix of the
  writes, a successful sync is durable.
* **Partial failure.** A copy can fail or be cancelled at every chunk, a mapping
  or a process creation can run out of memory half way. Correct: what counts as
  copied is complete, a failure gives back exactly what was taken, no data
  disappears.
* **References that outlive their object.** Process ids, descriptors, window
  handles, drag and rename pointers, menu indices and clipboard sequence
  numbers are kept while what they name may go away. Correct: an old name
  never acts on a new object.
* **Files as formats.** Hives and images are written field by field and read
  back by code with limits of its own. Correct: what was stored completely
  comes back, what was torn is not taken for something else.

`PROJECT.json` lists the places where this bites, with the line and the
property that would catch it going wrong; section 5 has the ones without one.

## 2. Modules

    FifoLock    <-- Sync          <-- MCSync            SyncProofs
    ThreadLife  <-- Scheduler     <-- MCScheduler       SchedulerProofs
    FileTree    <-- BaseFS        <-- MCBaseFS, MCEnds  BaseFSProofs
                    Storage       <-- MCStorage, MCEnds StorageProofs
                    KernelEvents  <-- MCEnds            KernelProofs
                    FileCopy      <-- MCFileCopy        FileCopyProofs
    Process, VFSLock, Input, X4                         KernelProofs
    Memory, KHeap, Knode                                MemoryProofs
    VFS <-- VFSCopy, and
    Process, VFSLock, Input, X4, Memory, KHeap, Knode <-- MCKernel
    Windows <-- Desktop,
    Clipboard, Registry, Resources, Explorer, Notepad  <-- MCDesktop

In the first three lines FifoLock, ThreadLife and FileTree are abstract
specifications, instantiated by the detailed module with a refinement mapping.
The MC modules extend the detailed ones with the values TLC needs, the proof
modules with theorems. `Lists` has the one operation on lists that
Scheduler, KernelEvents and Memory share, taking members out, and `ListProofs`
what is known of it, of the flattening of lists and of the first occurrence of
a member. A definition commented `variant:` is not used by a
specification: it is a plausible bug in the definition that follows, which the
property named in `PROJECT.json` has to detect.

MCEnds, MCKernel and MCDesktop each hold several components whose models share
no variable. The variable `part`, chosen at the start, says whose behaviour it
is, and the others keep their initial state: interleaving the steps of
components that share nothing would multiply states without adding a case.
Where components do interact, they are composed: VFSCopy runs on VFS with the
calls of other threads in between, Desktop on Windows, FileCopy with the DWM
thread. Storage is one level below BaseFS: its `DiskIsPrefix` is what BaseFS's
crash model assumes.

### Sync: mutexes and events

State: `state` and `current` are the ThreadBlock states and `current_thread`;
`locked`, `owner`, `waitq` the mutex fields; `signaled`, `waiters`,
`wait_event`, `wait_signaled` the event fields. `lockOn` and `waitOn` are the
calls a thread is suspended in (its program counter), `held` what its completed
calls told it, and the ghost `seen` whether its event was signaled since the
wait began. `mutex_lock` is three actions: the fast path, the slow path up to
the switch (one step, because interrupts are off), and the resumption;
`event_wait` likewise. `event_signal` may come from an interrupt handler, so it
needs no running thread. The scheduler is abstracted to "some READY thread
runs next" (`Switch`); module Scheduler has its policy. Callers take mutexes in
the order `vfs_internal.h` documents; `trylock` may be out of order.

`FifoLock` is what the mutex promises: a line of threads per lock, joined at
the end and left at the head, the head being the owner.

### Scheduler

State: `blk`, one record per ThreadBlock (state, `prio`, `dyn`, `cpu`, `wait`,
`boosted`, `ticks`, `wake` and the age of the recovery mark), the run `queue`, the `reap` list and
`current`. `thread_handler_c` is one action, built from one operator per phase
in the order of the code: reap, charge the CPU time, wake sleepers, age and
unlink the dead, drop the boost, choose, retire, switch. Times are relative to
now, in milliseconds: what is left until the wake tick, and the age of a mark. `Block` and `MakeReady` stand for
mutexes and events, `KillThread` for the loop of `process_kill_threads`. When
`Recycle` is FALSE a block is used once, so that liveness is not about an
unbounded stream of new threads; with TRUE it is freed and reused.

`ThreadLife` is the life a thread may lead: created READY, READY to RUNNING and
back, sleeping or blocked only from RUNNING, and, once DEAD, off the CPU before
it is freed and never woken.

### BaseFS

State: `disk` (bitmap bits, allocation sizes, objects by block), the running
`op` with its locals `call`, and `todo`, the device writes the operation still
has to make. An operation computes the list of writes it makes in order, and
`WriteBack` performs one; `PowerLoss` drops the rest. Operations that read in
between (the recursive delete, growing a file) have an action per round of
their loop. `fs_directory_delete_recursive` is `remove_directory` followed by
`WalkDone`, `WalkUp`, `WalkDown` and `WalkUnlink`, with its budget of steps.
`lost` records that a loss has happened; with `UseAfterLoss` FALSE no operation
starts afterwards, which separates what a loss leaves from what later
operations make of it. File contents, names and attributes are abstracted away;
sizes, extents, counts, links and parents are kept. An object lies in one
sector, so one device write is atomic.

`FileTree` is a tree in which one entry appears or disappears at a time, and
in which a delete takes away only what lies under what it was asked to delete.

### Storage

State: `dev`, with the media, the drive's view of it, the sector window, the
bitmap frame and their dirty flags; ghosts `view` (every write the window
accepted), `past` (its history), `failed` (faults met) and `bits` (the bitmap
as the allocator set it). Each function of `backend/io_x86.c` and `bitmap.c` is
an operator from a device to the set of devices it can end in, since each
command can fail. The drive may write a cached sector at any time; a power loss
reopens the device from the media.

BaseFS assumes that the disk after a loss is a prefix of the writes.
`DiskIsPrefix` is this assumption, checked one level below. It holds for ATA,
which flushes after every sector; on AHCI the drive may reorder, so BaseFS's
crash results are about ATA disks (and AHCI drives without a write cache).

### FileCopy

State: the file system as a function from paths to entries, the `jobs` queue,
the worker's `pc` and stack of folder `frames`, the current item `cp`, the last
`report`. The worker takes and gives up `kernel_big_lock` where the code does;
the actions between are the places where the DWM thread (summon, add, cancel)
and other threads (edit, create) get in. Every read, write, allocation and
resize can fail, and data is chunks, so that a short or corrupted copy differs
from its source. The VFS calls are external: modelled from how `filecopy.c`
uses them. The disk is a tree: an item is created in a folder that exists, a
folder is made and an item removed only in a writable one, and the entries of a
folder are asked for by their index, as `vfs_directory_get_item` has them, while
the count stays the one read when the folder was entered.

### Process

State: `process_table` with its slots and generations, the threads, the page
directories in use, and per caller its place in `CreateProcess`, which is
interruptible between its locked sections. Create fails after the slot, after
the address space and in the thread; `DestroyProcess` kills the threads and
frees the slot in one locked section; the reaper ends a killed thread later.
Pids are generation and slot; the generation wraps and skips zero.

### Input and KernelEvents

Input follows bytes from the PS/2 controller's one-byte buffer through the two
interrupt handlers, the scan-code state machine and the mouse packets into
rings with the indices of the code, and out into the DWM thread, which sleeps
on `input_event`. The devices and their output buffer are external. Ctrl+Alt+Del
restarts the machine and ends the behaviour. KernelEvents has `kernel_event_update` as its
three steps: mark under the mutex, act without it, sweep under it.

### Memory, KHeap, Knode

Memory is the state of `pmm.c`, `vmm.c`, `slab.c` and `malloc.c` in one record,
with every operation a function of it, since `realloc` is a malloc followed by a
free. Its clients hold pointers, page runs and stacks with a guard page. KHeap
is the block bitmap of both ports; what callers write into their objects may
look like a header and stays in the pool. Knode has the directories and the
doubly linked extents behind them, one entry and one extent at a time.

### VFS, VFSCopy, VFSLock

Every VFS call is made under one lock, so in VFS it is one step; VFSLock shows
why that is so, with each read and write of `vfs_owner` and `vfs_depth` a step.
VFS resolves paths over kernel nodes, the mount and the device, and keeps the
open table. VFSCopy is `vfs_copy` one call at a time: lookups, the walk down a
folder, data, flags and the roll-back, with calls of other threads between.

### X4

The loop of `x4_emulate` with register, compare, jump, stack, call and interrupt
instructions. The instruction at an address is chosen when it is first
fetched, so that TLC covers all programs over the instruction set given. AND, OR and
XOR are arithmetic on the bits that two bytes have in common (`Common`).

### Windows, Desktop, Clipboard

Windows has the data structures: list, tree, focus, ring, and the nested
handling of a CLOSE. Desktop is `dwm_update` in its phases, with mouse, drags,
menus, rename box, icons, and the procedures of taskbar, start menu, message box
and delete dialog; between the frames come keys, programs and the copy thread.
Clipboard has the packing of three formats, every reader, and cut and paste
with copy windows that finish late.

### Registry, Resources, Explorer, Notepad

Registry and Resources write and read files as sequences of cells, so a write
that stops early leaves a file that is really read by the importer. Explorer is
the window procedure with its listing, menus and edit field over a folder that
other programs change. Notepad has every editing key, the mouse, the two menus
and the clipboard, and the three functions that lay out text.

## 3. Runs

| Run | Checks | Bounds |
|---|---|---|
| `sync` | mutual exclusion, hand-off and wait lists exact, no lost wake-up, exact wait results, refinement of FifoLock; every `mutex_lock` is granted, every timed or signaled `event_wait` returns; no deadlock | 3 threads, 2 mutexes, 1 event |
| `sched` | the running stack is not reaped, exact queues and types, priority bounds, bounded wait and boost not preempted, refinement of ThreadLife, every READY thread runs or is killed; no deadlock | 3 threads created once, REALTIME and one lower level, starvation after 2 ms |
| `filecopy` | exact copies, final cancel and full report (`CopiesAreSound`), cleanup of its own only, nothing lost, failures clean, every job ends | 2 items, folders 1 deep, all faults, 1 act of another thread |
| `basefs_ops` | live entries and no shared block (`TreeIsSound`), deletes complete, successful and confined, refinement of FileTree; losses inside resizes and deletes | 6 blocks, 6 operations, 1 entry per header and extent |
| `ends` | BaseFS operations end on damaged disks too; kernel events are served once, in order and in the end; caches coherent, writes durable in order | 5 blocks, 5 operations, losses everywhere; 3 events; 2 sectors of 2 cells, 2 writes, ATA and AHCI, faults |
| `kernel` | processes own their ids and address spaces; input arrives; memory is owned; heap walks and knode lists are exact; names and copies of the VFS; the recursive lock; nested calls | 2 callers, 2 slots, 4 creations; 3 inputs; 5 pages, 4 frames, 3 objects; 7 heap blocks; 6 knode addresses; 4 VFS calls; 3 lock threads nesting 2 deep; 6 instructions |
| `desktop` | no dangling window-manager pointer, focus told; clipboard reads back, cuts end themselves; hives come back; images right, user files kept; explorer shows its folder; editor bounds and layout | 4 windows, 5 inputs; 3 changes, 1 paste; 2 edits, 2 starts; 2 boots; 6 acts; 3 editing events |
| `sched_starvation` | violated: starvation with recycled REALTIME threads | 3 threads |
| `filecopy_move_race` | violated: a move deletes a file it did not copy | 1 item, 1 created file |
| `basefs_escape` | violated: after a loss in a resize a delete frees a foreign file | 5 blocks, 6 operations |
| `storage_sync` | violated: a sync that lost a write reports success | 2 sectors, failing sync writes |
| `explorer_rename` | violated: an item is renamed though Rename was not chosen | 1 window, 7 acts |

**Why the bounds suffice.** Three threads give a mutex an owner, a waiter and a
barging thread, and two mutexes their order. Three threads at two priorities
give the scheduler a REALTIME thread, one to preempt and one to starve, with the
tuning constants scaled down so that degradation, recovery and the boost all
happen. Capacity one per directory header and extent makes the second entry
need an extent and the third another; six blocks fill up within the six
operations, so every allocation fails somewhere. Two sectors make every access
to the other an eviction, two cells let a frame and data share a sector; with
two writes one is in each cache. Two items are the least with an order, in one
job or in two. Two slots, two thread blocks and generations up to 2 let a slot
be reused until its generation wraps, with creations failing for want of each
resource. A key ring of one usable entry and a mouse ring of two overflow. Four
frames for five pages make frames run out before addresses. An AVR heap of
seven blocks has room for two objects with a hole. Six knode addresses give a
directory two extents, so the first and the last can each go. The message ring
of six overflows within a frame of five inputs. Hives go one level deeper than
an import accepts and hold values one byte longer. Texts of four and five bytes
over one and two columns have wraps, line breaks and an empty last row.

**Deadlock** is checked in `sync` and `sched`. The other models really stop:
their bounded supply of operations or inputs is used up.

### Fairness

* Sync: a resumed call is finished; sleepers are woken and READY threads
  dispatched (strong fairness of `Scheduled`: the timer ticks and the scheduler
  starves nobody, which `sched` checks of its policy); threads that keep
  running leave their critical sections. The last is an assumption on callers:
  every `mutex_lock` in the tree is followed by its unlock.
* Scheduler: the timer ticks. Nothing is assumed of the threads.
* FileCopy: the worker is scheduled. Nothing is assumed of users.
* BaseFS: the calling thread carries the operation on.
* KernelEvents: `thread_kernel_main` keeps polling, so a scan, an action and a
  sweep that can happen do (weak fairness of `Scan`, `Act`, `Sweep`). Nothing is
  assumed of senders.

### Findings

* `sched_starvation`: the boost puts a thread at REALTIME, but the search for
  the next thread restarts at the head of the list when the previous one died.
  REALTIME threads that keep replacing each other are found first every time,
  against the promise of `scheduler.h:37`.
* `filecopy_move_race`: a folder's entries are counted once. What another
  thread adds during the copy is removed with the original at the end of a move.
* `basefs_escape`: a resize frees extents before it rewrites the header. After a
  power loss in between, blocks are reached from two files, and a recursive
  delete frees one that it does not own, against `directory.c:474`.
* `storage_sync`: `fs_cache_sync` clears `sector_dirty` when the ATA write
  failed; `fs_cache_flush` tests exactly that flag to report the failure.
* `explorer_rename`: a right click on an item sets `context_item_index`, keys go
  to the hidden edit field, and the next click elsewhere is taken for the end of
  a rename: the item gets the typed name although Rename was never chosen.

Five more disagreements between a comment and the code came up and were
confirmed by TLC on these models; they have no run of their own:

* `emulation/x4/opcodes.h:607`: an INT that has to wait steps the program counter
  back by two from behind its opcode, one byte too far, so the byte before the
  INT is executed next.
* `dwm/dwm_core_internal.c:338`: focus that leaves and returns between two frames
  is never announced, so a start menu can stay open without the focus, against
  the comment at line 331.
* `programs/notepad/procedure.c:434`: END on a wrapped row asks for a column that
  the row does not have and lands at the end of the text; line 122 says that such
  a column snaps to the end of the line.
* `boot/x86/boot.c:137`: an image whose save stopped behind its header exists and
  loads with blank pixels, so the desktop does not use the built-in copy.
* `dwm/windows/filecopy.h:54`: nothing should be left behind for an item that
  failed, but `vfs_open` creates a file in a read-only folder and `vfs_remove`
  (`vfs_file.c:282`) refuses to take it out again, so the partial copy stays. In
  a writable folder it does not, which `CleanFailure` says.

## 4. Proofs

TLAPS checks, for every value of the constants that the named assumption of the
module allows:

| Module | Theorems | Assumptions |
|---|---|---|
| `SyncProofs` | `SyncTypeCorrect`, `SyncMutualExclusion` (with `ResumedOwnsMutex`), `SyncBlockedIsFindable`, `SyncEventsExact`, `SyncHandOverExact`, `SyncImplementsFifoLock` | there is a thread; mutexes are numbered in lock order; "no thread", "no mutex", "no event" and "idle" are not members of the sets |
| `SchedulerProofs` | `SchedulerCurrentIsSafe`, `SchedulerPriorityBounds`, `SchedulerQueuesAreSound`, `SchedulerBoostIsKept`, `SchedulerImplementsThreadLife` | positive tuning constants, priorities between 1 and REALTIME |
| | `SchedulerWaitIsBounded` | also: finitely many threads, no ThreadBlock is used twice |
| `BaseFSProofs` | `TreeStaysSound`, `DeleteKeepsToItself` | at least one block, room for a reference in a header and in an extent; power is lost in a resize or a delete only, and the disk is not used after it (`Guarded`) |
| `StorageProofs` | `StorageCachesAreCoherent`, `StorageWritesAreDurable` | "none" is no sector and no frame |
| `FileCopyProofs` | `FileCopiesAreSound`, `FileCleanupIsOurs`, `FileNothingLost`, `FileCleanFailure`, `FileMoveIsSafe` (with `FileCopyInvariant`) | paths are finitely many and not empty; the disk starts as a tree; at least one attempt for a free name |
| `KernelProofs` | `ProcessesSound` | slots are numbers, at least one generation, "none" is no slot or thread |
| | `VFSRecursionIsSound` | "no thread" is no thread |
| | `InputReachesDwm` | scan codes of 7 bits, none whose break code is E0 and no extended shift; packets of three bytes that start with the marked one; a display with pixels; a key ring of two slots or more, a mouse ring of three or more |
| | `X4CallsNest` | jump and call targets are addresses, a stack of more than 8 bytes |
| | `EventsTasksRunOnce` (with `EventsInvariant`) | the empty name is no program |
| `MemoryProofs` | `MemoryOwned` | a page has room for one object of each cache behind its header, stacks have two pages, no request is for 0 bytes |
| | `HeapWalkIsExact` | blocks are not empty, the reserved ones are in the pool |
| | `KnodeListsAreExact` | finitely many addresses, none of them 0; a directory and an extent have room for a reference |
| `ListProofs` | what `WithoutAll` keeps, in which order; what a flattened list holds; a list without the first occurrence of a member | none |

Each theorem is proved from an inductive invariant, with a lemma per action and
lemmas for what actions share. What a reader should know of each:

**Sync** (`IndInv`). Mutual exclusion alone is not
inductive: `mutex_unlock` hands the mutex to the first in the queue, so it must
be known that queued threads are blocked inside `mutex_lock` on that mutex,
once each (`QueueIsLive`), that a free mutex has no queue and an owned one is
held or about to be (`MutexShape`), and that no event or timer readies such a
thread (`EventShape`, `WaitListExact`). A shared lemma says what a switch does.
The other theorems follow from the invariant. The refinement shows that every
step leaves the line of each mutex alone, appends to it, or drops its head.

**Scheduler** (`IndInv`, `QueueInv`). `IndInv` has the types of the blocks,
`PrioritySound` of each, the relation of RUNNING and `current`, and that reaped
threads are DEAD. `QueueOK` adds that the queue has each thread in use and not
reaped once. The handler is a composition of phases, so the proof has one
lemma per phase about a single block (charge, recover, age, retire, run) and
lifts them to all threads; `PreparedStates` sums up what the phases before the
choice do to the states, and the refinement of ThreadLife and the fate of a
boosted thread are read off it. Division is used only through a lemma that
bounds the allotment.

That a wait is bounded (`WaitInv`) is a matter of what a boosted thread has still to
wait (`StillToWait`): the ticks of the thread that runs, a quantum for each thread
that the search meets before it in the circle of the queue (`Ahead`), and, for each
thread that can still die, one more round over those that are left, since the search
starts again at the head of the list when the previous thread is gone. What it has
waited and what it has still to wait never exceed `WaitBound`: a tick moves one
millisecond from the one to the other, a switch takes one thread out of `Ahead`, a
death one out of `Coming` and pays for the new round with it. Nothing goes back as
long as no block is used twice; with recycled blocks the bound is false, which is
what the run `sched_starvation` shows.

**BaseFS** (`Fit`). `TreeIsSound` looks at what a lookup finds from the root; the
invariant names it. There is a chain of blocks for each header in use, its extents
in the order of their links, no block in two places, all of them allocated, and every
entry is one of these headers or the one being made (`Sound`). Between operations the
disk is also ready for the next one (`Quiet`): chains end, `prev` links lead back and no
extent of a directory is empty. An operation computes its writes in advance, so the invariant says of the writes that
remain that there is a disk after each of them, sound on the way and ready at the end
(`Runs`); that each operation starts such a list is the bulk of the proof: one lemma
for each thing a write can do to a chain (append, unlink, cut, make, take away), each
with the chains before and after. Growing a file (`Growing`) and the walk of the
recursive delete (`Walked`: the current directory lies in the subtree of the target,
and what was unlinked is gone) connect one round of a loop to the next. A delete
changes the size only of blocks outside every chain, which is `DeleteKeepsToItself`.

`Guarded` is needed. A create that the power interrupts leaves an entry whose header
was never written, so a lookup reads what its block held before. After a resize or a delete that it interrupts the tree is still
sound, which is proved, but its links are not those that the next operation
relies on: the run `basefs_escape` shows it for a resize, and TLC finds the same for a
delete, where the loss falls between the two links that
`fs_directory_extent_unlink_and_free` (`directory.c:92`) rewrites: the `prev` left
behind makes a later unlink free an extent that is still linked.

**Storage** (`StorageInv`). That an eviction may forget a clean window or a clean
frame needs to know what a clean one holds: `WindowOK` and `FrameOK` say, level
by level, that the copy above is the copy below wherever it is not dirty, as
long as the command that could break it has not failed. `HistoryOK` ties the
media of an ATA disk to one moment of the history, which each flush moves to
the last; `SyncedOK` what a sync without faults left.

**FileCopy** (`CopyInv`). Any tree, any depth of folders, any jobs, faults and other
threads. What is counted is what was taken off the list (`JobsOK`). The stack of
folders is a chain of paths below the item, each with its place below the
destination (`StackOK`, `Chained`), and source and destination are apart, so a
step never writes an original (`SourceKeeps`) nor a finished copy
(`CopiedKeeps`). That a copy is whole when it is counted needs to know, for every
folder on the stack, that the entries with a smaller index than its position are
copied with all that is below them (`FrameExact`), and for the file in hand which
chunks have been compared (`FileExact`). What is below the destination was created
by the copier (`OnlyOwn`), so removing it loses nothing (`Kept`). These last three
hold as long as no other thread touches the files (`Undisturbed`); the rest holds
whatever they do. `FileMoveIsSafe` says of moves what `MoveDeletesCopied` claims:
the run `filecopy_move_race` breaks it by a race and nothing else can.

**Process** (`ProcessInv`). A caller between its locked sections owns the slot it
fills (`CallersOK`), so two creations never meet in one; a directory has one
owner (`DirectoriesOK`) and outlives no thread that runs on it (`ThreadsOK`).
Ids need the arithmetic of the wrap: `IdsOK` has the generation that a slot must
be at after so many reuses, so an id equals a later one only after
`PID_GEN_MASK` reuses. `ReturnsOK` carries it over the read of the id after the
lock is released.

**Input** (`InputInv`). The property looks at moments when no byte is under way, so
the invariant is about all the bytes that are: those the keyboard has not sent, the
one in the port, and the E0 that waits for its second. They are a run of scan steps
(`LeadsTo`) from the state of the driver to what the user did (`KeyboardOK`), and
those of the mouse from the packet being assembled to where the mouse is
(`MouseOK`). Every stroke lengthens the run at its end, where Shift and the fake
shifts of the gray keys are those of the moment it is typed, and every interrupt
takes its first step. What was received and what is in the ring together are a
subsequence of what was typed before the first byte of the run, since a full ring
loses keys. After a torn E0 sequence (`mangled`) only the rings, the signals and
the newest event are still known.

**X4** (`X4Inv`). `CallsNest` reads frames back from the stack, so the invariant says
that they are there: each call that is open has its caller's bp and the address
behind it in eight whole bytes (`HasFrame`), frames do not meet, and the last ends
at bp (`FramesOK`). PUSH, POP and CALL write at sp or above, which is not below bp.
That is where the two guards of the model are needed: the emulator does not check
that a program pops only what it pushed or that the stack has room.

**Memory** (`MemInv`). Frames and objects are kept apart by one predicate
(`Owned`) of the allocator's record, the pointers held, the guard pages and the
frames that no page has at the moment, so that `realloc`, a malloc and a free in
one step, is proved from the two, and the three calls of `thread_setup_stack`
differ only in the last two arguments. A large object is the run that its header
says (`LargeOK`), a slab page has its slots on the free list or held, none twice
(`SlotsOK`), each list exactly the pages of its cache (`ListOK`), and runs,
slab pages and stacks do not meet (`ApartOK`). That `n` calls of
`pmm_alloc_frame` return `n` different frames is a lemma on ranks in a finite
set (`RankExists`).

**KHeap** (`HeapInv`). Objects are apart and have their headers; nothing is said of
other blocks, which callers fill as they like. `FoundIsStart` shows why the walk
is right all the same: it only looks at headers behind an object or at the start
of the pool, where what is in use begins with a header.

**Knode** (`KnodeInv`). The property follows the `next` links, so the invariant has
to say where they lead before it can say that they end: there is, for each
directory, a chain of extents that lists them in the order of their links, with
each `prev` the extent before (`IsChain`), and the chains of two directories do
not meet (`KnodeOK`). What a chain refers to, no extent of it empty and nothing
twice, is what was added (`RefersTo`). Appending and unlinking an extent change
one chain, and every other chain is in the blocks they leave alone
(`Rearranged`); `ChainIsExtents` then shows that the walk from the directory is
the chain. What a destroyed directory leaves behind is in no chain.

**KernelEvents** (`EventsInv`). The list is in the order of sending (`ListOK`), the
local action lies between what was acted on and what is still alive
(`ActionOK`), and a task is in the list, done, removed or in hand (`TasksKept`).

**VFSLock** (`LockInv`). For each place in the code whether a thread has the mutex,
is named as the owner and has locked. The unguarded reads are harmless because
only the holder is ever named, and is cleared before the mutex is released.

**Lists.** `WithoutAll` and the fold that flattens a list are recursive functions. Its facts are proved by the least
counterexample (`NatMin`): the induction theorems of the library take an
operator, which the provers cannot instantiate.

**Only model-checked:** all liveness (fairness and ENABLED are out of the
prover's reach). Of BaseFS, that deletes complete, which counts the steps of the walk,
and the refinement of FileTree. VFS and VFSCopy, Clipboard, Resources, Explorer and
Notepad have no proofs. Registry, Windows and Desktop use RECURSIVE operators, which
the prover does not accept. `SyncTypeCorrect` and `EventsInvariant` have no run of
their own: stronger invariants are checked.

## 5. Not modelled, and plan

Left out for good: pixels, fonts, themes and layout; port-level handshakes and
the PCI scan; the interrupt stubs; the Raspberry Pi stub; the superseded
`syscall/commands_old`; cryptography of file data; the console's text; the
start-up order. They keep no state that a property here could be about, or are
waits for hardware.

Known abstractions in what is modelled: BaseFS has one bitmap that is written
with the allocation; Storage has frames of one cell that never straddle two
sectors, no missing AHCI port, and no transfer that completes after its
timeout; Scheduler has no page directories, and in `sched` a ThreadBlock is not
used again (it is in `sched_starvation`); FileCopy has at most two chunks per
file and no rename of the source during a copy; Registry's allocations do not
fail; Desktop has no coordinates.

Hazards that the models contain or touch and no property is about, because
neither the code nor a comment promises anything there:

* `scheduler/process.c:233`: a killed thread stays in the queue of a mutex.
* `fs/basefs/bitmap.c:62`: a bitmap frame that could not be read counts as free.
* `arch/x86/drivers/ahci/ahci.c:305`: a command may complete after its timeout.
* `fs/basefs/file.c:55`, `directory.c:116`: losses inside a create or an unlink
  leave damage; only that later operations end is checked.
* `vfs/vfs_file.c:128`: a descriptor outlives its file.
* `vfs/vfs_file.c:249`: `vfs_mkdir` and `vfs_truncate` drop the result below.
* `vfs/vfs_parse.c:273`: a file created below a file is reachable by no path.
* `knode.c:85`: `destroy_knode` leaves extents and children behind.
* `scheduler/process.c:346`: the id is read after interrupts are back on.
* `dwm/dwm_events.c:9`: a menu keeps a pointer to a window that may be gone.
* `dwm/windows/dialog_delete.c:80`: an icon goes although its file stayed.
* `programs/explorer/procedure.c:25`: the menu's index survives a refresh.
* `registry/registry.c:178`: export has no limits, import has.

What would come next: Process composed with Sync's queues, so that a killed
waiter is seen; proofs for VFSCopy, Explorer and Notepad; drag and drop into FileCopy;
64-bit division against a reference definition.
