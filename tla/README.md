# A TLA+ model of trfs, the tracing file system

trfs is a stackable Linux file system that records the operations run on it in
a trace file of the lower file system, so that `treplay` can build the same
tree again in another directory. This directory holds TLA+ modules of its
parts, TLC configurations that check them on small instances, and TLAPS proofs
for all instances. `PROJECT.json` lists components, runs, hazards, findings and
theorems, and maps every definition to the lines it models.

## The system

| part | code | state | operations |
|---|---|---|---|
| logging path | `trfs/trdump.c`, tails of `inode.c`, `file.c` | `trfs_lock`, `umask`, `tr_page`, `f_pos`, the trace file, the global `trecord_id` | mask, `fill_record`, `append_record` |
| operations | `trfs/inode.c`, `trfs/file.c` | upper dentries, lower tree, open files, directory and file locks | create, mkdir, symlink, mknod, unlink, rmdir, link, rename, open, release, write, write_iter |
| module, mount | `trfs/main.c`, `trfs/super.c` | slab caches, registration; superblock, buffers, references, trace file | load, unload; mount with its error path, unmount |
| objects | `trfs/lookup.c`, `dentry.c`, `mmap.c`, gets and puts in `inode.c`, `file.c` | lower references of inodes, dentries and files; `lower_vm_ops`; `i_size` of upper and lower inodes | lookup, iget, evict, revalidate, create, link, unlink, open, release, mmap, write, truncate, calls on a path |
| trace_ctl, trctl | `hw2/tr_ioctl.c`, `hw2/trctl.c` | the device, the bitmap of a mount, references of a call | load, unload, parse arguments, get and set the bitmap |
| treplay | `hw2/treplay.c` | read buffer, position, flags | read a chunk, parse a record, issue its call |

An operation runs its lower call first, then updates the upper dentries, then
takes `trfs_lock` and logs. trctl takes the same lock. treplay reads the file
with nothing but its length from `stat` to coordinate with the mount.

What is hard here: two writes per record and one shared buffer per mount; an
effect and its record that are apart in time, held together only by the locks of
the VFS; lengths that are ints in the caller and shorts in the record; writes of
the trace file that fail and whose result nobody reads; a reader that cuts the
file in chunks without regard to records and steps by the sizes they state;
references on lower objects that some error paths put and others leave to a
later release; an inode that its own hash test does not find until it is filled
in; sizes kept twice and copied without a lock; mounts that end while an ioctl
holds their superblock.

What makes the parts correct: the trace is an unbroken run of whole records in
id order (logging path); the trace tells the operations in an order in which
they can be done again (operations); every record is replayed once, in order
(treplay); a mount gives back what it took, all but its device number, and owns
its trace file (mount); the references on lower objects balance and the ways
down from a dentry agree (objects); an ioctl works on the mount it was called
for and on no other (trace_ctl).

## Modules

- `TrTypes` - record types, C widths and the size arithmetic. `Short` is the
  conversion to 16 bits; sizes are those of the x86-64 build.
- `AtomicLog` - the promise of the logging path: records appear whole, in one
  step, contiguous and numbered; after the first failed write nothing is
  promised.
- `TrDump` - the logging tail, one action per step that another task can see:
  `Call`, `Lock`, `FillMasked`/`FillNoMem`/`FillRecord`, `CopyToPage`,
  `WriteHead`, `WriteAux`, `Unlock`; and `SetBmap`. A write of the trace file
  succeeds, fails, or writes a part (half stands for any part). `f_pos` moves by
  the result when it equals the length, also when both are the same errno
  (`WriteNothing`; `CountErrnos` are the two that a negative count gives). A
  task that trips a `BUG_ON` stays at `"bug"` with the lock. `ncalls`, `torn`,
  `backed` and `mmfaults` are history. The instance `Abstract` maps the state to
  `AtomicLog`: a record counts once its last write is done.
- `TrDumpProofs` - the proofs about `TrDump`: types, lock and file, order and
  refinement.
- `TrfsOps` - the operations, each in three steps: lower effect and upper
  dentry (`Create`, `Rename`, ...), the record (`LogRecord`), the return to the
  VFS, which moves the dentries of a rename and drops the locks (`Return`). A
  record is appended in one step, which is what `TrDump` provides. A dentry
  stands for an upper dentry and its lower one: `lo` is the place in the lower
  tree, `up` the upper `d_parent` and `d_name`. The locks an operation holds are
  in `op[t].held`; taking them is one step, the VFS orders them. Directories are
  kept in the root, so paths have at most two names. A write is one unit.
- `TrfsOpsProofs` - the proofs about `TrfsOps`.
- `TraceReplay` - what the system calls of treplay do in an empty directory,
  record after record (`Replay`), and the comparison with the lower tree.
- `TraceReplayProofs` - the proof that replay gives the lower tree, on top of
  `TrfsOpsProofs`.
- `Treplay` - treplay itself: options, `stat`, chunks of 16384 bytes, parsing,
  `-n`, `-s`, results. A record is its type, the bytes of head and aux that are in
  the file, the size it states and its result; `Written` is the record that
  `append_record` leaves for given lengths, with the wrapped shorts of
  `TrTypes`. treplay steps by the stated size, which may be 0, negative or not
  the bytes there, and keeps lengths in ints (`ToInt`). `Misparse` is what
  happens to bytes that are not a record's header: any type, a size out of
  `Jumps`, so that the next position may be behind, before or on a record.
  `Overrun` is a read larger than the buffer; the records it put over treplay's
  other buffers may read as anything (`Doubtful`), and it, or a misparse, may
  end in a signal (`Crash`). `Grow` is the mount appending.
- `TreplayProofs` - the proofs about `Treplay`.
- `TrfsMount` - the module's loading and unloading, mount attempts step by step
  with their error labels, unmount, the shared counter, the bitmap. `held` is
  what an attempt has acquired, the anonymous device number of `mount_nodev`
  included, which nobody frees; `minors` counts them. `"oops"` is an attempt
  that dereferenced NULL or put an inode twice. `pins` are the open files that
  keep a mount in use.
- `TraceCtl` - extends `TrfsMount`: the steps of `tr_ioctl_init` with their
  error labels, trctl from its arguments to its exit (`Main`, `OpenDevice`,
  `Close`), and `tr_ioctl` between (`GetName`, `FilpOpen`, `CheckType`,
  `Access`, `PutBoth`, `CopyToUser`), each step failing or not, while mounts
  come and go. An argument is what `isvalidhex` asks of it and the bits of the
  number it stands for, one of them maybe beyond an unsigned long; `strtoul`
  makes that the largest one. `seen` is history: the bitmaps the mount had while
  the call had it open.
- `TraceCtlProofs` - the proofs about `TrfsMount` and `TraceCtl`.
- `TrfsObjects` - upper dentries, inodes and open files and the lower ones they
  hold. A lookup is a step per call that may fail or that other tasks can get
  between: `new_dentry_private_data`, `LookupLower`, `iget5_locked`, `trfs_iget`,
  `d_splice_alias`. Creating and linking go on from a lookup that found
  nothing. `Settle` ends a step: dentries that are unhashed and unused go, with
  them their inodes (`trfs_evict_inode`), lower paths and, when those are
  unhashed too, the lower dentries. The calls that only get and put a lower path
  are one pair of actions. A size grows by one with each write, and
  a truncation is to 0. A lower write may append and still return an error, and
  an aio write may be queued (`queued`), to be done later by the kernel
  (`AioDone`). `overput`, `raced`, `torn` and `cut` are history: they
  mark the lower inodes to which something happened that the code does not
  guard against, and the properties say that nothing else goes wrong.
- `TrfsObjectsProofs`, `TrfsInodesProofs`, `TrfsSizesProofs` - the proofs about
  `TrfsObjects`, each on top of the one before: dentries and files, inodes,
  sizes.
- `MCTrDump`, `MCTraceReplay`, `MCTreplay`, `MCTraceCtl`, `MCTrfsObjects` -
  values of constants and symmetries for TLC.

Definitions whose comment says "Mutant" are variants of the definition after
them, as a plausible mistake would leave it; for each property the run of
`PROJECT.json` fails when the variant takes the place of the original. The
model itself never uses them.

## Runs

| run | shows | bounds |
|---|---|---|
| `log_path` | records whole, contiguous, in order; bitmap stable during an append; path page freed; calls return; `AtomicLog` implemented | 2 tasks, 3 calls, 3 bitmaps, calls with no, path and data aux; every pair of tasks meets at every step, a third call sees what both left |
| `log_edges` | fields are shorts; `BUG_ON(rec_size_common <= 0)` cannot fire; complete data are not overwritten, but for the bytes `f_pos` was moved back by | 2 calls out of 15 at the boundaries of 16 bits |
| `log_empty_write` (violation) | `write(fd, buf, 0)` trips `BUG_ON(record->aux != NULL)`, the lock stays taken | 1 call |
| `log_long_write` (violation) | a count that does not fit a short is recorded wrongly | 1 call |
| `ops` | log order agrees with effect order under common locks; upper and lower trees agree; with all operations and lower failures | 2 tasks, 3 operations, 3 dentries, 2 names: enough for mkdir and two operations below it, or two creates and a rename |
| `replay` | replay reproduces tree, kinds, contents, hard links when callers keep apart | 2 tasks, 5 operations, all types, appends |
| `replay_race` (violation) | without that, a create is logged before the mkdir it depends on | 3 operations |
| `treplay` | order, completeness and termination for regular traces; `-s` for all | 10 traces: three chunks ending at records, one crossing, one short, two longer than an int counts, five with records whose size wrapped; growing or not. `IntRange` is 131072 in place of 2^32, `Jumps` five sizes (0, the extremes, two that lead to records), `MaxIssued` 7 records, one more than the longest trace has; `BelowBuffer` 4096 bytes before the buffer; 978,876 states |
| `treplay_chunk` (violation) | a record across a chunk's end is lost | the crossing trace |
| `mount` | error path, unmount and unload give everything back but device numbers; caches are there when needed; trace files are not shared; ids grow; an ioctl never meets a freed superblock, answers for its own mount, puts the typed number in force, and leaves references only on one path | 2 mounts, 2 trace files, 1 bit, `MaxMinors` 2 (two attempts in all, overlapping or in turn, and the attempt that finds no number), 2 callers with one run each or one with two; each caller meets every step of a mount, an unmount and the other caller; 2,694,546 states |
| `objects` | references on lower dentries and inodes balance; path and inode of a dentry agree; one upper inode per lower one; mapped files have `vm_ops`; sizes agree, with the exceptions of `SizesAgree` | 2 tasks, 5 operations, 2 names, 2 upper and lower dentries, 2 upper inodes, 3 lower ones (one of them foreign), 1 file: enough for two lookups of hard links, an open and two operations on the file, a queued write with one beside it among them; 734,041 states |
| `truncate` (violation) | a truncation refused below leaves the upper inode truncated | 1 task, 2 operations |

`CHECK_DEADLOCK FALSE` stands where the bounded system ends: a mount stopped by
a BUG, the bound on operations, the exit of treplay, mounts that all died.
`log_path` checks deadlock: the bitmap can always be changed there.
Symmetry (tasks, names, dentries, mounts, trace files, callers, inodes) is used
only in runs of invariants, over constants that no definition singles out.

**Isolated.** The `replay` run assumes callers that keep apart: no two
operations run at once of which one works on a file or directory that the other
works on or goes through (`Clash`), and a file is not unlinked or replaced while
open (`InUse`). Without it replay fails (`replay_race`). Operations in one
directory, on different entries, do overlap under it.

**Regular.** treplay replays faithfully only what it was written for: no record
crosses the end of a chunk, every record states the bytes it has in the file,
and the file fits an int. `IssuedInOrder`, `AlignedReplayed` and `Terminates`
speak of such traces, and of reads that the buffer holds; that it does not for a
trace that grows from less than a chunk is `Overrun`. The traces that trfs
writes are not all regular: `treplay_chunk` shows one, and a write of 65501
bytes to a path of 3 another, whose `rec_size` is 0: treplay parses that record
for ever. `StrictStops` holds for every trace.

**Fairness.** `TrDump`: weak fairness of each step of a task inside the tail,
since a task in the kernel keeps running, and of `Lock`; a mutex queues its
waiters, and with finitely many calls the lock is free for good unless its owner
stops. `Treplay`: weak fairness of the process.

## What the models show that the documents do not say

With a run: the five violations above. Also visible in the models, without one:

- Only appends can be replayed: a record has no offset and treplay opens the
  file anew for each write (`WriteFile`).
- Operations that failed are logged and, without `-s`, replayed; one may succeed
  then (`ReplayRecord` ignores `err`).
- `writev`, aio and `mknod` are not logged (`WriteIter`, `Mknod`).
- A write to an unlinked or replaced open file is logged with its old path.
- After a short lower write the record has all bytes of the call, read from the
  user's buffer a second time (a write is one unit in `TrfsOps`).
- `noreplay` and `strict` are read uninitialised (`StackBool`).
- The page for the second path is lost unless the type is RENAME or LINK, and a
  SYMLINK frees its caller's name instead (`mmfaults`).
- A failed symlink reads the inode of a negative dentry; a mount that fails
  after its trace file was made reads through `s_fs_info` after clearing it
  (states `"oops"`), and so keeps page, trace file and lower path.
- A mount resets the ids of all others (`reset`).
- With the mount in use, treplay's read may exceed its buffer, sized by `stat`,
  and so it may for a file of 4 GiB or more, whose length is cut to an int; one
  of 2 GiB to 4 GiB is not read at all (`Overrun`, `ToInt`).
- A count whose short is an errno (65522, -EFAULT) moves `f_pos` back by it, and
  the next record overwrites the end of the head before it (`backed`).
- The anonymous device number of every mount, failed or not, is kept
  (`Resources`).
- A lower write that appends and returns an error, and an aio write that is
  queued, leave the old size in the upper inode (`torn`).
- Two lookups of hard links at once give one lower inode two upper ones
  (`raced`): `trfs_inode_set` sets nothing, so that `iget5_locked` does not find
  an inode before `trfs_set_lower_inode`.
- A `trfs_iget` without memory puts a reference of the lower inode that it does
  not own (`overput`); one whose `igrab` fails leaves a locked new inode.
- Overlapping writes, truncations and links leave an old size in the upper inode
  (`torn`), until a later change that nothing disturbs. A link writes back the
  size it saved, and copies the file's size and times into the directory.
- A failed `d_make_root` puts the inode twice; a root without private data is
  read through by `trfs_d_release` (`MakeRoot`, `PrivateData`).
- An ioctl on a path that is not on trfs keeps the name and the open file
  (`CheckType`); a failed `cdev_add` keeps the device numbers (`"lost"`).
- trctl exits with 0 when its ioctl failed (`Close`) and takes `0x` for 0.
  `getname_kernel` is given a pointer of the caller.
- Of a lower `mmap` that succeeds, `trfs_mmap` assumes that it sets `vm_ops`;
  without them a fault would stop at its `BUG_ON` (`FaultBug`).

## Proofs

Every invariant and refinement that a passing run checks is
also a theorem, for all values of the constants that meet the assumptions named
below; liveness is not. The theorems carry the name of the property in their
statement.

`TrDumpProofs`, from the assumptions of `TrDump` (any set of tasks without
`NoTask`, any calls with paths shorter than a page, any bitmaps and bound):

1. `TypeCorrect`: `TypeOK` is inductive by itself. The arithmetic lemmas
   (`ShortType`, `MakeRecordType`) show every field fits its short.
2. `UnderMask`, `PathPage`, `NoSizeBug`: from `LockedInv` - whoever is inside
   the tail owns the lock, a record in flight is the one of its call and under
   the mask, the buffer holds the record between copy and write, and pages are
   where the code expects them. `CommonIsHeader` shows that the overflows of
   `rec_size` and `aux_len` cancel in `rec_size_common`.
3. `Tiled`, `Whole`: from `FileInv` on top of `LockedInv` - it adds that a head
   whose aux is missing is the last write and that its task is about to add it.
   `WholeRecords` alone is not inductive: nothing else says the record of the
   task at `"aux"` is the one of the last head.
4. `NotOverwritten`: the invariant `NeverOverwritten`, from `PastFull` - what was
   written in full ends at or before `f_pos`, plus the bytes by which `f_pos` was
   moved back. Unlike `Tiled` it holds after failed writes.
5. `IdsOrdered`: from `IdsInv` - no id in the file is above `trecord_id`, a
   record whose head is not written yet has an id above all of them, and without
   a failure every id is in the file or in flight (`Complete`).
6. `Refinement`: `TrDump` implements `AtomicLog`. A record is committed by its
   last write, so that step, and no other, is `AtomicLog`'s; the lemmas say that
   the set of committed records grows by the last entry of the log (`FileInv`:
   it is the record's own head or aux) and that its place is the end of what
   was committed before (`LogTiled`). After a failed write both are torn.

`TrfsOpsProofs`, from the assumptions of `TrfsOps` (any tasks without `NoTask`,
any names, dentries, operations and bound; `Isolated` or not):

7. `TypeCorrect`: `TypeOK` is not inductive, for the path of a record is only a
   sequence of names if every dentry it passes has a place. `TreeInv` adds
   that: `PlaceInv` (what a lookup finds or a task has open is placed, and so
   is the directory above it) and `OpInv` (the operation under way has the
   places that its record will name). `BeginType` and `QuietStep` do the part
   common to all operations.
8. `LogInOrder`: from `OrderInv` - a task owns the locks of its operation until
   it returns, operations are numbered as they begin, and one still to be logged
   is younger than each record it shares a lock with. Two operations that wait
   to be logged therefore share none, so either may be logged first.
9. `NamesAgree`: from `NameInv`. Between the lower rename and `d_move` the two
   names differ; `MoveInv` says that the task which will close the gap holds both
   directories, so that no other operation finds the dentry meanwhile, and that
   the place it will give the dentry is the one the lower entry has.

`TraceReplayProofs`, on top of these and under `KeptApart`, which is what the
`replay` run's configuration says: callers keep apart (`Isolated`, see "Runs"),
the lower file system fails nothing for reasons of its own (it still refuses
what it must, such as the rmdir of a directory with entries), files are open
with `O_APPEND`, and `mknod` and `writev`, which trfs does not log, are not
used. None can be dropped: without `Isolated` the run `replay_race` fails, and the
others are in the list of the section above.

10. `Reproduces`: `ReplayReproduces` only speaks of states with no operation
    under way, so an invariant has to say what the trace tells while some wait to
    be logged, in whatever order they will be. `ReplayInv` says that there is a
    tree `f` with contents `dat` that the replay of the log so far shows
    (`Shows`); that `f` differs from the lower tree only where an operation
    that waits is concerned (`DifferInv`); and that each such operation can
    still be done in `f` and would make it agree with the lower tree there
    (`PendingInv`, one clause per type of record, refused operations included).
    - For each type of record there is a lemma about the system call of treplay
      on a directory that shows a tree: it shows the changed tree
      (`MakeShown`, `LinkShown`, `RemoveShown`, `WriteShown`, `RenameShown`), or
      fails as the operation did (`RemoveRefused`, `RenameRefused`).
    - `StepGood` is the frame: a step that stays within the inodes its
      operation works on and the directories it holds leaves the operations
      of others as they are. This is where the locks (`OwnsLocks`) and
      `ApartInv`, which keeps operations under way apart, are needed.
    - `AtRest` and `Worked` say why an operation that begins finds the same in
      `f`, in the lower tree and in the upper dentries: a dentry whose places
      differ is in directories that are held.
    - `Replay` is a recursive function over the log; that it exists and goes on
      from where it was (`ReplayAppend`) is shown by the least number of records
      for which it would not. The invariant was model-checked before it was
      proved.

`TreplayProofs`, from the assumptions of `Treplay` (any set of traces):

11. `TypeCorrect`: with `ReadInv`, which says that the trace is one of `Traces`
    and that nothing was read or issued before the loop. Nothing bounds where
    `buf` is.
12. `StrictReplay`: from `StrictInv` - with `-s` the process goes on only if all
    it issued succeeded; the last one issued may have failed, and then it ends.
13. `ReplayInOrder`, `AllReplayed`: from `OrderInv` - in a regular trace whose
    reads the buffer holds, the number of records issued is the one of the
    record under the reader, at every step of the parse. `ChunkInv` says that no
    sum of such a trace wraps: the position in the file is what treplay has
    counted, and a chunk is full unless it reaches the file's end. That some
    record begins where a chunk ends is shown by a least-number argument on the
    positions of records (`Starts`), for which the well-foundedness of the
    naturals is enough.

`TraceCtlProofs`, from the assumptions of `TrfsMount` and `TraceCtl` (any mounts,
trace files, bits and bounds, any finite set of callers, needed for counting):

14. `MinorAlone`, `TraceFilesOwned`, `IdsInOrder`, `CachesThere`: from
    `MountInv`. `OnlyMinorKept` is not inductive: `HeldInv` says what is held at
    every label of `trfs_read_super`, and each error label up to `out_fsp_free`
    releases just that; the labels after it do not return. `ModInv` does the
    same for the module's states; `IdsInv` adds that no id is above the counter
    and only mounts have ids.
15. `SuperblockThere`, `AnswersInForce`, `TypedNumberSet`, `OnlyRefusedLeaves`:
    from `CtlInv` on top of it. `PinsCounted` says that the files that keep a
    mount in use are those of callers between `filp_open` and `filp_close`, so
    that a mount with a caller inside cannot end, and `OpenInv` that such a
    caller has seen its bitmap. `CallInv` is what a caller holds at each step,
    and that the bitmap of a set is the number that was typed.
16. `MountTypes`, `DeviceLeftClean`: parts of the same invariant;
    that `pins` never drops below 0 needs `PinsCounted`.

`TrfsObjectsProofs`, from the assumptions of `TrfsObjects`: any finite sets of
objects (`FiniteAssumption`, references are counted), `None` is none of them
(`NoneAssumption`), lower dentries of names are those of directories
(`NamesAssumption`), some lower inodes are on another superblock:

17. `TypeCorrect`, `DentriesBalance`, `PathsLead`, `FaultsFind`: from one
    invariant, `IInv`. None of the four is inductive. It says what a task relies
    on at each label (`TaskOK`: whether its dentry is hashed, has private data, a
    lower path, an inode), what two tasks never share (`Distinct`), that open
    files have a dentry with an inode and its lower file, and that the counts
    are those of the owners (`Counted`). `Inv` takes the variables as
    parameters, for a step that ends in `Settle` goes through a state in which
    the unused objects are still there: each action is shown to lead to such a
    state, and `Settle` to keep the invariant from there. `CountStep` says what
    the change of one object does to a count.

`TrfsInodesProofs`, on top of it:

18. `InodesBalance`: from `Balanced`, in which `overput` has its type; `Shift` is
    what a step does that changes one lower dentry and one upper inode at most.
19. `UpperUnique`: from `GrabInv` - while a task fills in a new inode, the lower
    inode has no other upper one and no other task does the same, or it is in
    `raced`. It needs frames for all actions (`DentFrame`, `LowerFrame`,
    `UpperFrame`): a dentry keeps its lower dentry and inode, and a lower dentry
    its inode, until they go.

`TrfsSizesProofs`, on top of both:

20. `SizesMatch`: from `SizeInv`. A task that changes a size either is the only
    one for its inode, or the inode is in `torn`, where it also is when its
    lower size changed and will not be copied; if it is alone, what it is about
    to write is the other size; and the sizes agree whenever no task is between
    the change of one and that of the other (`Steady`), which, other than "when
    no task changes them", is not lost when a task returns. That the upper inode
    a task writes to is the only one is `UpperUnique`.

Model-checked only: liveness (`CallsReturn`, `Terminates`), which with `ENABLED`
is out of the prover's reach.

## Plan

Done: all modules, and proofs of all invariants and the refinement. Next:
lengths in `TrfsOps` - short writes, and truncations, which are not logged.

## Not modelled

- Directories that come and go in `TrfsObjects`: rename, mkdir and rmdir hold
  references in the pattern of create and unlink and are in `TrfsOps`, where the
  tree is.
- NFS export handles: they give dentries without private data, which no other
  code expects and no document describes.
- `trfs_permission`, read, readdir, flush, fasync, llseek and the file ioctls
  pass through; remount refuses its flags; `umount_begin` passes on. They change
  nothing that the properties speak of. Times, modes and directory sizes are not
  kept, nor the walk through a symbolic link.
- In `TrfsOps`: the failure of `trfs_interpose` after a `vfs_link` that succeeded
  (it finds the inode that the old dentry holds, so it allocates nothing), and
  the name that a replaced dentry, unhashed by then, gets from `d_move`.
- The delayed `kfree` of an error pointer after a failed readlink
  (`trfs_get_link`), which the VFS runs after a walk.
- The memory of aio requests: `trfs_write_iter` stores to its `kiocb` after a
  queued write may have completed and freed it.
- The wording of messages, the build and install files.

`kernel_write`, the VFS, the slab allocator and the system calls are external and
modelled from how the code uses them.
