----------------------------- MODULE TrfsMount -----------------------------
(***************************************************************************)
(* The module and its mounts (main.c, super.c): loading and unloading, and *)
(* what each attempt to mount acquires, in the order of trfs_read_super,   *)
(* and what its error path or trfs_put_super gives back.  Mounts share the *)
(* module's caches and record counter and the directory in which their     *)
(* trace files are.                                                        *)
(***************************************************************************)
EXTENDS Integers, Sequences, FiniteSets

CONSTANTS Mounts,   \* superblocks
          Files,    \* names for trace files (tfile=)
          NoFile,   \* none
          Bits,     \* record types that a bitmap has a bit for
          MaxMinors, \* anonymous device numbers that the system has
          MaxRecs   \* bound on trecord_id

ASSUME FileAssumption == NoFile \notin Files
ASSUME BoundAssumption == MaxRecs \in Nat
ASSUME MinorsAssumption == MaxMinors \in Nat

VARIABLES pc,          \* the label of trfs_read_super each mount is at
          held,        \* what it has acquired and not released
          tfile,       \* the trace file it has made
          umask,       \* its bitmap
          pins,        \* open files that keep it from being unmounted
          mod, caches, \* the module's state, and what it has set up
          minors,      \* anonymous device numbers taken so far
          files,       \* trace files that exist
          trecord_id,  \* the module's counter
          ids,         \* rec_ids in the trace of each mount
          reset        \* history: trfs_mount ran while this mount was in use

module == <<mod, caches>>
vars == <<pc, held, tfile, umask, pins, module, minors, files, trecord_id, ids, reset>>

Resources == {"minor", "path", "sb_info", "page", "file", "active", "inode", "root"}

Init ==
  /\ pc = [m \in Mounts |-> "none"]
  /\ held = [m \in Mounts |-> {}]
  /\ tfile = [m \in Mounts |-> NoFile]
  /\ umask = [m \in Mounts |-> {}]
  /\ pins = [m \in Mounts |-> 0]
  /\ mod = "out"
  /\ caches = {}
  /\ minors = 0
  /\ files = {}
  /\ trecord_id = -1
  /\ ids = [m \in Mounts |-> <<>>]
  /\ reset = [m \in Mounts |-> FALSE]

-----------------------------------------------------------------------------
(* The module *)

\* A step of loading: it sets up c, or fails and what there is is destroyed.
Load(from, c, to) ==
  /\ mod = from
  /\ \/ caches' = caches \cup {c} /\ mod' = to
     \/ caches' = {} /\ mod' = "out"
  /\ UNCHANGED <<pc, held, tfile, umask, pins, minors, files, trecord_id, ids, reset>>

\* Mutant: the file system is registered before its caches are there.
trfs_init_inode_cache_late ==
  /\ mod = "out"
  /\ caches' = {"inode", "registered"} /\ mod' = "dentry"
  /\ UNCHANGED <<pc, held, tfile, umask, pins, minors, files, trecord_id, ids, reset>>

\* init_trfs_fs
trfs_init_inode_cache  == Load("out", "inode", "dentry")
trfs_init_dentry_cache == Load("dentry", "dentry", "register")
register_filesystem    == Load("register", "registered", "in")

\* exit_trfs_fs, when no mount uses the module: the caches go first, while
\* nobody can take a reference on the module any more.
exit_trfs_fs ==
  /\ mod = "in"
  /\ \A m \in Mounts : pc[m] = "none"
  /\ mod' = "going"
  /\ caches' = caches \ {"inode", "dentry"}
  /\ UNCHANGED <<pc, held, tfile, umask, pins, minors, files, trecord_id, ids, reset>>

unregister_filesystem ==
  /\ mod = "going"
  /\ mod' = "out"
  /\ caches' = caches \ {"registered"}
  /\ UNCHANGED <<pc, held, tfile, umask, pins, minors, files, trecord_id, ids, reset>>

\* mount finds the file system type and takes a reference on its module.
Mountable == "registered" \in caches /\ mod # "going"

-----------------------------------------------------------------------------
(* Mounts *)

\* Mutant: the counter starts one too low.
MountTooLow(m) ==
  /\ pc[m] = "none"
  /\ Mountable
  /\ minors < MaxMinors
  /\ minors' = minors + 1
  /\ pc' = [pc EXCEPT ![m] = "kern_path"]
  /\ held' = [held EXCEPT ![m] = {"minor"}]
  /\ trecord_id' = -2
  /\ UNCHANGED <<tfile, umask, pins, module, files, ids, reset>>

\* trfs_mount, up to trfs_read_super: the counter is set back, then mount_nodev
\* makes a superblock, for which it takes an anonymous device number, or fails.
Mount(m) ==
  /\ pc[m] = "none"
  /\ Mountable
  /\ trecord_id' = -1
  /\ reset' = [n \in Mounts |-> n # m /\ (pc[n] # "none" \/ reset[n])]
  /\ \/ /\ minors < MaxMinors
        /\ minors' = minors + 1
        /\ pc' = [pc EXCEPT ![m] = "kern_path"]
        /\ held' = [held EXCEPT ![m] = {"minor"}]
     \/ UNCHANGED <<minors, pc, held>>
  /\ UNCHANGED <<tfile, umask, pins, module, files, ids>>

\* A step of trfs_read_super acquires r and goes on.
Acquire(m, from, r, to) ==
  /\ pc[m] = from
  /\ pc' = [pc EXCEPT ![m] = to]
  /\ held' = [held EXCEPT ![m] = @ \cup r]
  /\ UNCHANGED <<pins, module, minors, trecord_id, ids, reset>>

\* A step fails; the error path releases r, and the attempt ends at to.  When it
\* returns, kill_sb is generic_shutdown_super, which keeps the device number.
Fail(m, from, r, to) ==
  /\ pc[m] = from
  /\ pc' = [pc EXCEPT ![m] = to]
  /\ held' = [held EXCEPT ![m] = @ \ r]
  /\ UNCHANGED <<tfile, umask, pins, module, minors, files, trecord_id, ids, reset>>

KernPath(m) ==
  \/ Acquire(m, "kern_path", {"path"}, "sb_info") /\ UNCHANGED <<tfile, umask, files>>
  \/ Fail(m, "kern_path", {}, "none")

AllocSbInfo(m) ==
  \/ Acquire(m, "sb_info", {"sb_info"}, "page") /\ UNCHANGED <<tfile, umask, files>>
  \/ Fail(m, "sb_info", {"path"}, "none")                     \* out_free

\* Mutant: the error of the page goes to out_free.
AllocPageOutFree(m) ==
  \/ Acquire(m, "page", {"page"}, "trfile") /\ UNCHANGED <<tfile, umask, files>>
  \/ Fail(m, "page", {"path"}, "none")

AllocPage(m) ==
  \/ Acquire(m, "page", {"page"}, "trfile") /\ UNCHANGED <<tfile, umask, files>>
  \/ Fail(m, "page", {"sb_info", "path"}, "none")             \* out_fsi_free

\* Mutant: without O_EXCL.
CreateTrfileShared(m) ==
  /\ Acquire(m, "trfile", {"file"}, "iget")
  /\ \E f \in Files : tfile' = [tfile EXCEPT ![m] = f] /\ files' = files \cup {f}
  /\ UNCHANGED umask

\* create_trfile: O_CREAT | O_EXCL.  It fails for a file that exists, for a
\* missing option, or in the lower file system.
CreateTrfile(m) ==
  \/ /\ Acquire(m, "trfile", {"file"}, "iget")
     /\ \E f \in Files \ files : tfile' = [tfile EXCEPT ![m] = f] /\ files' = files \cup {f}
     /\ UNCHANGED umask
  \/ Fail(m, "trfile", {"page", "sb_info", "path"}, "none")   \* out_fsp_free

\* The lower superblock is pinned, then trfs_iget.  out_sput frees sb_info,
\* clears s_fs_info and falls through to kfree(TRFS_PAGE(sb)), which reads
\* through s_fs_info: the attempt ends in an oops.
Iget(m) ==
  \/ Acquire(m, "iget", {"active", "inode"}, "root") /\ UNCHANGED <<tfile, umask, files>>
  \/ Fail(m, "iget", {"sb_info"}, "oops")

\* d_make_root, which takes over the inode, or puts it when it fails.  Then
\* out_iput puts it again: the attempt dies of that, or goes on to out_sput.
MakeRoot(m) ==
  \/ Acquire(m, "root", {"root"}, "private") /\ UNCHANGED <<tfile, umask, files>>
  \/ Fail(m, "root", {"inode"}, "oops")
  \/ Fail(m, "root", {"inode", "active", "sb_info"}, "oops")

\* new_dentry_private_data; the rest cannot fail and ends with the bitmap of
\* all types.  At out_freeroot the last dput of the root puts the inode and
\* calls trfs_d_release, which reads through the missing private data.
PrivateData(m) ==
  \/ /\ Acquire(m, "private", {}, "mounted")
     /\ umask' = [umask EXCEPT ![m] = Bits]
     /\ UNCHANGED <<tfile, files>>
  \/ Fail(m, "private", {"inode"}, "oops")

\* fill_record of an operation on mount m whose type is in the bitmap; see TrDump.
Record(m) ==
  /\ pc[m] = "mounted"
  /\ umask[m] # {}
  /\ trecord_id < MaxRecs
  /\ Len(ids[m]) <= MaxRecs
  /\ trecord_id' = trecord_id + 1
  /\ ids' = [ids EXCEPT ![m] = Append(@, trecord_id + 1)]
  /\ UNCHANGED <<pc, held, tfile, umask, pins, module, minors, files, reset>>

\* Mutant: the counter is set back when a mount ends, not when one begins.
UmountResets(m) ==
  /\ pc[m] = "mounted" /\ pins[m] = 0
  /\ pc' = [pc EXCEPT ![m] = "none"]
  /\ files' = files \ {tfile[m]}
  /\ held' = [held EXCEPT ![m] = {}]
  /\ ids' = [ids EXCEPT ![m] = <<>>]
  /\ reset' = [reset EXCEPT ![m] = FALSE]
  /\ umask' = [umask EXCEPT ![m] = {}]
  /\ tfile' = [tfile EXCEPT ![m] = NoFile]
  /\ trecord_id' = -1
  /\ UNCHANGED <<pins, module, minors>>

\* generic_shutdown_super releases root, inode and with the root dentry the
\* lower path; trfs_put_super the rest, but nobody the device number.  The trace
\* file is removed unless vfs_unlink fails, which nobody looks at.  The VFS
\* refuses to unmount what is in use.
Umount(m) ==
  /\ pc[m] = "mounted" /\ pins[m] = 0
  /\ pc' = [pc EXCEPT ![m] = "none"]
  /\ files' \in {files \ {tfile[m]}, files}
  /\ held' = [held EXCEPT ![m] = @ \ {"root", "inode", "path", "active", "file", "page", "sb_info"}]
  /\ ids' = [ids EXCEPT ![m] = <<>>]
  /\ reset' = [reset EXCEPT ![m] = FALSE]
  /\ tfile' = [tfile EXCEPT ![m] = NoFile]
  /\ umask' = [umask EXCEPT ![m] = {}]
  /\ UNCHANGED <<pins, module, minors, trecord_id>>

Next ==
  \/ trfs_init_inode_cache \/ trfs_init_dentry_cache \/ register_filesystem
  \/ exit_trfs_fs \/ unregister_filesystem
  \/ \E m \in Mounts :
       \/ Mount(m) \/ KernPath(m) \/ AllocSbInfo(m) \/ AllocPage(m) \/ CreateTrfile(m)
       \/ Iget(m) \/ MakeRoot(m) \/ PrivateData(m) \/ Record(m) \/ Umount(m)

Spec == Init /\ [][Next]_vars

-----------------------------------------------------------------------------
(* Properties *)

\* Types: the counter is never below its start and resources are known.
TypeOK ==
  /\ pc \in [Mounts -> {"none", "kern_path", "sb_info", "page", "trfile", "iget", "root",
                        "private", "mounted", "oops"}]
  /\ held \in [Mounts -> SUBSET Resources]
  /\ tfile \in [Mounts -> Files \cup {NoFile}]
  /\ umask \in [Mounts -> SUBSET Bits]
  /\ pins \in [Mounts -> Nat]
  /\ mod \in {"out", "dentry", "register", "in", "going"}
  /\ caches \subseteq {"inode", "dentry", "registered"}
  /\ minors \in 0 .. MaxMinors
  /\ files \subseteq Files
  /\ trecord_id \in -1 .. MaxRecs
  /\ ids \in [Mounts -> Seq(0 .. MaxRecs)]
  /\ reset \in [Mounts -> BOOLEAN]

\* Of all that an attempt or a mount acquires only the anonymous device number
\* outlives it: an attempt that failed and returned its error has released the
\* rest, whichever label it left by, and so has a mount that ended.  Failures
\* from out_sput on are not meant: these attempts end in an oops.
OnlyMinorKept == \A m \in Mounts : pc[m] = "none" => held[m] \subseteq {"minor"}

\* A mount, and every attempt to mount, finds the inode and dentry caches, and a
\* module that failed to load or was unloaded leaves none: init_trfs_fs registers
\* the file system last, and exit_trfs_fs, which destroys the caches while it is
\* still registered, runs when no mount can begin.
CachesInPlace ==
  /\ \A m \in Mounts : pc[m] # "none" => {"inode", "dentry"} \subseteq caches
  /\ mod = "out" => caches = {}

\* Two mounts never append to the same trace file (O_EXCL), and the trace file
\* of a mount exists as long as the mount does, whatever attempts with the
\* same tfile= fail meanwhile.
OwnTraceFile ==
  /\ \A m \in Mounts : "file" \in held[m] => tfile[m] \in files
  /\ \A m, n \in Mounts : m # n /\ {"file"} \subseteq held[m] \cap held[n] => tfile[m] # tfile[n]

\* rec_ids grow in the trace of a mount, unless trfs_mount set the counter back
\* while the mount was in use.
IdsGrow ==
  \A m \in Mounts : ~reset[m] => \A i, j \in DOMAIN ids[m] : i < j => ids[m][i] < ids[m][j]
=============================================================================
