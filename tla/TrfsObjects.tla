---------------------------- MODULE TrfsObjects ----------------------------
(***************************************************************************)
(* The objects of a mount and the lower objects they hold (lookup.c,       *)
(* dentry.c, super.c, mmap.c and the get and put of lower paths in inode.c *)
(* and file.c): an upper dentry holds a lower dentry, an upper inode a     *)
(* lower inode, an open file a lower file.  Names are those of regular     *)
(* files, each in a directory of its own that stays; a name also stands    *)
(* for the lower dentry of its directory.                                  *)
(***************************************************************************)
EXTENDS Integers, FiniteSets

CONSTANTS Tasks, Names, None,
          Dents, Uppers,     \* upper dentries and inodes
          LDents, Lowers,    \* lower dentries and inodes
          Foreign,           \* lower inodes of another file system, mounted below
          Files,             \* open files
          MaxOps             \* bound on the number of operations

ASSUME BoundAssumption == MaxOps \in Nat
ASSUME ForeignAssumption == Foreign \subseteq Lowers

\* There are finitely many objects.
ASSUME FiniteAssumption ==
  /\ IsFiniteSet(Tasks) /\ IsFiniteSet(Dents) /\ IsFiniteSet(Uppers)
  /\ IsFiniteSet(LDents) /\ IsFiniteSet(Files)

DentRecords == [name : Names, info : BOOLEAN, lower : LDents \cup {None},
                inode : Uppers \cup {None}, hashed : BOOLEAN]
LDentRecords == [name : Names, ino : Lowers \cup {None}, hashed : BOOLEAN]
FileRecords == [d : Dents, lower : LDents, vmops : BOOLEAN, vmas : Nat]

\* None is no object; the lower dentries of names are those of directories.
ASSUME NoneAssumption ==
  /\ None \notin Dents \cup Uppers \cup LDents \cup Lowers \cup Files \cup Names
  /\ None \notin DentRecords /\ None \notin LDentRecords /\ None \notin FileRecords
ASSUME NamesAssumption == Names \cap LDents = {}

VARIABLES dent,     \* upper dentries: name, d_fsdata, lower_path, inode, hashed
          upper,    \* upper inodes: I_NEW or live, their lower inode, i_size
          ldent,    \* lower dentries, as the lower dcache has them
          dref,     \* references that trfs holds on lower dentries
          iref,     \* reference counts of the lower inodes
          lsize,    \* i_size of the lower inodes
          file,     \* open files: dentry, lower file, lower_vm_ops, mappings
          pc, job,  \* where a task is, and what it works on
          queued,   \* writes of an open file that the lower file has queued
          nops,     \* operations begun
          overput,  \* history: references of lower inodes put by a failed trfs_iget
          raced,    \* history: lower inodes of which two trfs_iget overlapped,
          torn,     \*   or two changes of the size, or of which the lower size
                    \*   changed and was not copied, with no change alone since,
          cut       \*   or of which a truncation failed below, likewise

vars == <<dent, upper, ldent, dref, iref, lsize, file, pc, job, queued, nops, overput, raced, torn, cut>>
aside == <<queued, overput, raced, torn, cut>>    \* what most steps leave alone

NoJob == [op |-> "none", d |-> None, old |-> None, u |-> None, f |-> None, saved |-> FALSE,
          size |-> 0, alone |-> FALSE]

NoUpper == [state |-> "free", lower |-> None, size |-> 0]

\* The lower dcache may hold any entry at first, hard links among them.
Init ==
  /\ dent = [d \in Dents |-> None]
  /\ upper = [u \in Uppers |-> NoUpper]
  /\ ldent \in [LDents -> {None} \cup [name : Names, ino : Lowers \cup {None}, hashed : {TRUE}]]
  /\ \A x, y \in LDents : x # y /\ ldent[x] # None /\ ldent[y] # None => ldent[x].name # ldent[y].name
  /\ dref = [x \in LDents \cup Names |-> 0]
  /\ iref = [i \in Lowers |-> Cardinality({x \in LDents : ldent[x] # None /\ ldent[x].ino = i})]
  /\ lsize = [i \in Lowers |-> 1]
  /\ file = [f \in Files |-> None]
  /\ pc = [t \in Tasks |-> "idle"]
  /\ job = [t \in Tasks |-> NoJob]
  /\ queued = [f \in Files |-> 0]
  /\ nops = 0
  /\ overput = [i \in Lowers |-> 0]
  /\ raced = {} /\ torn = {} /\ cut = {}

-----------------------------------------------------------------------------
(* Releasing objects *)

\* The dentries that tasks and open files will use after the step.
InUseNext ==
  {job'[t].d : t \in Tasks} \cup {job'[t].old : t \in Tasks}
    \cup {file'[f].d : f \in {g \in Files : file'[g] # None}}

\* The last dput of dentries that are not hashed: they go, with their inode
\* and through trfs_d_release with their lower path.
Released(dents) == {d \in Dents : dents[d] # None /\ ~dents[d].hashed /\ d \notin InUseNext}

\* The last iput of an upper inode (generic_delete_inode keeps none): its
\* lower inode is put.
trfs_evict_inode(dents, dead) ==
  {u \in Uppers : /\ \E d \in dead : dents[d].inode = u
                  /\ \A d \in Dents \ dead : dents[d] # None => dents[d].inode # u
                  /\ \A t \in Tasks : job'[t].u # u}

\* The end of a step: dents and ldents are the dentries, refs the references
\* trfs holds on lower dentries and counts the lower inodes' counts before
\* what is not used any more goes.  A lower dentry that is not hashed goes
\* with its last reference.
Settle(dents, ldents, refs, counts) ==
  LET dead == Released(dents)
      evict == trfs_evict_inode(dents, dead)
      left == [x \in LDents \cup Names |->
                 refs[x] - Cardinality({d \in dead : dents[d].lower = x})]
      gone == {x \in LDents : ldents[x] # None /\ ~ldents[x].hashed /\ left[x] = 0}
  IN
  /\ dent' = [d \in Dents |-> IF d \in dead THEN None ELSE dents[d]]
  /\ upper' = [u \in Uppers |-> IF u \in evict THEN NoUpper ELSE upper[u]]
  /\ dref' = left
  /\ ldent' = [x \in LDents |-> IF x \in gone THEN None ELSE ldents[x]]
  /\ iref' = [i \in Lowers |-> counts[i] - Cardinality({u \in evict : upper[u].lower = i})
                                         - Cardinality({x \in gone : ldents[x].ino = i})]
  /\ UNCHANGED <<lsize, aside>>

\* References on lower dentries, n more on each of S.
Ref(S, n) == [x \in LDents \cup Names |-> IF x \in S THEN dref[x] + n ELSE dref[x]]

Goto(t, to) == pc' = [pc EXCEPT ![t] = to]

\* Task t begins an operation.
Begin(t, j, to) ==
  /\ pc[t] = "idle"
  /\ nops < MaxOps
  /\ nops' = nops + 1
  /\ job' = [job EXCEPT ![t] = j]
  /\ Goto(t, to)
  /\ UNCHANGED file

\* Task t returns to the VFS, which drops its references.
Finish(t) ==
  /\ Goto(t, "idle")
  /\ job' = [job EXCEPT ![t] = NoJob]
  /\ UNCHANGED nops

\* An operation on the directory of a name holds its i_mutex.
DirOps == {"lookup", "create", "link", "unlink"}
DirLocked(n) == \E t \in Tasks : job[t].op \in DirOps /\ dent[job[t].d].name = n

Positive(d) == dent[d] # None /\ dent[d].inode # None
Found(d) == Positive(d) /\ dent[d].hashed    \* what a walk of the VFS finds

\* What a call by path or on an open file, unlinked or not, reaches.
Reached(d) == Found(d) \/ \E f \in Files : file[f] # None /\ file[f].d = d

D(t) == job[t].d
NameOf(t) == dent[D(t)].name
LowerOf(t) == dent[D(t)].lower

-----------------------------------------------------------------------------
(* trfs_lookup *)

\* The VFS found no dentry and made one; the lower path of the parent is taken.
trfs_lookup(t) ==
  \E n \in Names, d \in Dents :
    /\ dent[d] = None
    /\ ~DirLocked(n)
    /\ \A e \in Dents : dent[e] # None => ~(dent[e].hashed /\ dent[e].name = n)
    /\ Begin(t, [NoJob EXCEPT !.op = "lookup", !.d = d], "alloc")
    /\ Settle([dent EXCEPT ![d] = [name |-> n, info |-> FALSE, lower |-> None,
                                   inode |-> None, hashed |-> FALSE]],
              ldent, Ref({n}, 1), iref)

\* It may fail; trfs_dops are set only after it, so that trfs_d_release does
\* not meet a dentry without private data.
new_dentry_private_data(t) ==
  /\ pc[t] = "alloc"
  /\ \/ dent' = [dent EXCEPT ![D(t)].info = TRUE] /\ Goto(t, "lower")
     \/ Goto(t, "fail") /\ UNCHANGED dent
  /\ UNCHANGED <<upper, ldent, dref, iref, lsize, file, job, nops, aside>>

\* vfs_path_lookup below, and trfs_set_lower_path.  For a name that is not
\* there, a negative lower dentry is found or made.
LookupLower(t) ==
  LET at == {x \in LDents : ldent[x] # None /\ ldent[x].hashed /\ ldent[x].name = NameOf(t)}
  IN
  /\ pc[t] = "lower"
  /\ \/ \E x \in at :
          /\ dent' = [dent EXCEPT ![D(t)].lower = x]
          /\ dref' = Ref({x}, 1)
          /\ Goto(t, IF ldent[x].ino = None THEN "negative" ELSE "iget")
          /\ UNCHANGED ldent
     \/ \E x \in LDents :
          /\ at = {} /\ ldent[x] = None
          /\ ldent' = [ldent EXCEPT ![x] = [name |-> NameOf(t), ino |-> None, hashed |-> TRUE]]
          /\ dent' = [dent EXCEPT ![D(t)].lower = x]
          /\ dref' = Ref({x}, 1)
          /\ Goto(t, "negative")
     \/ Goto(t, "fail") /\ UNCHANGED <<dent, ldent, dref>>
  /\ UNCHANGED <<upper, iref, lsize, file, job, nops, aside>>

\* Mutant: the lower path stays set, without its reference.
UnwindNoReset(t) ==
  /\ Goto(t, IF job[t].op = "lookup" THEN "fail" ELSE "failed")
  /\ dref' = IF job[t].op = "lookup" THEN Ref({LowerOf(t)}, -1) ELSE dref
  /\ UNCHANGED <<dent, ldent>>

\* An error of __trfs_interpose: a lookup puts and resets the lower path, the
\* other callers leave it to trfs_d_release.
Unwind(t) ==
  LET lookup == job[t].op = "lookup" IN
  /\ Goto(t, IF lookup THEN "fail" ELSE "failed")
  /\ dref' = IF lookup THEN Ref({LowerOf(t)}, -1) ELSE dref
  /\ dent' = IF lookup THEN [dent EXCEPT ![D(t)].lower = None] ELSE dent
  /\ UNCHANGED ldent

LowerInode(t) == ldent[LowerOf(t)].ino
Cached(i) == {u \in Uppers : upper[u].lower = i}

\* Mutant: trfs_inode_test never matches.
iget5_locked_nomatch(t) ==
  LET i == LowerInode(t) IN
  /\ pc[t] = "iget"
  /\ \E u \in Uppers :
       /\ upper[u].state = "free"
       /\ upper' = [upper EXCEPT ![u].state = "new"]
       /\ job' = [job EXCEPT ![t].u = u]
  /\ Goto(t, "grab")
  /\ UNCHANGED <<dent, ldent, dref, iref, lsize, file, nops, aside>>

\* __trfs_interpose up to iget5_locked: an upper inode whose lower_inode is the
\* one looked for, or else a new one that has none yet.  Without memory the
\* lower inode is put, though the caller owns no reference of it.
iget5_locked(t) ==
  LET i == LowerInode(t) IN
  /\ pc[t] = "iget"
  /\ \/ /\ i \in Foreign                                   \* -EXDEV
        /\ Unwind(t)
        /\ UNCHANGED <<upper, iref, job, aside>>
     \/ /\ i \notin Foreign
        /\ \E u \in Cached(i) : job' = [job EXCEPT ![t].u = u]
        /\ Goto(t, "splice")
        /\ UNCHANGED <<dent, ldent, dref, upper, iref, aside>>
     \/ /\ i \notin Foreign /\ Cached(i) = {}
        /\ \E u \in Uppers :
             /\ upper[u].state = "free"
             /\ upper' = [upper EXCEPT ![u].state = "new"]
             /\ job' = [job EXCEPT ![t].u = u]
        /\ raced' = IF \E s \in Tasks : pc[s] = "grab" /\ LowerInode(s) = i
                    THEN raced \cup {i} ELSE raced
        /\ Goto(t, "grab")
        /\ UNCHANGED <<dent, ldent, dref, iref, queued, overput, torn, cut>>
     \/ /\ i \notin Foreign /\ Cached(i) = {}              \* -EACCES
        /\ iref' = [iref EXCEPT ![i] = @ - 1]
        /\ overput' = [overput EXCEPT ![i] = @ + 1]
        /\ Unwind(t)
        /\ UNCHANGED <<upper, job, queued, raced, torn, cut>>
  /\ UNCHANGED <<lsize, file, nops>>

\* Mutant: without igrab.
trfs_iget_nograb(t) ==
  /\ pc[t] = "grab"
  /\ upper' = [upper EXCEPT ![job[t].u] = [state |-> "live", lower |-> LowerInode(t), size |-> lsize[LowerInode(t)]]]
  /\ Goto(t, "splice")
  /\ UNCHANGED <<dent, ldent, dref, iref, lsize, file, job, nops, aside>>

\* The rest of trfs_iget: igrab, trfs_set_lower_inode, the size, and
\* unlock_new_inode.  igrab may fail for an inode whose count is gone; the new
\* inode then stays as it is and its reference is lost.
trfs_iget(t) ==
  LET i == LowerInode(t) IN
  /\ pc[t] = "grab"
  /\ \/ /\ upper' = [upper EXCEPT ![job[t].u] = [state |-> "live", lower |-> i, size |-> lsize[i]]]
        /\ iref' = [iref EXCEPT ![i] = @ + 1]
        /\ Goto(t, "splice")
        /\ UNCHANGED <<dent, ldent, dref, job>>
     \/ /\ iref[i] <= 0                                    \* -ESTALE
        /\ job' = [job EXCEPT ![t].u = None]
        /\ Unwind(t)
        /\ UNCHANGED <<upper, iref>>
  /\ UNCHANGED <<lsize, file, nops, aside>>

\* d_splice_alias of a regular file: the dentry gets the inode and is hashed.
d_splice_alias(t) ==
  /\ pc[t] = "splice"
  /\ dent' = [dent EXCEPT ![D(t)].inode = job[t].u, ![D(t)].hashed = TRUE]
  /\ job' = [job EXCEPT ![t].u = None]
  /\ Goto(t, CASE job[t].op = "lookup" -> "found" [] job[t].op = "create" -> "made" [] job[t].op = "link" -> "linked")
  /\ UNCHANGED <<upper, ldent, dref, iref, lsize, file, nops, aside>>

\* trfs_lookup returns: with an inode, an error, or a negative dentry that the
\* caller has no use for.
LookupReturn(t) ==
  /\ pc[t] \in {"found", "fail", "negative"}
  /\ Finish(t)
  /\ UNCHANGED file
  /\ Settle(dent, ldent, Ref({NameOf(t)}, -1), iref)

-----------------------------------------------------------------------------
(* Changes of a size.  Reads and writes go to the lower file, lseek and     *)
(* stat look at the i_size of the upper inode.                              *)

\* The dentry of the file that a task writes, truncates or links.
SizeDent(t) == IF job[t].op = "link" THEN job[t].old ELSE D(t)
SizeUpper(t) == dent[SizeDent(t)].inode

\* The tasks that change the size of the file with lower inode i.
Sizing(i) == {t \in Tasks : /\ job[t].op \in {"write", "truncate", "link"}
                            /\ ldent[dent[SizeDent(t)].lower].ino = i}

\* The tasks that hold the i_mutex of upper inode u meanwhile: a write does not.
Owners(u) == {t \in Tasks : job[t].op \in {"truncate", "link"} /\ SizeUpper(t) = u}

\* Task t, with job j, now is one of them; it is not alone, and neither are
\* they, if there are others.  The lower size that changed is missed if t is
\* not going to copy it.
Sizes(t, j, i, missed) ==
  /\ job' = [s \in Tasks |-> IF s = t THEN [j EXCEPT !.alone = Sizing(i) = {}]
                             ELSE IF s \in Sizing(i) THEN [job[s] EXCEPT !.alone = FALSE]
                             ELSE job[s]]
  /\ torn' = IF Sizing(i) = {} /\ ~missed THEN torn ELSE torn \cup {i}
  /\ UNCHANGED <<overput, raced, cut>>

-----------------------------------------------------------------------------
(* Operations on directories, as far as they hold references *)

\* trfs_create, and likewise trfs_mknod and trfs_symlink: the lower path is
\* taken, and the lower parent by lock_parent (the lookup returned its own).
\* vfs_create makes the lower dentry positive or fails.
trfs_create(t) ==
  LET x == LowerOf(t) IN
  /\ pc[t] = "negative"
  /\ job' = [job EXCEPT ![t].op = "create"]
  /\ dref' = Ref({x}, 1)
  /\ \/ \E i \in Lowers \ Foreign :
          /\ ldent[x].ino = None /\ ldent[x].hashed
          /\ iref[i] = 0 /\ Cached(i) = {}
          /\ \A y \in LDents : ldent[y] # None => ldent[y].ino # i
          /\ lsize' = [lsize EXCEPT ![i] = 0]
          /\ ldent' = [ldent EXCEPT ![x].ino = i]
          /\ iref' = [iref EXCEPT ![i] = 1]
          /\ Goto(t, "iget")
     \/ Goto(t, "failed") /\ UNCHANGED <<ldent, iref, lsize>>
  /\ UNCHANGED <<dent, upper, file, nops, aside>>

\* trfs_link: the size is saved and the lower paths of both dentries are taken.
\* The VFS holds the i_mutex of the old inode.
trfs_link(t) ==
  LET x == LowerOf(t) IN
  /\ pc[t] = "negative"
  /\ \E old \in Dents :
       LET i == ldent[dent[old].lower].ino IN
       /\ Found(old)
       /\ Owners(dent[old].inode) = {}
       /\ Sizes(t, [job[t] EXCEPT !.op = "link", !.old = old, !.size = upper[dent[old].inode].size], i,
                FALSE)
       /\ dref' = Ref({x, dent[old].lower}, 1)
       /\ \/ /\ ldent[x].ino = None /\ ldent[x].hashed
             /\ ldent' = [ldent EXCEPT ![x].ino = i]
             /\ iref' = [iref EXCEPT ![i] = @ + 1]
             /\ Goto(t, "iget")
          \/ Goto(t, "failed") /\ UNCHANGED <<ldent, iref>>
  /\ UNCHANGED <<dent, upper, lsize, file, queued, nops>>

\* The saved size is written back, to the inode of the new dentry.
RestoreSize(t) ==
  /\ pc[t] = "linked"
  /\ upper' = [upper EXCEPT ![dent[D(t)].inode].size = job[t].size]
  /\ Goto(t, "made")
  /\ UNCHANGED <<dent, ldent, dref, iref, lsize, file, job, nops, aside>>

\* The tail of both: the record is logged, the parent and the paths are put.
CreateReturn(t) ==
  LET old == job[t].old IN
  /\ pc[t] \in {"made", "failed"}
  /\ Finish(t)
  /\ UNCHANGED file
  /\ Settle(dent, ldent,
            Ref({NameOf(t), LowerOf(t)} \cup (IF old = None THEN {} ELSE {dent[old].lower}), -1), iref)

\* trfs_unlink takes the lower path, a reference more, and the lower parent.
trfs_unlink(t) ==
  \E d \in Dents :
    /\ Found(d)
    /\ ~DirLocked(dent[d].name)
    /\ Begin(t, [NoJob EXCEPT !.op = "unlink", !.d = d], "unlink")
    /\ dref' = [Ref({dent[d].lower}, 2) EXCEPT ![dent[d].name] = @ + 1]
    /\ UNCHANGED <<dent, upper, ldent, iref, lsize, aside>>

\* vfs_unlink unhashes the lower dentry, which others still hold; d_drop.
VfsUnlink(t) ==
  /\ pc[t] = "unlink"
  /\ Goto(t, "unlinked")
  /\ \/ /\ ldent[LowerOf(t)].hashed
        /\ ldent' = [ldent EXCEPT ![LowerOf(t)].hashed = FALSE]
        /\ dent' = [dent EXCEPT ![D(t)].hashed = FALSE]
     \/ UNCHANGED <<ldent, dent>>
  /\ UNCHANGED <<upper, dref, iref, lsize, file, job, nops, aside>>

\* Mutant: the lower path is put once too often.
UnlinkReturnTwice(t) ==
  /\ pc[t] = "unlinked"
  /\ Finish(t)
  /\ UNCHANGED file
  /\ Settle(dent, ldent, [Ref({LowerOf(t)}, -3) EXCEPT ![NameOf(t)] = @ - 1], iref)

UnlinkReturn(t) ==
  /\ pc[t] = "unlinked"
  /\ Finish(t)
  /\ UNCHANGED file
  /\ Settle(dent, ldent, [Ref({LowerOf(t)}, -2) EXCEPT ![NameOf(t)] = @ - 1], iref)

-----------------------------------------------------------------------------
(* Operations that hold the lower path of a dentry for a while *)

\* trfs_get_lower_path, ahead of a call below.
trfs_get_lower_path(t, op, d) ==
  /\ Begin(t, [NoJob EXCEPT !.op = op, !.d = d], "path")
  /\ dref' = Ref({dent[d].lower}, 1)
  /\ UNCHANGED <<dent, upper, ldent, iref, lsize, aside>>

\* The operation op on a dentry.
PathCall(t, op) == \E d \in Dents : Reached(d) /\ trfs_get_lower_path(t, op, d)

\* A walk that finds a dentry asks whether it is valid.
trfs_d_revalidate(t) == \E d \in Dents : Found(d) /\ trfs_get_lower_path(t, "d_revalidate", d)
trfs_statfs(t)       == PathCall(t, "statfs")
trfs_getattr(t)      == PathCall(t, "getattr")
trfs_setattr(t)      == PathCall(t, "setattr")
trfs_setxattr(t)     == PathCall(t, "xattr")      \* getxattr, listxattr, removexattr

\* trfs_readlink and, by it, trfs_get_link
trfs_readlink(t)     == PathCall(t, "readlink")

\* An open file keeps its dentry, also after an unlink.
trfs_fsync(t) == \E f \in Files : file[f] # None /\ trfs_get_lower_path(t, "fsync", file[f].d)

\* All of them put it on every way out.
trfs_put_lower_path(t) ==
  /\ pc[t] = "path"
  /\ Finish(t)
  /\ UNCHANGED file
  /\ Settle(dent, ldent, Ref({LowerOf(t)}, -1), iref)

-----------------------------------------------------------------------------
(* Open files and mappings *)

\* trfs_open, up to dentry_open: a dentry that is not hashed is refused.
trfs_open(t) ==
  \E d \in Dents, f \in Files :
    /\ Found(d)
    /\ file[f] = None
    /\ \A s \in Tasks : job[s].f # f
    /\ Begin(t, [NoJob EXCEPT !.op = "open", !.d = d, !.f = f], "open")
    /\ dref' = Ref({dent[d].lower}, 1)
    /\ UNCHANGED <<dent, upper, ldent, iref, lsize, aside>>

\* Mutant: the path is not put when the lower open fails.
OpenReturnKeep(t) ==
  /\ pc[t] = "open"
  /\ Finish(t)
  /\ \/ /\ file' = [file EXCEPT ![job[t].f] = [d |-> D(t), lower |-> LowerOf(t),
                                                vmops |-> FALSE, vmas |-> 0]]
        /\ Settle(dent, ldent, dref, iref)
     \/ UNCHANGED file /\ Settle(dent, ldent, dref, iref)

\* The lower file has a reference of its own, and the path is put; or the
\* lower open failed and only the path is put.
OpenReturn(t) ==
  /\ pc[t] = "open"
  /\ Finish(t)
  /\ \/ /\ file' = [file EXCEPT ![job[t].f] = [d |-> D(t), lower |-> LowerOf(t),
                                                vmops |-> FALSE, vmas |-> 0]]
        /\ Settle(dent, ldent, dref, iref)
     \/ UNCHANGED file /\ Settle(dent, ldent, Ref({LowerOf(t)}, -1), iref)

\* The last user of a file is gone: no mapping, no call on it, no queued write.
trfs_file_release(f) ==
  /\ file[f] # None /\ file[f].vmas = 0 /\ queued[f] = 0
  /\ \A t \in Tasks : job[t].f # f
  /\ file' = [file EXCEPT ![f] = None]
  /\ UNCHANGED <<pc, job, nops>>
  /\ Settle(dent, ldent, Ref({file[f].lower}, -1), iref)

\* trfs_mmap, up to the lower mmap: it is called, and may fail, if the lower
\* vm_ops are not known yet.  The file is kept by the caller.
trfs_mmap(t) ==
  \E f \in Files :
    /\ file[f] # None
    /\ Begin(t, [NoJob EXCEPT !.op = "mmap", !.d = file[f].d, !.f = f,
                              !.saved = ~file[f].vmops], "mmap")
    /\ UNCHANGED <<dent, upper, ldent, dref, iref, lsize, aside>>

\* Mutant: lower_vm_ops is set without a look at what it is.
MmapReturnAlways(t) ==
  LET f == job[t].f IN
  /\ pc[t] = "mmap"
  /\ Finish(t)
  /\ file' = [file EXCEPT ![f].vmas = @ + 1, ![f].vmops = job[t].saved]
  /\ Settle(dent, ldent, dref, iref)

\* The rest: the vm_ops of the lower mmap are kept if none are known now.
MmapReturn(t) ==
  LET f == job[t].f IN
  /\ pc[t] = "mmap"
  /\ Finish(t)
  /\ \/ file' = [file EXCEPT ![f].vmas = @ + 1, ![f].vmops = @ \/ job[t].saved]
     \/ UNCHANGED file               \* no writepage below, or the lower mmap failed
  /\ Settle(dent, ldent, dref, iref)

\* A mapping ends.
Munmap(f) ==
  /\ file[f] # None /\ file[f].vmas > 0
  /\ file' = [file EXCEPT ![f].vmas = @ - 1]
  /\ UNCHANGED <<dent, upper, ldent, dref, iref, lsize, pc, job, nops, aside>>

\* trfs_fault and trfs_page_mkwrite stop at BUG_ON(!lower_vm_ops).
FaultBug(f) == file[f] # None /\ file[f].vmas > 0 /\ ~file[f].vmops

-----------------------------------------------------------------------------
(* Writes and truncations *)

\* Task t begins a write or a truncation of i.
BeginSize(t, j, i, to, missed) ==
  /\ pc[t] = "idle"
  /\ nops < MaxOps
  /\ nops' = nops + 1
  /\ Sizes(t, j, i, missed)
  /\ Goto(t, to)
  /\ UNCHANGED file

\* A write to the lower file of f in task t, which then is at to: if the write
\* appends there, it has to copy the size.
LowerWrite(t, f, to, grown) ==
  LET i == ldent[file[f].lower].ino IN
  /\ file[f] # None
  /\ BeginSize(t, [NoJob EXCEPT !.op = "write", !.d = file[f].d, !.f = f], i, to,
               grown /\ to = "written")
  /\ lsize' = IF grown THEN [lsize EXCEPT ![i] = @ + 1] ELSE lsize
  /\ UNCHANGED <<dent, upper, ldent, dref, iref>>

\* Mutant: the size is not copied.
trfs_write_nosize(t) ==
  \E f \in Files :
    LET i == ldent[file[f].lower].ino IN
    /\ file[f] # None
    /\ BeginSize(t, [NoJob EXCEPT !.op = "write", !.d = file[f].d, !.f = f], i, "written", FALSE)
    /\ lsize' = [lsize EXCEPT ![i] = @ + 1]
    /\ UNCHANGED <<dent, upper, ldent, dref, iref, queued>>

\* trfs_write, trfs_write_iter: the lower write appends; or it returns an error,
\* before or after it appended, and no size is copied; or an aio write is
\* queued below (-EIOCBQUEUED) and the size copied before it is done.
trfs_write(t) ==
  \E f \in Files :
    \/ LowerWrite(t, f, "getsize", TRUE) /\ UNCHANGED queued
    \/ \E grown \in BOOLEAN : LowerWrite(t, f, "written", grown) /\ UNCHANGED queued
    \/ LowerWrite(t, f, "getsize", FALSE) /\ queued' = [queued EXCEPT ![f] = @ + 1]

\* A queued write is done, in a task of the kernel: the lower file grows or not,
\* and nothing is told to trfs.
AioDone(t) ==
  \E f \in Files, grown \in BOOLEAN :
    /\ queued[f] > 0
    /\ queued' = [queued EXCEPT ![f] = @ - 1]
    /\ LowerWrite(t, f, "written", grown)

\* fsstack_copy_inode_size reads the lower size and sets the upper one; no lock
\* is held.
CopySize(t) ==
  LET i == LowerInode(t) IN
  /\ \/ /\ pc[t] = "getsize"
        /\ job' = [job EXCEPT ![t].size = lsize[i]]
        /\ Goto(t, "setsize")
        /\ UNCHANGED <<upper, torn, cut>>
     \/ /\ pc[t] = "setsize"
        /\ upper' = [upper EXCEPT ![SizeUpper(t)].size = job[t].size]
        /\ torn' = IF job[t].alone THEN torn \ {i} ELSE torn
        /\ cut' = IF job[t].alone THEN cut \ {i} ELSE cut
        /\ Goto(t, "written")
        /\ UNCHANGED job
  /\ UNCHANGED <<dent, ldent, dref, iref, lsize, file, queued, nops, overput, raced>>

\* The record is logged, the write returns.
WriteReturn(t) ==
  /\ pc[t] = "written"
  /\ Finish(t)
  /\ UNCHANGED file
  /\ Settle(dent, ldent, dref, iref)

\* trfs_setattr with a new size, here 0: the upper inode is locked by the VFS.
\* truncate_setsize comes first.
Truncate(t) ==
  \E d \in Dents :
    LET i == ldent[dent[d].lower].ino IN
    /\ Reached(d)
    /\ Owners(dent[d].inode) = {}
    /\ BeginSize(t, [NoJob EXCEPT !.op = "truncate", !.d = d], i, "notify", FALSE)
    /\ dref' = Ref({dent[d].lower}, 1)
    /\ upper' = [upper EXCEPT ![dent[d].inode].size = 0]
    /\ UNCHANGED <<dent, ldent, iref, lsize, queued>>

\* Then notify_change below, which may fail; the upper size stays.
notify_change(t) ==
  LET i == LowerInode(t) IN
  /\ pc[t] = "notify"
  /\ \/ /\ lsize' = [lsize EXCEPT ![i] = 0]
        /\ torn' = IF job[t].alone THEN torn \ {i} ELSE torn
        /\ cut' = IF job[t].alone THEN cut \ {i} ELSE cut
     \/ /\ cut' = cut \cup {i}
        /\ UNCHANGED <<lsize, torn>>
  /\ Goto(t, "path")
  /\ UNCHANGED <<dent, upper, ldent, dref, iref, file, job, queued, nops, overput, raced>>

-----------------------------------------------------------------------------
(* The VFS and the lower file system *)

\* Memory pressure or unmount: a cached dentry that nobody uses goes.
Prune(d) ==
  /\ dent[d] # None /\ dent[d].hashed
  /\ \A t \in Tasks : job[t].d # d /\ job[t].old # d
  /\ \A f \in Files : file[f] # None => file[f].d # d
  /\ UNCHANGED <<file, pc, job, nops>>
  /\ Settle([dent EXCEPT ![d].hashed = FALSE], ldent, dref, iref)

\* Somebody removes a name in the lower file system, not through trfs: a
\* dentry that is held stays positive and is unhashed, another turns negative.
LowerUnlink(x) ==
  /\ ldent[x] # None /\ ldent[x].hashed /\ ldent[x].ino # None
  /\ IF dref[x] > 0
     THEN ldent' = [ldent EXCEPT ![x].hashed = FALSE] /\ UNCHANGED iref
     ELSE /\ ldent' = [ldent EXCEPT ![x].ino = None]
          /\ iref' = [iref EXCEPT ![ldent[x].ino] = @ - 1]
  /\ UNCHANGED <<dent, upper, dref, lsize, file, pc, job, nops, aside>>

Next ==
  \/ \E t \in Tasks :
       \/ trfs_lookup(t) \/ new_dentry_private_data(t) \/ LookupLower(t)
       \/ iget5_locked(t) \/ trfs_iget(t) \/ d_splice_alias(t) \/ LookupReturn(t)
       \/ trfs_create(t) \/ trfs_link(t) \/ RestoreSize(t) \/ CreateReturn(t)
       \/ trfs_unlink(t) \/ VfsUnlink(t) \/ UnlinkReturn(t)
       \/ trfs_d_revalidate(t) \/ trfs_statfs(t) \/ trfs_getattr(t) \/ trfs_setattr(t)
       \/ trfs_setxattr(t) \/ trfs_readlink(t) \/ trfs_fsync(t) \/ trfs_put_lower_path(t)
       \/ trfs_open(t) \/ OpenReturn(t) \/ trfs_mmap(t) \/ MmapReturn(t)
       \/ trfs_write(t) \/ AioDone(t) \/ CopySize(t) \/ WriteReturn(t) \/ Truncate(t) \/ notify_change(t)
  \/ \E f \in Files : trfs_file_release(f) \/ Munmap(f)
  \/ \E d \in Dents : Prune(d)
  \/ \E x \in LDents : LowerUnlink(x)

Spec == Init /\ [][Next]_vars

-----------------------------------------------------------------------------
(* Properties *)

\* Types: among them, no lower dentry has fewer than no references.
TypeOK ==
  /\ dent \in [Dents -> {None} \cup DentRecords]
  /\ upper \in [Uppers -> [state : {"free", "new", "live"}, lower : Lowers \cup {None}, size : Nat]]
  /\ ldent \in [LDents -> {None} \cup LDentRecords]
  /\ dref \in [LDents \cup Names -> Nat]
  /\ iref \in [Lowers -> Int]
  /\ lsize \in [Lowers -> Nat]
  /\ file \in [Files -> {None} \cup FileRecords]
  /\ queued \in [Files -> Nat]
  /\ nops \in 0 .. MaxOps

\* What holds a lower dentry: lower paths, lower files, and operations under way.
HeldByTask(t, x) ==
  CASE pc[t] \in {"path", "open", "notify"} -> IF x = LowerOf(t) THEN 1 ELSE 0
    [] pc[t] \in {"unlink", "unlinked"} -> IF x = LowerOf(t) THEN 2 ELSE IF x = NameOf(t) THEN 1 ELSE 0
    [] job[t].op \in {"create", "link"} ->
         IF x \in {LowerOf(t), NameOf(t)} \/ (job[t].old # None /\ x = dent[job[t].old].lower) THEN 1 ELSE 0
    [] job[t].op = "lookup" -> IF x = NameOf(t) THEN 1 ELSE 0
    [] OTHER -> 0

\* References on lower dentries balance: each one is owned by an upper dentry, an
\* open file or an operation under way, and each of these owns what it will put,
\* whatever failed on the way (trfs_put_reset_lower_path, lookup.c:243; the
\* error paths of trfs_link, trfs_unlink, trfs_open; trfs_d_release).
LowerDentriesCounted ==
  \A x \in LDents \cup Names :
    dref[x] = Cardinality({d \in Dents : dent[d] # None /\ dent[d].lower = x})
            + Cardinality({f \in Files : file[f] # None /\ file[f].lower = x})
            + Cardinality({t \in Tasks : HeldByTask(t, x) >= 1})
            + Cardinality({t \in Tasks : HeldByTask(t, x) >= 2})

\* References on lower inodes balance: one for each lower dentry and one for each
\* upper inode that trfs_evict_inode will put, but for those that trfs_iget put
\* without owning them (lookup.c:87).
LowerInodesCounted ==
  \A i \in Lowers :
    iref[i] + overput[i] = Cardinality({x \in LDents : ldent[x] # None /\ ldent[x].ino = i})
                         + Cardinality(Cached(i))

\* The two ways down agree: of a positive dentry, in the cache or still in use
\* after an unlink above or below, the lower path leads to the lower inode of
\* its inode, so that operations by path (lower_path) and by inode
\* (trfs_lower_inode) work on the same object.
PathsAgree ==
  \A d \in Dents :
    Positive(d) =>
      /\ dent[d].info /\ dent[d].lower # None
      /\ ldent[dent[d].lower] # None
      /\ upper[dent[d].inode].state = "live"
      /\ ldent[dent[d].lower].ino = upper[dent[d].inode].lower

Twins(i) == \E u, v \in Cached(i) : u # v

\* trfs_iget finds the cached inode if there is one: hard links and repeated
\* lookups share one upper inode, as long as no two trfs_iget of the lower
\* inode overlap.  trfs_inode_set sets nothing, so that an inode is not found
\* between iget5_locked and trfs_set_lower_inode.
OneUpper == \A i \in Lowers : Twins(i) => i \in raced

\* A page fault finds lower_vm_ops (mmap.c:23, 52): a file that is mapped has
\* them, though two tasks may be in the first trfs_mmap of a file at a time.
FaultFindsOps == \A f \in Files : ~FaultBug(f)

\* The upper inode has the size of the lower one whenever nothing is changing
\* it, for the inodes in which nothing of S ever happened.
Agree(S) ==
  \A u \in Uppers :
    LET i == upper[u].lower IN
    upper[u].state = "live" /\ i \notin S /\ Sizing(i) = {} => upper[u].size = lsize[i]

\* stat and lseek see the size that reads and writes see (trfs_iget,
\* trfs_write, trfs_write_iter, trfs_setattr), with these exceptions: two
\* changes overlapped, a lower write returned an error though it appended, a
\* queued write was done after its size was copied, a truncation failed below,
\* or the inode has a twin.  The next change that nothing disturbs mends all
\* but the last.
SizesAgree == Agree(raced \cup torn \cup cut)

\* After trfs_setattr the sizes agree: VFS updates ours, and notify_change on
\* the lower inode updates its size (inode.c:499).
TruncateAgrees == Agree(raced \cup torn)

=============================================================================
