------------------------------ MODULE TrfsOps ------------------------------
(***************************************************************************)
(* The operations of trfs that change the file system (inode.c, file.c):   *)
(* each runs the same operation on the lower file system, updates the      *)
(* upper dentries, and then logs a record with the paths the upper dentry  *)
(* tree gives at that moment.  The three happen at different times and     *)
(* only the directory and file locks tie them together, so tasks           *)
(* interleave between them.  A record reaches the log in one step, which   *)
(* is what TrDump implements.                                              *)
(***************************************************************************)
EXTENDS Integers, Sequences, FiniteSets

CONSTANTS Tasks, NoTask,
          Names,         \* names of directory entries
          Dents, Root,   \* dentries: an upper and its lower one; the mount's root
          None,          \* no location, no open file
          Ops,           \* the operations tasks call
          AppendModes,   \* O_APPEND or not, for files that tasks open
          LowerErrors,   \* may the lower file system fail an operation (EIO, ENOSPC)
          Isolated,      \* do callers keep their operations apart, see Clash and InUse
          MaxOps         \* bound on the number of operations

ASSUME TasksAssumption == NoTask \notin Tasks
ASSUME RootAssumption == Root \in Dents
ASSUME NoneAssumption ==
  None \notin [par : Dents, name : Names] \cup [d : Dents, pos : Nat, append : BOOLEAN]
ASSUME BoundAssumption == MaxOps \in Nat
ASSUME SwitchAssumption == LowerErrors \in BOOLEAN /\ Isolated \in BOOLEAN /\ AppendModes \subseteq BOOLEAN

VARIABLES kind,    \* what a dentry names: "free" if it is not in use yet
          ino,     \* its inode, named after the inode's first dentry
          lo,      \* its place in the lower tree, None when unlinked
          up,      \* d_parent and d_name of the upper dentry, kept by d_drop
          hashed,  \* the upper dentries a lookup finds
          data,    \* contents of the lower inodes
          fd,      \* the file a task has open
          lock,    \* owner of a directory's or a file's i_mutex
          pc, op,  \* where a task is, and the operation it runs
          log,     \* the records of the trace file
          nops     \* operations begun

vars == <<kind, ino, lo, up, hashed, data, fd, lock, pc, op, log, nops>>
trees == <<kind, ino, lo, up, hashed, data>>

Loc(dir, name) == [par |-> dir, name |-> name]

\* dentry_path_raw: the names up to the root, by the upper dentries.  Directories
\* are kept in the root, so a path has at most two names.
PathOf(loc) == IF loc.par = Root THEN <<loc.name>> ELSE <<up[loc.par].name, loc.name>>

Free == {d \in Dents : kind[d] = "free"}
Dirs == {Root} \cup {d \in hashed : kind[d] = "dir"}
UpperChild(loc) == {d \in hashed : up[d] = loc}
LowerChild(loc) == {d \in Dents : lo[d] = loc}
LowerEmpty(d)   == \A c \in Dents : lo[c] # None => lo[c].par # d

NoOp == [type |-> "none", d |-> Root, loc |-> None, loc2 |-> None, held |-> {}, seq |-> 0, err |-> 0]

Init ==
  /\ kind = [d \in Dents |-> IF d = Root THEN "dir" ELSE "free"]
  /\ ino = [d \in Dents |-> d]
  /\ lo = [d \in Dents |-> None]
  /\ up = [d \in Dents |-> None]
  /\ hashed = {}
  /\ data = [d \in Dents |-> <<>>]
  /\ fd = [t \in Tasks |-> None]
  /\ lock = [d \in Dents |-> NoTask]
  /\ pc = [t \in Tasks |-> "idle"]
  /\ op = [t \in Tasks |-> NoOp]
  /\ log = <<>>
  /\ nops = 0

-----------------------------------------------------------------------------
\* The inodes an operation works on: the one of its dentry, and the one that a
\* rename replaces.  The directories its paths go through.
Touches(o) == {ino[o.d]} \cup {ino[x] : x \in UpperChild(o.loc2)}
Through(o) == {l.par : l \in {o.loc, o.loc2, up[o.d]} \ {None}}

\* Two operations of which one works on a file that the other works on too, or
\* on a directory that the other goes through.
Clash(o, p) ==
  \/ Touches(o) \cap (Touches(p) \cup Through(p)) # {}
  \/ Touches(p) \cap Through(o) # {}

\* A file that a task has open; callers that keep apart do not unlink or
\* replace it.
InUse(d) == \E u \in Tasks : fd[u] # None /\ fd[u].d = d

\* Mutant: the locks are not held when the operation goes on to log.
BeginNoLock(t, type, d, loc, loc2, held, err, next) ==
  /\ pc[t] = "idle"
  /\ nops < MaxOps
  /\ nops' = nops + 1
  /\ op' = [op EXCEPT ![t] = [type |-> type, d |-> d, loc |-> loc, loc2 |-> loc2,
                              held |-> held, seq |-> nops + 1, err |-> err]]
  /\ pc' = [pc EXCEPT ![t] = next]
  /\ UNCHANGED <<lock, log>>

\* Task t begins an operation that holds the locks of held until it returns
\* (taken by the VFS on the upper inodes and by lock_parent or lock_rename on
\* the lower ones), and goes on to next.
Begin(t, type, d, loc, loc2, held, err, next) ==
  LET o == [type |-> type, d |-> d, loc |-> loc, loc2 |-> loc2,
            held |-> held, seq |-> nops + 1, err |-> err]
  IN
  /\ pc[t] = "idle"
  /\ nops < MaxOps
  /\ Isolated => \A u \in Tasks : pc[u] # "idle" => ~Clash(op[u], o)
  /\ \A x \in held : lock[x] = NoTask
  /\ lock' = [x \in Dents |-> IF x \in held THEN t ELSE lock[x]]
  /\ nops' = nops + 1
  /\ op' = [op EXCEPT ![t] = o]
  /\ pc' = [pc EXCEPT ![t] = next]
  /\ UNCHANGED log

\* trfs_create, trfs_mkdir, trfs_symlink, trfs_mknod: a lookup found no entry;
\* the lower one is made, then trfs_interpose makes the upper dentry positive.
\* The lower call fails when the entry exists below, or for reasons of its
\* own; trfs_interpose may fail after it.  onerr is where an error leads.
MakeNode(t, k, type, next, onerr) ==
  \E dir \in Dirs, n \in Names, d \in Free :
    LET loc == Loc(dir, n) IN
    /\ UpperChild(loc) = {}
    /\ k = "dir" => dir = Root
    /\ UNCHANGED <<ino, data, fd>>
    /\ \/ /\ LowerChild(loc) = {}
          /\ Begin(t, type, d, loc, None, {dir}, 0, next)
          /\ kind' = [kind EXCEPT ![d] = k]
          /\ lo' = [lo EXCEPT ![d] = loc]
          /\ up' = [up EXCEPT ![d] = loc]
          /\ hashed' = hashed \cup {d}
       \/ /\ LowerErrors /\ LowerChild(loc) = {}      \* trfs_interpose fails
          /\ Begin(t, type, d, loc, None, {dir}, -1, onerr)
          /\ kind' = [kind EXCEPT ![d] = k]
          /\ lo' = [lo EXCEPT ![d] = loc]
          /\ UNCHANGED <<up, hashed>>
       \/ /\ LowerErrors \/ LowerChild(loc) # {}      \* the lower call fails
          /\ Begin(t, type, d, loc, None, {dir}, -1, onerr)
          /\ UNCHANGED <<kind, lo, up, hashed>>

Create(t)  == "create" \in Ops /\ MakeNode(t, "file", "FCREAT", "log", "log")
Mkdir(t)   == "mkdir" \in Ops /\ MakeNode(t, "dir", "DCREAT", "log", "log")

\* After an error trfs_symlink reads d_inode(dentry)->i_sb of a dentry that has
\* no inode: the task dies there with its locks.
Symlink(t) == "symlink" \in Ops /\ MakeNode(t, "symlink", "SYMLINK", "log", "oops")

\* trfs_mknod logs nothing.
Mknod(t)   == "mknod" \in Ops /\ MakeNode(t, "dev", "none", "ret", "ret")

\* trfs_unlink: the lower entry goes, then d_drop unhashes the upper dentry.
Unlink(t) ==
  /\ "unlink" \in Ops
  /\ \E d \in hashed :
       /\ kind[d] # "dir"
       /\ Isolated => ~InUse(d)
       /\ UNCHANGED <<kind, ino, up, data, fd>>
       /\ \/ /\ Begin(t, "UNLINK", d, up[d], None, {up[d].par, ino[d]}, 0, "log")
             /\ lo' = [lo EXCEPT ![d] = None]
             /\ hashed' = hashed \ {d}
          \/ /\ LowerErrors
             /\ Begin(t, "UNLINK", d, up[d], None, {up[d].par, ino[d]}, -1, "log")
             /\ UNCHANGED <<lo, hashed>>

\* trfs_rmdir, logged as an unlink; the lower call refuses a directory that
\* has entries.
Rmdir(t) ==
  /\ "rmdir" \in Ops
  /\ \E d \in hashed :
       /\ kind[d] = "dir"
       /\ UNCHANGED <<kind, ino, up, data, fd>>
       /\ \/ /\ LowerEmpty(d)
             /\ Begin(t, "UNLINK", d, up[d], None, {up[d].par, d}, 0, "log")
             /\ lo' = [lo EXCEPT ![d] = None]
             /\ hashed' = hashed \ {d}
          \/ /\ LowerErrors \/ ~LowerEmpty(d)
             /\ Begin(t, "UNLINK", d, up[d], None, {up[d].par, d}, -1, "log")
             /\ UNCHANGED <<lo, hashed>>

\* trfs_link: a new entry for the inode of d.
Link(t) ==
  /\ "link" \in Ops
  /\ \E d \in hashed, dir \in Dirs, n \in Names, e \in Free :
       LET loc == Loc(dir, n) IN
       /\ kind[d] # "dir"
       /\ UpperChild(loc) = {}
       /\ UNCHANGED <<data, fd>>
       /\ \/ /\ LowerChild(loc) = {}
             /\ Begin(t, "LINK", d, up[d], loc, {dir, ino[d]}, 0, "log")
             /\ kind' = [kind EXCEPT ![e] = kind[d]]
             /\ ino' = [ino EXCEPT ![e] = ino[d]]
             /\ lo' = [lo EXCEPT ![e] = loc]
             /\ up' = [up EXCEPT ![e] = loc]
             /\ hashed' = hashed \cup {e}
          \/ /\ LowerErrors \/ LowerChild(loc) # {}
             /\ Begin(t, "LINK", d, up[d], loc, {dir, ino[d]}, -1, "log")
             /\ UNCHANGED <<kind, ino, lo, up, hashed>>

\* vfs_rename below: an entry at the new place is replaced if it is of the same
\* sort, and empty if it is a directory.
LowerRenames(d, loc) == \A e \in LowerChild(loc) :
  /\ kind[e] = "dir" <=> kind[d] = "dir"
  /\ kind[e] = "dir" => LowerEmpty(e)

\* trfs_rename: the lower entry moves; the upper dentry is moved by the VFS
\* (d_move) after trfs_rename has returned.
Rename(t) ==
  /\ "rename" \in Ops
  /\ \E d \in hashed, dir \in Dirs, n \in Names :
       LET loc  == Loc(dir, n)
           over == UpperChild(loc)
           held == {up[d].par, dir} \cup {ino[x] : x \in over} \cup (IF kind[d] = "dir" THEN {} ELSE {ino[d]})
       IN
       /\ kind[d] = "dir" => dir = Root
       /\ Isolated => \A e \in over : ~InUse(e)
       /\ \A e \in over : ino[e] # ino[d] /\ (kind[e] = "dir" <=> kind[d] = "dir")
       /\ UNCHANGED <<kind, ino, up, hashed, data, fd>>
       /\ \/ /\ LowerRenames(d, loc)
             /\ Begin(t, "RENAME", d, up[d], loc, held, 0, "log")
             /\ lo' = [x \in Dents |-> IF x = d THEN loc ELSE IF lo[x] = loc THEN None ELSE lo[x]]
          \/ /\ LowerErrors \/ ~LowerRenames(d, loc)
             /\ Begin(t, "RENAME", d, up[d], loc, held, -1, "log")
             /\ UNCHANGED lo

\* trfs_open: not logged; refuses a dentry that is not hashed.
Open(t) ==
  /\ pc[t] = "idle"
  /\ fd[t] = None
  /\ {"write", "writev"} \cap Ops # {}
  /\ \E d \in hashed, a \in AppendModes :
       /\ kind[d] = "file"
       /\ Isolated => \A u \in Tasks : pc[u] # "idle" => ino[d] \notin Touches(op[u])
       /\ fd' = [fd EXCEPT ![t] = [d |-> d, pos |-> 0, append |-> a]]
  /\ UNCHANGED <<trees, lock, pc, op, log, nops>>

\* trfs_file_release
Close(t) ==
  /\ pc[t] = "idle"
  /\ fd[t] # None
  /\ fd' = [fd EXCEPT ![t] = None]
  /\ UNCHANGED <<trees, lock, pc, op, log, nops>>

\* One unit written into a file's contents at an offset.
Put(s, pos, x) == IF pos < Len(s) THEN [s EXCEPT ![pos + 1] = x] ELSE Append(s, x)

\* Mutant: the error code is added to the position.
LowerWriteAddErr(t, type, next) ==
  /\ fd[t] # None
  /\ \E err \in {0, -1} :
       /\ Begin(t, type, fd[t].d, None, None, {}, err, next)
       /\ fd' = [fd EXCEPT ![t].pos = @ + err]
  /\ UNCHANGED trees

\* vfs_write on the lower file of an open file: at its position, or at the end
\* if it was opened with O_APPEND.  No lock outlives the call.
LowerWrite(t, type, next) ==
  /\ fd[t] # None
  /\ LET i   == ino[fd[t].d]
         pos == IF fd[t].append THEN Len(data[i]) ELSE fd[t].pos
     IN
     \/ /\ Begin(t, type, fd[t].d, None, None, {}, 0, next)
        /\ data' = [data EXCEPT ![i] = Put(@, pos, nops + 1)]
        /\ fd' = [fd EXCEPT ![t].pos = pos + 1]
     \/ /\ LowerErrors
        /\ Begin(t, type, fd[t].d, None, None, {}, -1, next)
        /\ UNCHANGED <<data, fd>>
  /\ UNCHANGED <<kind, ino, lo, up, hashed>>

Write(t) == "write" \in Ops /\ LowerWrite(t, "FWRITE", "log")

\* trfs_write_iter (writev, aio) writes as trfs_write does and logs nothing.
WriteIter(t) == "writev" \in Ops /\ LowerWrite(t, "none", "ret")

-----------------------------------------------------------------------------
\* Mutant: LINK with old and new path exchanged.
LogRecordSwapped(t) ==
  LET o   == op[t]
      p   == PathOf(IF o.type \in {"FWRITE", "LINK", "RENAME"} THEN up[o.d] ELSE o.loc)
      q   == IF o.loc2 = None THEN <<>> ELSE PathOf(o.loc2)
      two == o.type = "LINK"
  IN
  /\ pc[t] = "log"
  /\ log' = Append(log, [type |-> o.type, path |-> IF two THEN q ELSE p,
                         aux |-> IF two THEN p ELSE q,
                         append |-> o.type = "FWRITE" /\ fd[t].append,
                         err |-> o.err, seq |-> o.seq, held |-> o.held])
  /\ pc' = [pc EXCEPT ![t] = "ret"]
  /\ UNCHANGED <<trees, fd, lock, op, nops>>

\* The logging tail: the record gets the paths as the upper dentries are now.
LogRecord(t) ==
  LET o   == op[t]
      loc == IF o.type \in {"FWRITE", "LINK", "RENAME"} THEN up[o.d] ELSE o.loc
  IN
  /\ pc[t] = "log"
  /\ log' = Append(log, [type |-> o.type, path |-> PathOf(loc),
                         aux |-> IF o.loc2 = None THEN <<>> ELSE PathOf(o.loc2),
                         append |-> o.type = "FWRITE" /\ fd[t].append,
                         err |-> o.err, seq |-> o.seq, held |-> o.held])
  /\ pc' = [pc EXCEPT ![t] = "ret"]
  /\ UNCHANGED <<trees, fd, lock, op, nops>>

\* Mutant: the dentries move although the rename failed.
ReturnMoves(t) ==
  LET o == op[t]
      moved == o.type = "RENAME"
  IN
  /\ pc[t] = "ret"
  /\ up' = IF moved THEN [up EXCEPT ![o.d] = o.loc2] ELSE up
  /\ hashed' = IF moved THEN hashed \ UpperChild(o.loc2) ELSE hashed
  /\ lock' = [x \in Dents |-> IF x \in o.held THEN NoTask ELSE lock[x]]
  /\ op' = [op EXCEPT ![t] = NoOp]
  /\ pc' = [pc EXCEPT ![t] = "idle"]
  /\ UNCHANGED <<kind, ino, lo, data, fd, log, nops>>

\* The operation returns to the VFS, which moves the dentries of a rename and
\* drops the locks.
Return(t) ==
  LET o == op[t]
      moved == o.type = "RENAME" /\ o.err = 0
  IN
  /\ pc[t] = "ret"
  /\ up' = IF moved THEN [up EXCEPT ![o.d] = o.loc2] ELSE up
  /\ hashed' = IF moved THEN hashed \ UpperChild(o.loc2) ELSE hashed
  /\ lock' = [x \in Dents |-> IF x \in o.held THEN NoTask ELSE lock[x]]
  /\ op' = [op EXCEPT ![t] = NoOp]
  /\ pc' = [pc EXCEPT ![t] = "idle"]
  /\ UNCHANGED <<kind, ino, lo, data, fd, log, nops>>

Next == \E t \in Tasks :
  \/ Create(t) \/ Mkdir(t) \/ Symlink(t) \/ Mknod(t)
  \/ Unlink(t) \/ Rmdir(t) \/ Link(t) \/ Rename(t)
  \/ Open(t) \/ Close(t) \/ Write(t) \/ WriteIter(t)
  \/ LogRecord(t) \/ Return(t)

Spec == Init /\ [][Next]_vars

-----------------------------------------------------------------------------
(* Properties *)

Locs == [par : Dents, name : Names]
RecTypes == {"FCREAT", "DCREAT", "SYMLINK", "UNLINK", "LINK", "RENAME", "FWRITE"}

OpRecords == [type : RecTypes \cup {"none"}, d : Dents, loc : Locs \cup {None},
              loc2 : Locs \cup {None}, held : SUBSET Dents, seq : 0 .. MaxOps, err : {0, -1}]

LogRecords == [type : RecTypes, path : Seq(Names), aux : Seq(Names), append : BOOLEAN,
               err : {0, -1}, seq : 0 .. MaxOps, held : SUBSET Dents]

\* Types: among them, a file position never goes below 0, whatever a write
\* returned.
TypeOK ==
  /\ kind \in [Dents -> {"free", "file", "dir", "symlink", "dev"}]
  /\ ino \in [Dents -> Dents]
  /\ lo \in [Dents -> Locs \cup {None}]
  /\ up \in [Dents -> Locs \cup {None}]
  /\ hashed \subseteq Dents \ {Root}
  /\ data \in [Dents -> Seq(1 .. MaxOps)]
  /\ fd \in [Tasks -> [d : Dents, pos : Nat, append : BOOLEAN] \cup {None}]
  /\ lock \in [Dents -> Tasks \cup {NoTask}]
  /\ pc \in [Tasks -> {"idle", "log", "ret", "oops"}]
  /\ op \in [Tasks -> OpRecords]
  /\ log \in Seq(LogRecords)
  /\ nops \in 0 .. MaxOps

\* Operations that need a common directory or file lock are logged in the order
\* in which they changed the lower file system: the lock outlives
\* append_record in every trfs_* operation.
LogOrder ==
  \A i, j \in DOMAIN log :
    i < j /\ log[i].held \cap log[j].held # {} => log[i].seq < log[j].seq

\* The upper dentry of every entry names the place of the lower one, whatever
\* failed, except between the lower part of a rename and the VFS's d_move.
UpperMatchesLower ==
  \A d \in hashed : up[d] # lo[d] =>
    \E t \in Tasks : /\ pc[t] \in {"log", "ret"}
                     /\ op[t].type = "RENAME" /\ op[t].err = 0
                     /\ d = op[t].d \/ up[d] = op[t].loc2
=============================================================================
