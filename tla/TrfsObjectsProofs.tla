------------------------- MODULE TrfsObjectsProofs -------------------------
(***************************************************************************)
(* Proofs about the objects of a mount, for any finite number of tasks,    *)
(* dentries, inodes and open files: the references on lower dentries       *)
(* balance, upper and lower objects belong together, and a page fault      *)
(* finds its operations.                                                   *)
(***************************************************************************)
EXTENDS TrfsObjects, FiniteSetTheorems, TLAPS

-----------------------------------------------------------------------------
(* The inductive invariant.  It is written over the values of the variables *)
(* that it is about, because a step that ends in Settle goes through a state *)
(* in between: what is not used any more is still there.                    *)

PathOps == {"d_revalidate", "statfs", "getattr", "setattr", "xattr", "readlink", "fsync", "truncate"}

\* The operation of a task that is at q.
OpAt(q, o) ==
  \/ q = "idle" /\ o = "none"
  \/ q \in {"alloc", "lower", "negative", "found", "fail"} /\ o = "lookup"
  \/ q \in {"iget", "grab", "splice"} /\ o \in {"lookup", "create", "link"}
  \/ q \in {"made", "failed"} /\ o \in {"create", "link"}
  \/ q = "linked" /\ o = "link"
  \/ q \in {"unlink", "unlinked"} /\ o = "unlink"
  \/ q = "path" /\ o \in PathOps
  \/ q = "open" /\ o = "open"
  \/ q = "mmap" /\ o = "mmap"
  \/ q \in {"getsize", "setsize", "written"} /\ o = "write"
  \/ q = "notify" /\ o = "truncate"

Places == {"idle", "alloc", "lower", "negative", "found", "fail", "iget", "grab", "splice", "made", "failed",
           "linked", "unlink", "unlinked", "path", "open", "mmap", "getsize", "setsize", "written", "notify"}

\* Where the dentry of a task has no inode yet and nobody else knows it.
Raw == {"alloc", "lower", "fail", "iget", "grab", "splice", "negative", "failed"}

JobRecords == [op : PathOps \cup {"none", "lookup", "create", "link", "unlink", "open", "mmap", "write"},
               d : Dents \cup {None}, old : Dents \cup {None}, u : Uppers \cup {None},
               f : Files \cup {None}, saved : BOOLEAN, size : Nat, alone : BOOLEAN]
UpperRecords == [state : {"free", "new", "live"}, lower : Lowers \cup {None}, size : Nat]

\* What a task at q with job j works on.
Shape(q, j) ==
  /\ OpAt(q, j.op)
  /\ j.d = None <=> q = "idle"
  /\ j.old = None <=> j.op # "link"
  /\ j.u = None <=> q \notin {"grab", "splice"}
  /\ j.f = None <=> j.op \notin {"open", "mmap", "write"}

Types(dn, up, ld, rf, fl, jb) ==
  /\ dn \in [Dents -> {None} \cup DentRecords]
  /\ up \in [Uppers -> UpperRecords]
  /\ ld \in [LDents -> {None} \cup LDentRecords]
  /\ rf \in [LDents \cup Names -> Int]
  /\ fl \in [Files -> {None} \cup FileRecords]
  /\ jb \in [Tasks -> JobRecords]

\* A dentry with an inode leads to the inode's lower inode; a dentry that is
\* hashed has one.
DentOK(e, up, ld) ==
  /\ e.inode # None => /\ e.info /\ e.lower # None /\ up[e.inode].state = "live"
                       /\ ld[e.lower].ino = up[e.inode].lower
  /\ e.hashed => e.inode # None
  /\ e.lower # None => ld[e.lower] # None
DentsOK(dn, up, ld) == \A d \in Dents : dn[d] # None => DentOK(dn[d], up, ld)

\* A new inode has no lower inode yet.
UppersOK(up) == \A u \in Uppers : up[u].state = "live" <=> up[u].lower # None

\* An open file has a dentry with an inode and its lower file; if it is mapped,
\* the operations of the lower mapping are known.
FileOK(e, dn) ==
  /\ dn[e.d] # None /\ dn[e.d].inode # None /\ dn[e.d].lower = e.lower
  /\ e.vmas > 0 => e.vmops
FilesOK(dn, fl) == \A f \in Files : fl[f] # None => FileOK(fl[f], dn)

\* What a task at q with job j relies on.
TaskOK(dn, up, ld, fl, q, j) ==
  /\ Shape(q, j)
  /\ q # "idle" => dn[j.d] # None
  /\ q \in Raw => ~dn[j.d].hashed /\ dn[j.d].inode = None
  /\ q # "idle" /\ q \notin Raw => dn[j.d].inode # None
  /\ q \in {"alloc", "lower", "fail"} => dn[j.d].lower = None
  /\ q \in {"lower", "negative", "iget", "grab", "splice"} => dn[j.d].info
  /\ q \in {"iget", "grab", "splice", "negative", "failed"} => dn[j.d].lower # None
  /\ q \in {"iget", "grab", "splice"} => ld[dn[j.d].lower].ino # None
  /\ q = "grab" => up[j.u].state = "new"
  /\ q = "splice" => up[j.u].lower = ld[dn[j.d].lower].ino
  /\ j.old # None => dn[j.old] # None /\ dn[j.old].inode # None
  /\ q = "open" => fl[j.f] = None
  /\ j.op \in {"write", "mmap"} => fl[j.f] # None /\ fl[j.f].d = j.d
  /\ q = "mmap" => fl[j.f].vmops \/ j.saved
TasksOK(dn, up, ld, fl, p, jb) == \A t \in Tasks : TaskOK(dn, up, ld, fl, p[t], jb[t])

\* What two tasks do not share.
Distinct(p, jb) ==
  \A s, t \in Tasks : s # t =>
    /\ p[s] \in Raw /\ p[t] \in Raw => jb[s].d # jb[t].d
    /\ p[s] = "grab" /\ p[t] = "grab" => jb[s].u # jb[t].u
    /\ p[s] = "open" => jb[s].f # jb[t].f

\* HeldByTask for a task at q with job j.
Held(dn, q, j, x) ==
  CASE q \in {"path", "open", "notify"} -> IF x = dn[j.d].lower THEN 1 ELSE 0
    [] q \in {"unlink", "unlinked"} -> IF x = dn[j.d].lower THEN 2 ELSE IF x = dn[j.d].name THEN 1 ELSE 0
    [] j.op \in {"create", "link"} ->
         IF x \in {dn[j.d].lower, dn[j.d].name} \/ (j.old # None /\ x = dn[j.old].lower) THEN 1 ELSE 0
    [] j.op = "lookup" -> IF x = dn[j.d].name THEN 1 ELSE 0
    [] OTHER -> 0

\* What holds lower dentry x: dentries, files, tasks and those that do twice.
DentsOf(dn, x) == {d \in Dents : dn[d] # None /\ dn[d].lower = x}
FilesOf(fl, x) == {f \in Files : fl[f] # None /\ fl[f].lower = x}
TasksOf(dn, p, jb, x, n) == {t \in Tasks : Held(dn, p[t], jb[t], x) >= n}
Count(dn, fl, p, jb, x) ==
  Cardinality(DentsOf(dn, x)) + Cardinality(FilesOf(fl, x))
    + Cardinality(TasksOf(dn, p, jb, x, 1)) + Cardinality(TasksOf(dn, p, jb, x, 2))
Counted(dn, rf, fl, p, jb) == \A x \in LDents \cup Names : rf[x] = Count(dn, fl, p, jb, x)

Inv(dn, up, ld, rf, fl, p, jb) ==
  /\ Types(dn, up, ld, rf, fl, jb) /\ p \in [Tasks -> Places]
  /\ DentsOK(dn, up, ld) /\ UppersOK(up) /\ FilesOK(dn, fl)
  /\ TasksOK(dn, up, ld, fl, p, jb) /\ Distinct(p, jb)
  /\ Counted(dn, rf, fl, p, jb)

\* Numbers that the invariant does not tie to anything.
Numbers ==
  /\ iref \in [Lowers -> Int] /\ lsize \in [Lowers -> Nat]
  /\ nops \in 0 .. MaxOps

IInv == Inv(dent, upper, ldent, dref, file, pc, job) /\ Numbers

-----------------------------------------------------------------------------
(* Counting *)

\* What a task holds, in terms of where it is and its job.
LEMMA HeldIs == \A t \in Tasks : \A x : HeldByTask(t, x) = Held(dent, pc[t], job[t], x)
BY DEF HeldByTask, Held, LowerOf, NameOf, D

\* What a task holds, by where it is.
LEMMA HeldCases ==
  ASSUME NEW dn, NEW q, NEW j, NEW x, OpAt(q, j.op)
  PROVE  /\ q \in {"path", "open", "notify"} => Held(dn, q, j, x) = IF x = dn[j.d].lower THEN 1 ELSE 0
         /\ q \in {"unlink", "unlinked"} =>
              Held(dn, q, j, x) = IF x = dn[j.d].lower THEN 2 ELSE IF x = dn[j.d].name THEN 1 ELSE 0
         /\ j.op \in {"create", "link"} =>
              Held(dn, q, j, x) = IF \/ x = dn[j.d].lower \/ x = dn[j.d].name
                                     \/ j.old # None /\ x = dn[j.old].lower THEN 1 ELSE 0
         /\ j.op = "lookup" => Held(dn, q, j, x) = IF x = dn[j.d].name THEN 1 ELSE 0
         /\ q \in {"idle", "mmap", "getsize", "setsize", "written"} => Held(dn, q, j, x) = 0
         /\ Held(dn, q, j, x) \in 0 .. 2
<1>1. q \in {"path", "open", "notify"} => Held(dn, q, j, x) = IF x = dn[j.d].lower THEN 1 ELSE 0
  BY DEF Held, OpAt, PathOps
<1>2. q \in {"unlink", "unlinked"} =>
        Held(dn, q, j, x) = IF x = dn[j.d].lower THEN 2 ELSE IF x = dn[j.d].name THEN 1 ELSE 0
  BY DEF Held, OpAt, PathOps
<1>3. j.op \in {"create", "link"} =>
        Held(dn, q, j, x) = IF \/ x = dn[j.d].lower \/ x = dn[j.d].name
                               \/ j.old # None /\ x = dn[j.old].lower THEN 1 ELSE 0
  BY DEF Held, OpAt, PathOps
<1>4. j.op = "lookup" => Held(dn, q, j, x) = IF x = dn[j.d].name THEN 1 ELSE 0
  BY DEF Held, OpAt, PathOps
<1>5. q \in {"idle", "mmap", "getsize", "setsize", "written"} => Held(dn, q, j, x) = 0
  BY DEF Held, OpAt, PathOps
<1>6. \/ q \in {"path", "open", "notify"} \/ q \in {"unlink", "unlinked"} \/ j.op \in {"create", "link"}
      \/ j.op = "lookup" \/ q \in {"idle", "mmap", "getsize", "setsize", "written"}
  BY DEF OpAt
<1>7. Held(dn, q, j, x) \in 0 .. 2 BY <1>1, <1>2, <1>3, <1>4, <1>5, <1>6
<1> QED BY <1>1, <1>2, <1>3, <1>4, <1>5, <1>7

\* Sets that differ in one element at most.
LEMMA CountStep ==
  ASSUME NEW U, IsFiniteSet(U), NEW A \in SUBSET U, NEW B \in SUBSET U, NEW e,
         \A s \in U : s # e => (s \in A <=> s \in B)
  PROVE  /\ Cardinality(A) \in Nat /\ Cardinality(B) \in Nat
         /\ Cardinality(B) = Cardinality(A) + (IF e \in B THEN 1 ELSE 0) - (IF e \in A THEN 1 ELSE 0)
<1>1. IsFiniteSet(A) /\ IsFiniteSet(B) /\ Cardinality(A) \in Nat /\ Cardinality(B) \in Nat
  BY FS_Subset, FS_CardinalityType
<1>2. A \ {e} = B \ {e} OBVIOUS
<1>3. /\ Cardinality(A \ {e}) = IF e \in A THEN Cardinality(A) - 1 ELSE Cardinality(A)
      /\ Cardinality(B \ {e}) = IF e \in B THEN Cardinality(B) - 1 ELSE Cardinality(B)
  BY <1>1, FS_RemoveElement
<1> DEFINE a == Cardinality(A)  b == Cardinality(B)  c == Cardinality(A \ {e})
<1>4. /\ a \in Nat /\ b \in Nat /\ c = (IF e \in A THEN a - 1 ELSE a) /\ c = (IF e \in B THEN b - 1 ELSE b)
  BY <1>1, <1>2, <1>3
<1> HIDE DEF a, b, c
<1>5. b = a + (IF e \in B THEN 1 ELSE 0) - (IF e \in A THEN 1 ELSE 0) BY <1>4
<1> QED BY <1>1, <1>5 DEF a, b

-----------------------------------------------------------------------------
(* What a step leaves alone *)

KeptDent(e, e2) ==
  /\ e = None => e2 = None
  /\ e # None => /\ e2 # None /\ e2.name = e.name /\ e2.lower = e.lower
                 /\ e2.inode = e.inode /\ e2.info = e.info /\ (e2.hashed => e.hashed)
KeptLower(e, e2) == e # None => e2 # None /\ (e.ino # None => e2.ino = e.ino)
KeptUpper(e, e2) == e2.state = e.state /\ e2.lower = e.lower
KeptFile(e, e2) ==
  /\ e = None => e2 = None
  /\ e # None => e2 # None /\ e2.d = e.d /\ e2.lower = e.lower /\ (e.vmops => e2.vmops)
SameJob(j, k) ==
  /\ k.op = j.op /\ k.d = j.d /\ k.old = j.old /\ k.u = j.u /\ k.f = j.f /\ k.saved = j.saved

\* A task that keeps what it works on relies on it as before and holds the same.
LEMMA KeptTask ==
  ASSUME NEW dn, NEW up, NEW ld, NEW fl, NEW dn2, NEW up2, NEW ld2, NEW fl2, NEW q, NEW j, NEW k,
         TaskOK(dn, up, ld, fl, q, j), SameJob(j, k),
         q # "idle" => KeptDent(dn[j.d], dn2[j.d]),
         j.old # None => KeptDent(dn[j.old], dn2[j.old]),
         q # "idle" /\ dn[j.d].lower # None =>
           ld[dn[j.d].lower] # None /\ KeptLower(ld[dn[j.d].lower], ld2[dn[j.d].lower]),
         j.u # None => KeptUpper(up[j.u], up2[j.u]),
         j.f # None => KeptFile(fl[j.f], fl2[j.f])
  PROVE  TaskOK(dn2, up2, ld2, fl2, q, k) /\ \A x : Held(dn2, q, k, x) = Held(dn, q, j, x)
<1>1. Shape(q, j) /\ Shape(q, k) BY DEF TaskOK, Shape, SameJob
<1>2. k.d = j.d /\ k.old = j.old /\ k.u = j.u /\ k.f = j.f /\ k.op = j.op /\ k.saved = j.saved BY DEF SameJob
<1>3. q # "idle" => /\ dn2[j.d] # None /\ dn2[j.d].name = dn[j.d].name /\ dn2[j.d].lower = dn[j.d].lower
                    /\ dn2[j.d].inode = dn[j.d].inode /\ dn2[j.d].info = dn[j.d].info
                    /\ (dn2[j.d].hashed => dn[j.d].hashed)
  BY DEF TaskOK, KeptDent
<1>4. j.old # None => dn2[j.old] # None /\ dn2[j.old].inode = dn[j.old].inode /\ dn2[j.old].lower = dn[j.old].lower
  BY DEF TaskOK, KeptDent
<1>5. q \in {"iget", "grab", "splice"} => ld2[dn[j.d].lower].ino = ld[dn[j.d].lower].ino
  BY DEF TaskOK, KeptLower
<1>6. /\ q = "open" => fl2[j.f] = None
      /\ j.op \in {"write", "mmap"} => fl2[j.f] # None /\ fl2[j.f].d = j.d
      /\ q = "mmap" => fl2[j.f].vmops \/ j.saved
  BY <1>1 DEF TaskOK, KeptFile, Shape, OpAt, PathOps
<1>7. /\ q = "grab" => up2[j.u].state = "new"
      /\ q = "splice" => up2[j.u].lower = up[j.u].lower
  BY <1>1 DEF TaskOK, KeptUpper, Shape
<1>8. TaskOK(dn2, up2, ld2, fl2, q, k)
  BY <1>1, <1>2, <1>3, <1>4, <1>5, <1>6, <1>7 DEF TaskOK, Raw
<1>9. ASSUME NEW x PROVE Held(dn2, q, k, x) = Held(dn, q, j, x)
  <2>1. q = "idle" => Held(dn2, q, k, x) = 0 /\ Held(dn, q, j, x) = 0 BY <1>1, HeldCases DEF Shape
  <2>2. q # "idle" => Held(dn2, q, k, x) = Held(dn, q, j, x)
    BY <1>2, <1>3, <1>4 DEF Held
  <2> QED BY <2>1, <2>2
<1> QED BY <1>8, <1>9

HD(dn, d, x) == IF d \in Dents /\ dn[d] # None /\ dn[d].lower = x THEN 1 ELSE 0
HF(fl, f, x) == IF f \in Files /\ fl[f] # None /\ fl[f].lower = x THEN 1 ELSE 0
HT(dn, p, jb, t, x) == IF t \in Tasks THEN Held(dn, p[t], jb[t], x) ELSE 0

\* When all but task t hold the same, and all but one dentry and one file, the
\* count changes by what these hold.
LEMMA CountMoves ==
  ASSUME NEW dn, NEW fl, NEW p, NEW jb, NEW dn2, NEW fl2, NEW p2, NEW jb2, NEW t, NEW e, NEW g, NEW x,
         \A d \in Dents : d # e => KeptDent(dn[d], dn2[d]),
         \A f \in Files : f # g => KeptFile(fl[f], fl2[f]),
         \A s \in Tasks : OpAt(p[s], jb[s].op) /\ OpAt(p2[s], jb2[s].op),
         \A s \in Tasks : s # t => Held(dn2, p2[s], jb2[s], x) = Held(dn, p[s], jb[s], x)
  PROVE  /\ Count(dn, fl, p, jb, x) \in Nat
         /\ Count(dn2, fl2, p2, jb2, x) = Count(dn, fl, p, jb, x) + HD(dn2, e, x) - HD(dn, e, x)
                + HF(fl2, g, x) - HF(fl, g, x) + HT(dn2, p2, jb2, t, x) - HT(dn, p, jb, t, x)
<1> DEFINE A == DentsOf(dn, x)             A2 == DentsOf(dn2, x)
           B == FilesOf(fl, x)             B2 == FilesOf(fl2, x)
           C == TasksOf(dn, p, jb, x, 1)   C2 == TasksOf(dn2, p2, jb2, x, 1)
           E == TasksOf(dn, p, jb, x, 2)   E2 == TasksOf(dn2, p2, jb2, x, 2)
<1>1. /\ Cardinality(A) \in Nat /\ Cardinality(A2) = Cardinality(A) + HD(dn2, e, x) - HD(dn, e, x)
  <2>1. A \in SUBSET Dents /\ A2 \in SUBSET Dents /\ IsFiniteSet(Dents) BY FiniteAssumption DEF DentsOf
  <2>2. \A d \in Dents : d # e => (d \in A <=> d \in A2) BY DEF DentsOf, KeptDent
  <2>3. HD(dn2, e, x) = (IF e \in A2 THEN 1 ELSE 0) /\ HD(dn, e, x) = (IF e \in A THEN 1 ELSE 0)
    BY DEF DentsOf, HD
  <2> HIDE DEF A, A2
  <2> QED BY <2>1, <2>2, <2>3, CountStep
<1>2. /\ Cardinality(B) \in Nat /\ Cardinality(B2) = Cardinality(B) + HF(fl2, g, x) - HF(fl, g, x)
  <2>1. B \in SUBSET Files /\ B2 \in SUBSET Files /\ IsFiniteSet(Files) BY FiniteAssumption DEF FilesOf
  <2>2. \A f \in Files : f # g => (f \in B <=> f \in B2) BY DEF FilesOf, KeptFile
  <2>3. HF(fl2, g, x) = (IF g \in B2 THEN 1 ELSE 0) /\ HF(fl, g, x) = (IF g \in B THEN 1 ELSE 0)
    BY DEF FilesOf, HF
  <2> HIDE DEF B, B2
  <2> QED BY <2>1, <2>2, <2>3, CountStep
<1>3. \A s \in Tasks : Held(dn, p[s], jb[s], x) \in 0 .. 2 /\ Held(dn2, p2[s], jb2[s], x) \in 0 .. 2
  BY HeldCases
<1>4. /\ Cardinality(C) \in Nat
      /\ Cardinality(C2) = Cardinality(C) + (IF t \in C2 THEN 1 ELSE 0) - (IF t \in C THEN 1 ELSE 0)
  <2>1. C \in SUBSET Tasks /\ C2 \in SUBSET Tasks /\ IsFiniteSet(Tasks) BY FiniteAssumption DEF TasksOf
  <2>2. \A s \in Tasks : s # t => (s \in C <=> s \in C2) BY DEF TasksOf
  <2> HIDE DEF C, C2
  <2> QED BY <2>1, <2>2, CountStep
<1>5. /\ Cardinality(E) \in Nat
      /\ Cardinality(E2) = Cardinality(E) + (IF t \in E2 THEN 1 ELSE 0) - (IF t \in E THEN 1 ELSE 0)
  <2>1. E \in SUBSET Tasks /\ E2 \in SUBSET Tasks /\ IsFiniteSet(Tasks) BY FiniteAssumption DEF TasksOf
  <2>2. \A s \in Tasks : s # t => (s \in E <=> s \in E2) BY DEF TasksOf
  <2> HIDE DEF E, E2
  <2> QED BY <2>1, <2>2, CountStep
<1>6. /\ HT(dn, p, jb, t, x) = (IF t \in C THEN 1 ELSE 0) + (IF t \in E THEN 1 ELSE 0)
      /\ HT(dn2, p2, jb2, t, x) = (IF t \in C2 THEN 1 ELSE 0) + (IF t \in E2 THEN 1 ELSE 0)
  <2> DEFINE h == Held(dn, p[t], jb[t], x)  h2 == Held(dn2, p2[t], jb2[t], x)
  <2>1. CASE t \in Tasks
    <3>1. (t \in C <=> h >= 1) /\ (t \in E <=> h >= 2) /\ (t \in C2 <=> h2 >= 1) /\ (t \in E2 <=> h2 >= 2)
      BY <2>1 DEF TasksOf
    <3>2. HT(dn, p, jb, t, x) = h /\ HT(dn2, p2, jb2, t, x) = h2 /\ h \in 0 .. 2 /\ h2 \in 0 .. 2
      BY <1>3, <2>1 DEF HT
    <3> HIDE DEF h, h2, C, E, C2, E2
    <3> QED BY <3>1, <3>2
  <2>2. CASE t \notin Tasks BY <2>2 DEF TasksOf, HT
  <2> QED BY <2>1, <2>2
<1>7. HD(dn, e, x) \in Int /\ HD(dn2, e, x) \in Int /\ HF(fl, g, x) \in Int /\ HF(fl2, g, x) \in Int
  BY DEF HD, HF
<1>8. /\ Count(dn, fl, p, jb, x) = Cardinality(A) + Cardinality(B) + Cardinality(C) + Cardinality(E)
      /\ Count(dn2, fl2, p2, jb2, x) = Cardinality(A2) + Cardinality(B2) + Cardinality(C2) + Cardinality(E2)
  BY DEF Count
<1> HIDE DEF A, A2, B, B2, C, C2, E, E2
<1> QED BY <1>1, <1>2, <1>4, <1>5, <1>6, <1>7, <1>8

-----------------------------------------------------------------------------
(* A step of task t, or of none, from the present state to one with other   *)
(* values.  Beside what t works on it may change dentry e, which is free or  *)
(* t's own, upper inode v and file g likewise, and lower dentries that no    *)
(* dentry leads to.                                                         *)

MovesDents(t, e, dn, up, ld) ==
  /\ \A d \in Dents : d # e => KeptDent(dent[d], dn[d])
  /\ e \in Dents => \/ KeptDent(dent[e], dn[e])
                    \/ /\ \/ dent[e] = None
                          \/ t \in Tasks /\ pc[t] \in Raw /\ e = job[t].d
                       /\ dn[e] # None => DentOK(dn[e], up, ld)
MovesLowers(ld) ==
  \A x \in LDents : \/ KeptLower(ldent[x], ld[x])
                    \/ \A d \in Dents : dent[d] # None => dent[d].lower # x
MovesUppers(t, v, up) ==
  /\ \A u \in Uppers : u # v => KeptUpper(upper[u], up[u])
  /\ v \in Uppers => \/ KeptUpper(upper[v], up[v])
                     \/ /\ \/ upper[v].state = "free"
                           \/ t \in Tasks /\ pc[t] = "grab" /\ v = job[t].u
                        /\ up[v].state = "live" <=> up[v].lower # None
MovesFiles(t, g, dn, fl) ==
  /\ \A f \in Files : f # g => KeptFile(file[f], fl[f])
  /\ \A f \in Files : fl[f] # None => (fl[f].vmas > 0 => fl[f].vmops)
  /\ g \in Files => \/ KeptFile(file[g], fl[g])
                    \/ /\ t \in Tasks /\ pc[t] = "open" /\ g = job[t].f
                       /\ fl[g] # None => FileOK(fl[g], dn)
                    \/ fl[g] = None /\ \A s \in Tasks : job[s].f # g
MovesTasks(t, dn, up, ld, fl, p, jb) ==
  /\ \A s \in Tasks : s # t => p[s] = pc[s] /\ SameJob(job[s], jb[s])
  /\ t \in Tasks =>
       /\ TaskOK(dn, up, ld, fl, p[t], jb[t])
       /\ p[t] \in Raw => \/ pc[t] \in Raw /\ jb[t].d = job[t].d
                          \/ dent[jb[t].d] = None
       /\ p[t] = "grab" => \/ pc[t] = "grab" /\ jb[t].u = job[t].u
                           \/ upper[jb[t].u].state = "free"
       /\ p[t] = "open" => \A s \in Tasks : s # t => job[s].f # jb[t].f
MovesRefs(t, e, g, dn, rf, fl, p, jb) ==
  \A x \in LDents \cup Names :
    rf[x] = dref[x] + HD(dn, e, x) - HD(dent, e, x) + HF(fl, g, x) - HF(file, g, x)
              + HT(dn, p, jb, t, x) - HT(dent, pc, job, t, x)

Moves(t, e, v, g, dn, up, ld, rf, fl, p, jb) ==
  /\ Types(dn, up, ld, rf, fl, jb) /\ p \in [Tasks -> Places]
  /\ MovesDents(t, e, dn, up, ld) /\ MovesLowers(ld) /\ MovesUppers(t, v, up) /\ MovesFiles(t, g, dn, fl)
  /\ MovesTasks(t, dn, up, ld, fl, p, jb)
  /\ MovesRefs(t, e, g, dn, rf, fl, p, jb)

NowInv == Inv(dent, upper, ldent, dref, file, pc, job)

\* Fields of the objects and jobs.
LEMMA Fields ==
  ASSUME NEW dn, NEW up, NEW ld, NEW rf, NEW fl, NEW jb, Types(dn, up, ld, rf, fl, jb)
  PROVE  /\ \A d \in Dents : dn[d] # None =>
              /\ dn[d] \in DentRecords /\ dn[d].name \in Names /\ dn[d].lower \in LDents \cup {None}
              /\ dn[d].inode \in Uppers \cup {None} /\ dn[d].info \in BOOLEAN /\ dn[d].hashed \in BOOLEAN
         /\ \A u \in Uppers : /\ up[u] \in UpperRecords /\ up[u].state \in {"free", "new", "live"}
                              /\ up[u].lower \in Lowers \cup {None} /\ up[u].size \in Nat
         /\ \A x \in LDents : ld[x] # None =>
              ld[x] \in LDentRecords /\ ld[x].ino \in Lowers \cup {None} /\ ld[x].hashed \in BOOLEAN
         /\ \A f \in Files : fl[f] # None =>
              /\ fl[f] \in FileRecords /\ fl[f].d \in Dents /\ fl[f].lower \in LDents
              /\ fl[f].vmops \in BOOLEAN /\ fl[f].vmas \in Nat
         /\ \A t \in Tasks :
              /\ jb[t] \in JobRecords /\ jb[t].d \in Dents \cup {None} /\ jb[t].old \in Dents \cup {None}
              /\ jb[t].u \in Uppers \cup {None} /\ jb[t].f \in Files \cup {None} /\ jb[t].size \in Nat
              /\ jb[t].saved \in BOOLEAN /\ jb[t].alone \in BOOLEAN
<1>1. \A r \in DentRecords : /\ r.name \in Names /\ r.lower \in LDents \cup {None}
                             /\ r.inode \in Uppers \cup {None} /\ r.info \in BOOLEAN /\ r.hashed \in BOOLEAN
  BY DEF DentRecords
<1>2. \A r \in UpperRecords : r.state \in {"free", "new", "live"} /\ r.lower \in Lowers \cup {None} /\ r.size \in Nat
  BY DEF UpperRecords
<1>3. \A r \in LDentRecords : r.ino \in Lowers \cup {None} /\ r.hashed \in BOOLEAN BY DEF LDentRecords
<1>4. \A r \in FileRecords : r.d \in Dents /\ r.lower \in LDents /\ r.vmops \in BOOLEAN /\ r.vmas \in Nat
  BY DEF FileRecords
<1>5. \A r \in JobRecords : /\ r.d \in Dents \cup {None} /\ r.old \in Dents \cup {None}
                            /\ r.u \in Uppers \cup {None} /\ r.f \in Files \cup {None} /\ r.size \in Nat
                            /\ r.saved \in BOOLEAN /\ r.alone \in BOOLEAN
  BY DEF JobRecords
<1>6. /\ \A d \in Dents : dn[d] # None => dn[d] \in DentRecords
      /\ \A u \in Uppers : up[u] \in UpperRecords
      /\ \A x \in LDents : ld[x] # None => ld[x] \in LDentRecords
      /\ \A f \in Files : fl[f] # None => fl[f] \in FileRecords
      /\ \A t \in Tasks : jb[t] \in JobRecords
  BY DEF Types
<1> QED BY <1>1, <1>2, <1>3, <1>4, <1>5, <1>6

\* What other tasks rely on is left alone by such a step.
LEMMA OthersKept ==
  ASSUME NowInv, NEW t, NEW e, NEW v, NEW g, NEW dn, NEW up, NEW ld, NEW rf, NEW fl, NEW p, NEW jb,
         Moves(t, e, v, g, dn, up, ld, rf, fl, p, jb),
         NEW s \in Tasks, s # t
  PROVE  /\ TaskOK(dn, up, ld, fl, p[s], jb[s])
         /\ \A x : Held(dn, p[s], jb[s], x) = Held(dent, pc[s], job[s], x)
<1> DEFINE j == job[s]
<1>1. Types(dent, upper, ldent, dref, file, job) /\ DentsOK(dent, upper, ldent) /\ UppersOK(upper)
      /\ TaskOK(dent, upper, ldent, file, pc[s], j) /\ Distinct(pc, job)
  BY DEF NowInv, Inv, TasksOK
<1>2. MovesDents(t, e, dn, up, ld) /\ MovesLowers(ld) /\ MovesUppers(t, v, up) /\ MovesFiles(t, g, dn, fl)
      /\ p[s] = pc[s] /\ SameJob(j, jb[s])
  BY DEF Moves, MovesTasks
<1>3. Shape(pc[s], j) BY <1>1 DEF TaskOK
<1>4. /\ pc[s] # "idle" => j.d \in Dents
      /\ j.old # None => j.old \in Dents
      /\ j.u # None => j.u \in Uppers
      /\ j.f # None => j.f \in Files
  BY <1>1, <1>3, Fields DEF Shape
<1>5. t \in Tasks /\ pc[t] \in Raw => dent[job[t].d].inode = None BY DEF NowInv, Inv, TasksOK, TaskOK
<1>6. pc[s] # "idle" => KeptDent(dent[j.d], dn[j.d])
  <2>1. CASE j.d # e BY <1>2, <1>4, <2>1 DEF MovesDents
  <2>2. CASE j.d = e /\ pc[s] # "idle"
    <3>1. dent[e] # None BY <1>1, <2>2 DEF TaskOK
    <3>2. ~(t \in Tasks /\ pc[t] \in Raw /\ e = job[t].d)
      <4>1. pc[s] \in Raw /\ t \in Tasks /\ pc[t] \in Raw => job[t].d # j.d BY <1>1 DEF Distinct
      <4>2. pc[s] \notin Raw => dent[j.d].inode # None BY <1>1, <2>2 DEF TaskOK
      <4> QED BY <1>5, <2>2, <4>1, <4>2
    <3> QED BY <1>2, <1>4, <2>2, <3>1, <3>2 DEF MovesDents
  <2> QED BY <2>1, <2>2
<1>7. j.old # None => KeptDent(dent[j.old], dn[j.old])
  <2>1. j.old # None => dent[j.old] # None /\ dent[j.old].inode # None BY <1>1 DEF TaskOK
  <2> QED BY <1>2, <1>4, <1>5, <2>1 DEF MovesDents
<1>8. pc[s] # "idle" /\ dent[j.d].lower # None =>
        ldent[dent[j.d].lower] # None /\ KeptLower(ldent[dent[j.d].lower], ld[dent[j.d].lower])
  <2> SUFFICES ASSUME pc[s] # "idle", dent[j.d].lower # None
               PROVE  ldent[dent[j.d].lower] # None /\ KeptLower(ldent[dent[j.d].lower], ld[dent[j.d].lower])
    OBVIOUS
  <2>1. dent[j.d] # None BY <1>1 DEF TaskOK
  <2>2. dent[j.d].lower \in LDents /\ ldent[dent[j.d].lower] # None
    BY <1>1, <1>4, <2>1, Fields DEF DentsOK, DentOK
  <2> QED BY <1>2, <1>4, <2>1, <2>2 DEF MovesLowers
<1>9. j.u # None => KeptUpper(upper[j.u], up[j.u])
  <2> SUFFICES ASSUME j.u # None PROVE KeptUpper(upper[j.u], up[j.u]) OBVIOUS
  <2>1. pc[s] \in {"grab", "splice"} BY <1>3 DEF Shape
  <2>2. upper[j.u].state # "free"
    <3>1. CASE pc[s] = "grab" BY <1>1, <3>1 DEF TaskOK
    <3>2. CASE pc[s] = "splice" BY <1>1, <1>4, <3>2 DEF TaskOK, UppersOK
    <3> QED BY <2>1, <3>1, <3>2
  <2>3. ~(t \in Tasks /\ pc[t] = "grab" /\ j.u = job[t].u)
    <3>1. t \in Tasks /\ pc[t] = "grab" => upper[job[t].u].state = "new" BY DEF NowInv, Inv, TasksOK, TaskOK
    <3>2. pc[s] = "splice" => upper[j.u].state = "live" BY <1>1, <1>4 DEF TaskOK, UppersOK
    <3>3. pc[s] = "grab" /\ t \in Tasks /\ pc[t] = "grab" => job[t].u # j.u BY <1>1 DEF Distinct
    <3> QED BY <2>1, <3>1, <3>2, <3>3
  <2> QED BY <1>2, <1>4, <2>2, <2>3 DEF MovesUppers
<1>10. j.f # None => KeptFile(file[j.f], fl[j.f])
  <2>1. t \in Tasks /\ pc[t] = "open" => job[t].f # j.f BY <1>1 DEF Distinct
  <2> QED BY <1>2, <1>4, <2>1 DEF MovesFiles
<1> HIDE DEF j
<1>11. TaskOK(dn, up, ld, fl, pc[s], jb[s]) /\ \A x : Held(dn, pc[s], jb[s], x) = Held(dent, pc[s], j, x)
  BY <1>1, <1>2, <1>6, <1>7, <1>8, <1>9, <1>10, KeptTask
<1> QED BY <1>2, <1>11 DEF j

\* Such a step keeps the invariant.
LEMMA Moved ==
  ASSUME NowInv, NEW t, NEW e, NEW v, NEW g, NEW dn, NEW up, NEW ld, NEW rf, NEW fl, NEW p, NEW jb,
         Moves(t, e, v, g, dn, up, ld, rf, fl, p, jb)
  PROVE  Inv(dn, up, ld, rf, fl, p, jb)
<1>1. /\ Types(dent, upper, ldent, dref, file, job) /\ DentsOK(dent, upper, ldent) /\ UppersOK(upper)
      /\ FilesOK(dent, file) /\ TasksOK(dent, upper, ldent, file, pc, job) /\ Distinct(pc, job)
      /\ Counted(dent, dref, file, pc, job)
  BY DEF NowInv, Inv
<1>2. /\ Types(dn, up, ld, rf, fl, jb) /\ p \in [Tasks -> Places]
      /\ MovesDents(t, e, dn, up, ld) /\ MovesLowers(ld) /\ MovesUppers(t, v, up) /\ MovesFiles(t, g, dn, fl)
      /\ MovesTasks(t, dn, up, ld, fl, p, jb) /\ MovesRefs(t, e, g, dn, rf, fl, p, jb)
  BY DEF Moves
<1>3. \A s \in Tasks : s # t => /\ TaskOK(dn, up, ld, fl, p[s], jb[s])
                                /\ \A x : Held(dn, p[s], jb[s], x) = Held(dent, pc[s], job[s], x)
  BY OthersKept
<1>4. TasksOK(dn, up, ld, fl, p, jb) BY <1>2, <1>3 DEF TasksOK, MovesTasks
<1>5. \A u \in Uppers : upper[u].state = "live" => KeptUpper(upper[u], up[u])
  <2>1. t \in Tasks /\ pc[t] = "grab" => upper[job[t].u].state = "new" BY <1>1 DEF TasksOK, TaskOK
  <2> QED BY <1>2, <2>1 DEF MovesUppers
<1>6. DentsOK(dn, up, ld)
  <2> SUFFICES ASSUME NEW d \in Dents, dn[d] # None PROVE DentOK(dn[d], up, ld) BY DEF DentsOK
  <2>1. CASE KeptDent(dent[d], dn[d])
    <3>1. /\ dent[d] # None /\ dn[d].lower = dent[d].lower /\ dn[d].inode = dent[d].inode
          /\ dn[d].info = dent[d].info /\ (dn[d].hashed => dent[d].hashed)
      BY <2>1 DEF KeptDent
    <3>2. DentOK(dent[d], upper, ldent) BY <1>1, <3>1 DEF DentsOK
    <3>3. dent[d].lower \in LDents \cup {None} /\ dent[d].inode \in Uppers \cup {None} BY <1>1, <3>1, Fields
    <3>4. dn[d].lower # None => /\ dn[d].lower \in LDents /\ ldent[dn[d].lower] # None
                                /\ KeptLower(ldent[dn[d].lower], ld[dn[d].lower])
      BY <1>2, <3>1, <3>2, <3>3 DEF DentOK, MovesLowers
    <3>5. dn[d].inode # None => /\ dn[d].inode \in Uppers /\ upper[dn[d].inode].state = "live"
                                /\ KeptUpper(upper[dn[d].inode], up[dn[d].inode])
                                /\ upper[dn[d].inode].lower # None
      BY <1>1, <1>5, <3>1, <3>2, <3>3 DEF DentOK, UppersOK
    <3> QED BY <3>1, <3>2, <3>4, <3>5 DEF DentOK, KeptLower, KeptUpper
  <2>2. CASE d = e BY <1>2, <2>1, <2>2 DEF MovesDents
  <2> QED BY <1>2, <2>1, <2>2 DEF MovesDents
<1>7. UppersOK(up) BY <1>1, <1>2 DEF UppersOK, MovesUppers, KeptUpper
<1>8. FilesOK(dn, fl)
  <2> SUFFICES ASSUME NEW f \in Files, fl[f] # None PROVE FileOK(fl[f], dn) BY DEF FilesOK
  <2>1. CASE KeptFile(file[f], fl[f])
    <3>1. file[f] # None /\ fl[f].d = file[f].d /\ fl[f].lower = file[f].lower BY <2>1 DEF KeptFile
    <3>2. /\ file[f].d \in Dents /\ dent[file[f].d] # None /\ dent[file[f].d].inode # None
          /\ dent[file[f].d].lower = file[f].lower
      BY <1>1, <3>1, Fields DEF FilesOK, FileOK
    <3>3. t \in Tasks /\ pc[t] \in Raw => dent[job[t].d].inode = None BY <1>1 DEF TasksOK, TaskOK
    <3>4. KeptDent(dent[file[f].d], dn[file[f].d]) BY <1>2, <3>2, <3>3 DEF MovesDents
    <3> QED BY <1>2, <3>1, <3>2, <3>4 DEF FileOK, KeptDent, MovesFiles
  <2>2. CASE f = g BY <1>2, <2>1, <2>2 DEF MovesFiles
  <2> QED BY <1>2, <2>1, <2>2 DEF MovesFiles
<1>9. Distinct(p, jb)
  <2> DEFINE Raws(a, b) == p[a] \in Raw /\ p[b] \in Raw => jb[a].d # jb[b].d
             Grabs(a, b) == p[a] = "grab" /\ p[b] = "grab" => jb[a].u # jb[b].u
             Opens(a, b) == p[a] = "open" => jb[a].f # jb[b].f
  <2>1. ASSUME NEW a \in Tasks, NEW b \in Tasks, a # b, a # t, b # t PROVE Raws(a, b) /\ Grabs(a, b) /\ Opens(a, b)
    <3>1. p[a] = pc[a] /\ p[b] = pc[b] /\ SameJob(job[a], jb[a]) /\ SameJob(job[b], jb[b])
      BY <1>2, <2>1 DEF MovesTasks
    <3> QED BY <1>1, <2>1, <3>1 DEF Distinct, SameJob
  <2>2. ASSUME NEW a \in Tasks, a # t, t \in Tasks PROVE Raws(a, t) /\ Grabs(a, t) /\ Opens(a, t) /\ Opens(t, a)
    <3>1. p[a] = pc[a] /\ SameJob(job[a], jb[a]) BY <1>2, <2>2 DEF MovesTasks
    <3>2. TaskOK(dent, upper, ldent, file, pc[a], job[a]) BY <1>1 DEF TasksOK
    <3>3. Raws(a, t)
      <4>1. p[a] \in Raw => pc[a] # "idle" BY <3>1 DEF Raw
      <4>2. p[a] \in Raw => dent[job[a].d] # None BY <3>2, <4>1 DEF TaskOK
      <4>3. pc[a] \in Raw /\ pc[t] \in Raw => job[a].d # job[t].d BY <1>1, <2>2 DEF Distinct
      <4> QED BY <1>2, <2>2, <3>1, <4>2, <4>3 DEF MovesTasks, SameJob
    <3>4. Grabs(a, t)
      <4>1. pc[a] = "grab" => upper[job[a].u].state = "new" BY <3>2 DEF TaskOK
      <4>2. pc[a] = "grab" /\ pc[t] = "grab" => job[a].u # job[t].u BY <1>1, <2>2 DEF Distinct
      <4> QED BY <1>2, <2>2, <3>1, <4>1, <4>2 DEF MovesTasks, SameJob
    <3>5. Opens(t, a) BY <1>2, <2>2, <3>1 DEF MovesTasks, SameJob
    <3>6. Opens(a, t)
      <4> SUFFICES ASSUME p[a] = "open", jb[a].f = jb[t].f PROVE FALSE OBVIOUS
      <4>1. TaskOK(dn, up, ld, fl, p[a], jb[a]) /\ TaskOK(dn, up, ld, fl, p[t], jb[t]) BY <1>4, <2>2 DEF TasksOK
      <4>2. fl[jb[a].f] = None /\ jb[a].op = "open" BY <4>1 DEF TaskOK, Shape, OpAt
      <4>3. jb[t].f # None /\ jb[t].op \in {"open", "mmap", "write"} BY <4>1, <4>2 DEF TaskOK, Shape
      <4>4. jb[t].op = "open" => p[t] = "open" BY <4>1 DEF TaskOK, Shape, OpAt, PathOps
      <4>5. p[t] # "open" BY <3>1, <2>2, <1>2 DEF MovesTasks, SameJob
      <4> QED BY <4>1, <4>2, <4>3, <4>4, <4>5 DEF TaskOK
    <3> QED BY <3>3, <3>4, <3>5, <3>6
  <2>3. ASSUME NEW a \in Tasks, NEW b \in Tasks, a # b PROVE Raws(a, b) /\ Grabs(a, b) /\ Opens(a, b)
    BY <2>1, <2>2, <2>3
  <2> QED BY <2>3 DEF Distinct
<1>10. Counted(dn, rf, fl, p, jb)
  <2> SUFFICES ASSUME NEW x \in LDents \cup Names PROVE rf[x] = Count(dn, fl, p, jb, x) BY DEF Counted
  <2>1. /\ \A d \in Dents : d # e => KeptDent(dent[d], dn[d])
        /\ \A f \in Files : f # g => KeptFile(file[f], fl[f])
    BY <1>2 DEF MovesDents, MovesFiles
  <2>2. \A s \in Tasks : OpAt(pc[s], job[s].op) /\ OpAt(p[s], jb[s].op)
    BY <1>1, <1>4 DEF TasksOK, TaskOK, Shape
  <2>3. /\ Count(dn, fl, p, jb, x) = Count(dent, file, pc, job, x) + HD(dn, e, x) - HD(dent, e, x)
                + HF(fl, g, x) - HF(file, g, x) + HT(dn, p, jb, t, x) - HT(dent, pc, job, t, x)
    BY <1>3, <2>1, <2>2, CountMoves
  <2> QED BY <1>1, <1>2, <2>3 DEF Counted, MovesRefs
<1> QED BY <1>2, <1>4, <1>6, <1>7, <1>8, <1>9, <1>10 DEF Inv

-----------------------------------------------------------------------------
(* What is not used any more goes *)

\* The dentries that go are used by nobody, the inodes that go neither.
LEMMA DeadUnused ==
  ASSUME NEW dn
  PROVE  /\ \A t \in Tasks : job'[t].d \notin Released(dn) /\ job'[t].old \notin Released(dn)
         /\ \A f \in Files : file'[f] # None => file'[f].d \notin Released(dn)
         /\ \A d \in Released(dn) : d \in Dents /\ dn[d] # None
         /\ \A u \in trfs_evict_inode(dn, Released(dn)) :
              /\ u \in Uppers /\ \A t \in Tasks : job'[t].u # u
              /\ \A d \in Dents \ Released(dn) : dn[d] # None => dn[d].inode # u
<1>1. /\ \A t \in Tasks : job'[t].d \in InUseNext /\ job'[t].old \in InUseNext
      /\ \A f \in Files : file'[f] # None => file'[f].d \in InUseNext
  BY DEF InUseNext
<1>2. \A d \in Released(dn) : d \in Dents /\ dn[d] # None /\ d \notin InUseNext BY DEF Released
<1> HIDE DEF InUseNext
<1> QED BY <1>1, <1>2 DEF trfs_evict_inode

\* The dead dentries that hold x.
DeadOf(dn, dead, x) == {d \in dead : dn[d].lower = x}

\* The references that the dead dentries put are the ones they had.
LEMMA DeadCounted ==
  ASSUME NEW dn, NEW dn2, NEW fl, NEW p, NEW jb, NEW dead \in SUBSET Dents, NEW x,
         \A d \in dead : dn[d] # None,
         \A d \in Dents : dn2[d] = IF d \in dead THEN None ELSE dn[d],
         \A t \in Tasks : OpAt(p[t], jb[t].op),
         \A t \in Tasks : Held(dn2, p[t], jb[t], x) = Held(dn, p[t], jb[t], x)
  PROVE  /\ Cardinality(DeadOf(dn, dead, x)) \in Nat
         /\ Count(dn2, fl, p, jb, x) = Count(dn, fl, p, jb, x) - Cardinality(DeadOf(dn, dead, x))
         /\ Count(dn2, fl, p, jb, x) \in Nat
         /\ \A d \in Dents : dn2[d] # None /\ dn2[d].lower = x => Count(dn2, fl, p, jb, x) > 0
<1> DEFINE A == DentsOf(dn, x)
           A2 == DentsOf(dn2, x)
           gone == DeadOf(dn, dead, x)
           b == Cardinality(FilesOf(fl, x))
           c == Cardinality(TasksOf(dn, p, jb, x, 1))
           k == Cardinality(TasksOf(dn, p, jb, x, 2))
<1>1. IsFiniteSet(A) /\ IsFiniteSet(A2) /\ IsFiniteSet(gone)
  <2>1. A \in SUBSET Dents /\ A2 \in SUBSET Dents /\ gone \in SUBSET Dents BY DEF DentsOf, DeadOf
  <2> QED BY <2>1, FiniteAssumption, FS_Subset
<1>2. A2 = A \ gone /\ A \cap gone = gone BY DEF DentsOf, DeadOf
<1>3. b \in Nat /\ c \in Nat /\ k \in Nat
  <2>1. /\ FilesOf(fl, x) \in SUBSET Files /\ TasksOf(dn, p, jb, x, 1) \in SUBSET Tasks
        /\ TasksOf(dn, p, jb, x, 2) \in SUBSET Tasks
    BY DEF FilesOf, TasksOf
  <2> QED BY <2>1, FiniteAssumption, FS_Subset, FS_CardinalityType
<1>4. TasksOf(dn2, p, jb, x, 1) = TasksOf(dn, p, jb, x, 1) /\ TasksOf(dn2, p, jb, x, 2) = TasksOf(dn, p, jb, x, 2)
  BY DEF TasksOf
<1>5. Count(dn, fl, p, jb, x) = Cardinality(A) + b + c + k /\ Count(dn2, fl, p, jb, x) = Cardinality(A2) + b + c + k
  BY <1>4 DEF Count
<1>6. \A d \in Dents : dn2[d] # None /\ dn2[d].lower = x => A2 # {} BY DEF DentsOf
<1> HIDE DEF A, A2, gone, b, c, k
<1>7. Cardinality(A2) = Cardinality(A) - Cardinality(gone)
  <2>1. Cardinality(A \ gone) = Cardinality(A) - Cardinality(A \cap gone) BY <1>1, FS_Difference
  <2> QED BY <1>2, <2>1
<1>8. Cardinality(A) \in Nat /\ Cardinality(A2) \in Nat /\ Cardinality(gone) \in Nat BY <1>1, FS_CardinalityType
<1>9. A2 # {} => Cardinality(A2) # 0 BY <1>1, FS_EmptySet
<1>10. /\ Cardinality(gone) \in Nat
       /\ Count(dn2, fl, p, jb, x) = Count(dn, fl, p, jb, x) - Cardinality(gone)
       /\ Count(dn2, fl, p, jb, x) \in Nat
       /\ A2 # {} => Count(dn2, fl, p, jb, x) > 0
  BY <1>3, <1>5, <1>7, <1>8, <1>9
<1> QED BY <1>6, <1>10 DEF gone

\* The end of a step keeps the invariant.
LEMMA Settled ==
  ASSUME NEW dn, NEW ld, NEW rf, NEW ct, Settle(dn, ld, rf, ct),
         Inv(dn, upper, ld, rf, file', pc', job')
  PROVE  Inv(dent', upper', ldent', dref', file', pc', job')
<1> DEFINE dead == Released(dn)
           evict == trfs_evict_inode(dn, dead)
           left == [x \in LDents \cup Names |-> rf[x] - Cardinality(DeadOf(dn, dead, x))]
           gone == {x \in LDents : ld[x] # None /\ ~ld[x].hashed /\ left[x] = 0}
<1>1. /\ Types(dn, upper, ld, rf, file', job') /\ DentsOK(dn, upper, ld) /\ UppersOK(upper)
      /\ FilesOK(dn, file') /\ TasksOK(dn, upper, ld, file', pc', job') /\ Distinct(pc', job')
      /\ Counted(dn, rf, file', pc', job') /\ pc' \in [Tasks -> Places]
  BY DEF Inv
<1>2. /\ dent' = [d \in Dents |-> IF d \in dead THEN None ELSE dn[d]]
      /\ upper' = [u \in Uppers |-> IF u \in evict THEN NoUpper ELSE upper[u]]
      /\ dref' = left
      /\ ldent' = [x \in LDents |-> IF x \in gone THEN None ELSE ld[x]]
  BY DEF Settle, DeadOf
<1>3. /\ \A t \in Tasks : job'[t].d \notin dead /\ job'[t].old \notin dead
      /\ \A f \in Files : file'[f] # None => file'[f].d \notin dead
      /\ \A d \in dead : d \in Dents /\ dn[d] # None
      /\ \A u \in evict : /\ u \in Uppers /\ \A t \in Tasks : job'[t].u # u
                          /\ \A d \in Dents \ dead : dn[d] # None => dn[d].inode # u
  BY DeadUnused
<1>4. \A x \in LDents \cup Names : left[x] = rf[x] - Cardinality(DeadOf(dn, dead, x)) OBVIOUS
<1>5. \A x \in gone : left[x] = 0 OBVIOUS
<1> HIDE DEF dead, evict, left, gone
<1>6. \A d \in Dents : dent'[d] # None => d \notin dead /\ dent'[d] = dn[d] BY <1>2
<1>7. ASSUME NEW t \in Tasks
      PROVE  /\ pc'[t] # "idle" => job'[t].d \in Dents /\ dent'[job'[t].d] = dn[job'[t].d]
             /\ job'[t].old # None => job'[t].old \in Dents /\ dent'[job'[t].old] = dn[job'[t].old]
             /\ OpAt(pc'[t], job'[t].op)
  <2>1. Shape(pc'[t], job'[t]) BY <1>1 DEF TasksOK, TaskOK
  <2>2. job'[t].d \in Dents \cup {None} /\ job'[t].old \in Dents \cup {None} BY <1>1, Fields
  <2> QED BY <1>2, <1>3, <2>1, <2>2 DEF Shape
<1>8. ASSUME NEW t \in Tasks, NEW x PROVE Held(dent', pc'[t], job'[t], x) = Held(dn, pc'[t], job'[t], x)
  <2>1. CASE pc'[t] = "idle" BY <1>7, <2>1, HeldCases
  <2>2. CASE pc'[t] # "idle" BY <1>7, <2>2 DEF Held
  <2> QED BY <2>1, <2>2
<1>9. ASSUME NEW x \in LDents \cup Names
      PROVE  /\ left[x] = Count(dent', file', pc', job', x) /\ left[x] \in Int
             /\ \A d \in Dents : dent'[d] # None /\ dent'[d].lower = x => left[x] # 0
  <2>1. dead \in SUBSET Dents BY <1>3
  <2>2. /\ Cardinality(DeadOf(dn, dead, x)) \in Nat
        /\ Count(dent', file', pc', job', x)
             = Count(dn, file', pc', job', x) - Cardinality(DeadOf(dn, dead, x))
        /\ Count(dent', file', pc', job', x) \in Nat
        /\ \A d \in Dents : dent'[d] # None /\ dent'[d].lower = x => Count(dent', file', pc', job', x) > 0
    <3>1. \A d \in dead : dn[d] # None BY <1>3
    <3>2. \A d \in Dents : dent'[d] = IF d \in dead THEN None ELSE dn[d] BY <1>2
    <3>3. \A t \in Tasks : OpAt(pc'[t], job'[t].op) BY <1>7
    <3>4. \A t \in Tasks : Held(dent', pc'[t], job'[t], x) = Held(dn, pc'[t], job'[t], x) BY <1>8
    <3> QED BY <2>1, <3>1, <3>2, <3>3, <3>4, DeadCounted
  <2>3. rf[x] = Count(dn, file', pc', job', x) BY <1>1 DEF Counted
  <2> QED BY <1>4, <2>2, <2>3
<1>10. ASSUME NEW d \in Dents, dent'[d] # None, dent'[d].lower # None
       PROVE  /\ dent'[d].lower \in LDents /\ ld[dent'[d].lower] # None
              /\ ldent'[dent'[d].lower] = ld[dent'[d].lower]
  <2>1. dent'[d] = dn[d] BY <1>6, <1>10
  <2>2. dent'[d].lower \in LDents /\ ld[dent'[d].lower] # None
    BY <1>1, <1>10, <2>1, Fields DEF DentsOK, DentOK
  <2>3. dent'[d].lower \notin gone BY <1>5, <1>9, <1>10, <2>2
  <2> QED BY <1>2, <2>2, <2>3
<1>11. \A d \in Dents : dent'[d] # None /\ dent'[d].inode # None =>
         dent'[d].inode \in Uppers /\ upper'[dent'[d].inode] = upper[dent'[d].inode]
  <2> SUFFICES ASSUME NEW d \in Dents, dent'[d] # None, dent'[d].inode # None
               PROVE  dent'[d].inode \in Uppers /\ upper'[dent'[d].inode] = upper[dent'[d].inode]
    OBVIOUS
  <2>1. dent'[d] = dn[d] /\ d \notin dead BY <1>6
  <2>2. dent'[d].inode \in Uppers BY <1>1, <2>1, Fields
  <2> QED BY <1>2, <1>3, <2>1, <2>2
<1>12. Types(dent', upper', ldent', dref', file', job')
  <2>1. dent' \in [Dents -> {None} \cup DentRecords] BY <1>1, <1>2 DEF Types
  <2>2. upper' \in [Uppers -> UpperRecords] BY <1>1, <1>2 DEF Types, NoUpper, UpperRecords
  <2>3. ldent' \in [LDents -> {None} \cup LDentRecords] BY <1>1, <1>2 DEF Types
  <2>4. dref' \in [LDents \cup Names -> Int] BY <1>2, <1>9 DEF left
  <2> QED BY <1>1, <2>1, <2>2, <2>3, <2>4 DEF Types
<1>13. DentsOK(dent', upper', ldent')
  <2> SUFFICES ASSUME NEW d \in Dents, dent'[d] # None PROVE DentOK(dent'[d], upper', ldent') BY DEF DentsOK
  <2>1. dent'[d] = dn[d] /\ DentOK(dent'[d], upper, ld) BY <1>1, <1>6 DEF DentsOK
  <2> QED BY <1>10, <1>11, <2>1 DEF DentOK
<1>14. UppersOK(upper') BY <1>1, <1>2 DEF UppersOK, NoUpper
<1>15. FilesOK(dent', file')
  <2> SUFFICES ASSUME NEW f \in Files, file'[f] # None PROVE FileOK(file'[f], dent') BY DEF FilesOK
  <2>1. FileOK(file'[f], dn) /\ file'[f].d \in Dents BY <1>1, Fields DEF FilesOK
  <2>2. dent'[file'[f].d] = dn[file'[f].d] BY <1>2, <1>3, <2>1
  <2> QED BY <2>1, <2>2 DEF FileOK
<1>16. TasksOK(dent', upper', ldent', file', pc', job')
  <2> SUFFICES ASSUME NEW t \in Tasks PROVE TaskOK(dent', upper', ldent', file', pc'[t], job'[t]) BY DEF TasksOK
  <2> DEFINE j == job'[t]
  <2>1. TaskOK(dn, upper, ld, file', pc'[t], j) BY <1>1 DEF TasksOK
  <2>2. pc'[t] # "idle" => j.d \in Dents /\ dn[j.d] # None /\ dent'[j.d] = dn[j.d] BY <1>7, <2>1 DEF TaskOK
  <2>3. pc'[t] # "idle" => KeptDent(dn[j.d], dent'[j.d]) BY <2>2 DEF KeptDent
  <2>4. j.old # None => KeptDent(dn[j.old], dent'[j.old]) BY <1>7 DEF KeptDent
  <2>5. pc'[t] # "idle" /\ dn[j.d].lower # None =>
          ld[dn[j.d].lower] # None /\ KeptLower(ld[dn[j.d].lower], ldent'[dn[j.d].lower])
    BY <1>10, <2>2 DEF KeptLower
  <2>6. j.u # None => KeptUpper(upper[j.u], upper'[j.u])
    <3>1. j.u \in Uppers \cup {None} BY <1>1, Fields
    <3> QED BY <1>2, <1>3, <3>1 DEF KeptUpper
  <2>7. j.f # None => KeptFile(file'[j.f], file'[j.f]) BY DEF KeptFile
  <2>8. SameJob(j, j) BY DEF SameJob
  <2> HIDE DEF j
  <2>9. TaskOK(dent', upper', ldent', file', pc'[t], j)
    BY <2>1, <2>3, <2>4, <2>5, <2>6, <2>7, <2>8, KeptTask
  <2> QED BY <2>9 DEF j
<1>17. Counted(dent', dref', file', pc', job') BY <1>2, <1>9 DEF Counted
<1> QED BY <1>1, <1>12, <1>13, <1>14, <1>15, <1>16, <1>17 DEF Inv

-----------------------------------------------------------------------------
(* Steps in which only a task goes on *)

\* A step that changes no dentry and no file.
LEMMA QuietMove ==
  ASSUME NowInv, NEW t \in Tasks, NEW up, NEW rf, NEW p, NEW jb,
         Types(dent, up, ldent, rf, file, jb), p \in [Tasks -> Places],
         \A u \in Uppers : KeptUpper(upper[u], up[u]),
         \A s \in Tasks : s # t => p[s] = pc[s] /\ SameJob(job[s], jb[s]),
         TaskOK(dent, up, ldent, file, p[t], jb[t]),
         p[t] \in Raw => pc[t] \in Raw /\ jb[t].d = job[t].d,
         p[t] = "grab" => pc[t] = "grab" /\ jb[t].u = job[t].u,
         p[t] = "open" => \A s \in Tasks : s # t => job[s].f # jb[t].f,
         \A x \in LDents \cup Names :
           rf[x] = dref[x] + Held(dent, p[t], jb[t], x) - Held(dent, pc[t], job[t], x)
  PROVE  Inv(dent, up, ldent, rf, file, p, jb)
<1>1. None \notin Dents /\ None \notin Uppers /\ None \notin Files BY NoneAssumption
<1>2. MovesDents(t, None, dent, up, ldent) BY <1>1 DEF MovesDents, KeptDent
<1>3. MovesLowers(ldent) BY DEF MovesLowers, KeptLower
<1>4. MovesUppers(t, None, up) BY <1>1 DEF MovesUppers
<1>5. MovesFiles(t, None, dent, file)
  <2>1. \A f \in Files : file[f] # None => (file[f].vmas > 0 => file[f].vmops)
    BY DEF NowInv, Inv, FilesOK, FileOK
  <2> QED BY <1>1, <2>1 DEF MovesFiles, KeptFile
<1>6. MovesTasks(t, dent, up, ldent, file, p, jb) BY DEF MovesTasks
<1>7. MovesRefs(t, None, None, dent, rf, file, p, jb)
  <2> SUFFICES ASSUME NEW x \in LDents \cup Names
               PROVE  rf[x] = dref[x] + HD(dent, None, x) - HD(dent, None, x) + HF(file, None, x)
                        - HF(file, None, x) + HT(dent, p, jb, t, x) - HT(dent, pc, job, t, x)
    BY DEF MovesRefs
  <2>1. HD(dent, None, x) = 0 /\ HF(file, None, x) = 0 BY <1>1 DEF HD, HF
  <2>2. HT(dent, p, jb, t, x) = Held(dent, p[t], jb[t], x) /\ HT(dent, pc, job, t, x) = Held(dent, pc[t], job[t], x)
    BY DEF HT
  <2>3. dref[x] \in Int BY DEF NowInv, Inv, Types
  <2>4. Held(dent, p[t], jb[t], x) \in 0 .. 2 /\ Held(dent, pc[t], job[t], x) \in 0 .. 2
    BY HeldCases DEF TaskOK, Shape, NowInv, Inv, TasksOK
  <2> QED BY <2>1, <2>2, <2>3, <2>4
<1>8. Moves(t, None, None, None, dent, up, ldent, rf, file, p, jb)
  BY <1>2, <1>3, <1>4, <1>5, <1>6, <1>7 DEF Moves
<1> QED BY <1>8, Moved

\* The parts of the invariant, and what an idle task has.
LEMMA Now ==
  ASSUME NowInv
  PROVE  /\ Types(dent, upper, ldent, dref, file, job) /\ pc \in [Tasks -> Places]
         /\ DentsOK(dent, upper, ldent) /\ UppersOK(upper) /\ FilesOK(dent, file) /\ Distinct(pc, job)
         /\ \A t \in Tasks : TaskOK(dent, upper, ldent, file, pc[t], job[t])
         /\ \A t \in Tasks : OpAt(pc[t], job[t].op)
         /\ \A t \in Tasks : pc[t] # "idle" => job[t].d \in Dents /\ dent[job[t].d] # None
         /\ \A t \in Tasks : job[t].old # None => job[t].old \in Dents
         /\ \A t \in Tasks : \A x : pc[t] = "idle" => Held(dent, pc[t], job[t], x) = 0
<1>1. /\ Types(dent, upper, ldent, dref, file, job) /\ pc \in [Tasks -> Places]
      /\ DentsOK(dent, upper, ldent) /\ UppersOK(upper) /\ FilesOK(dent, file) /\ Distinct(pc, job)
      /\ \A t \in Tasks : TaskOK(dent, upper, ldent, file, pc[t], job[t])
  BY DEF NowInv, Inv, TasksOK
<1>2. \A t \in Tasks : OpAt(pc[t], job[t].op) BY <1>1 DEF TaskOK, Shape
<1>3. \A t \in Tasks : pc[t] # "idle" => job[t].d # None /\ dent[job[t].d] # None BY <1>1 DEF TaskOK, Shape
<1>4. \A t \in Tasks : job[t].d \in Dents \cup {None} /\ job[t].old \in Dents \cup {None} BY <1>1, Fields
<1>5. \A t \in Tasks : \A x : pc[t] = "idle" => Held(dent, pc[t], job[t], x) = 0 BY <1>2, HeldCases
<1> QED BY <1>1, <1>2, <1>3, <1>4, <1>5

\* References after Ref.
LEMMA RefFacts ==
  ASSUME NowInv, NEW S, NEW n \in Int
  PROVE  /\ Ref(S, n) \in [LDents \cup Names -> Int]
         /\ \A x \in LDents \cup Names : Ref(S, n)[x] = IF x \in S THEN dref[x] + n ELSE dref[x]
         /\ \A x \in LDents \cup Names : dref[x] \in Int
<1>1. dref \in [LDents \cup Names -> Int] BY DEF NowInv, Inv, Types
<1> QED BY <1>1 DEF Ref

\* A dentry with an inode has a lower dentry, and its inode a lower inode.
LEMMA PositiveFacts ==
  ASSUME NowInv, NEW d \in Dents, dent[d] # None, dent[d].inode # None
  PROVE  /\ dent[d].lower \in LDents /\ dent[d].name \in Names /\ ldent[dent[d].lower] # None
         /\ dent[d].inode \in Uppers /\ upper[dent[d].inode].state = "live"
         /\ upper[dent[d].inode].lower \in Lowers
         /\ ldent[dent[d].lower].ino = upper[dent[d].inode].lower
         /\ dent[d].lower # dent[d].name
<1>1. DentOK(dent[d], upper, ldent) BY Now DEF DentsOK
<1>2. dent[d].lower \in LDents \cup {None} /\ dent[d].name \in Names /\ dent[d].inode \in Uppers
  BY Now, Fields
<1>3. upper[dent[d].inode].lower \in Lowers \cup {None} BY <1>2, Now, Fields
<1>4. upper[dent[d].inode].lower # None BY <1>1, <1>2, Now DEF DentOK, UppersOK
<1> QED BY <1>1, <1>2, <1>3, <1>4, NamesAssumption DEF DentOK

\* An idle task begins an operation that holds the references that rf adds.
LEMMA BeginMove ==
  ASSUME NowInv, NEW t \in Tasks, pc[t] = "idle", NEW up, NEW rf, NEW p, NEW jb,
         Types(dent, up, ldent, rf, file, jb), p \in [Tasks -> Places],
         \A u \in Uppers : KeptUpper(upper[u], up[u]),
         \A s \in Tasks : s # t => p[s] = pc[s] /\ SameJob(job[s], jb[s]),
         TaskOK(dent, up, ldent, file, p[t], jb[t]), p[t] \notin Raw,
         p[t] = "open" => \A s \in Tasks : job[s].f # jb[t].f,
         \A x \in LDents \cup Names : rf[x] = dref[x] + Held(dent, p[t], jb[t], x)
  PROVE  Inv(dent, up, ldent, rf, file, p, jb)
<1>1. \A x \in LDents \cup Names : rf[x] = dref[x] + Held(dent, p[t], jb[t], x) - Held(dent, pc[t], job[t], x)
  <2> TAKE x \in LDents \cup Names
  <2>1. Held(dent, pc[t], job[t], x) = 0 BY Now
  <2>2. Held(dent, p[t], jb[t], x) \in 0 .. 2 BY HeldCases DEF TaskOK, Shape
  <2>3. dref[x] \in Int BY RefFacts
  <2> QED BY <2>1, <2>2, <2>3
<1>2. p[t] \notin Raw /\ p[t] # "grab" BY DEF Raw
<1> QED BY <1>1, <1>2, QuietMove

-----------------------------------------------------------------------------
(* The invariant after each action *)

ThenInv == Inv(dent', upper', ldent', dref', file', pc', job')

\* Task t is at q now, task t has job j now; the others are where they were.
Went(t, q) == pc' \in [Tasks -> Places] /\ pc'[t] = q /\ \A s \in Tasks : s # t => pc'[s] = pc[s]
Gets(t, j) == job' \in [Tasks -> JobRecords] /\ job'[t] = j /\ \A s \in Tasks : s # t => SameJob(job[s], job'[s])

\* The places of tasks.
LEMMA InPlaces ==
  /\ "idle" \in Places /\ "alloc" \in Places /\ "lower" \in Places /\ "negative" \in Places /\ "found" \in Places
  /\ "fail" \in Places /\ "iget" \in Places /\ "grab" \in Places /\ "splice" \in Places /\ "made" \in Places
  /\ "failed" \in Places /\ "linked" \in Places /\ "unlink" \in Places /\ "unlinked" \in Places /\ "path" \in Places
  /\ "open" \in Places /\ "mmap" \in Places /\ "getsize" \in Places /\ "setsize" \in Places /\ "written" \in Places
  /\ "notify" \in Places
BY DEF Places

\* Going on.
LEMMA GotoIs == ASSUME NowInv, NEW t \in Tasks, NEW q \in Places, Goto(t, q) PROVE Went(t, q)
<1>1. pc \in [Tasks -> Places] BY DEF NowInv, Inv
<1> QED BY <1>1 DEF Went, Goto

\* Another job.
LEMMA JobIs ==
  ASSUME NowInv, NEW t \in Tasks, NEW j \in JobRecords, job' = [job EXCEPT ![t] = j] PROVE Gets(t, j)
<1>1. job \in [Tasks -> JobRecords] BY DEF NowInv, Inv, Types
<1> QED BY <1>1 DEF Gets, SameJob

\* The task stays at its job.
LEMMA JobKept == ASSUME NowInv, NEW t \in Tasks, job' = job PROVE Gets(t, job[t])
<1>1. job \in [Tasks -> JobRecords] BY DEF NowInv, Inv, Types
<1> QED BY <1>1 DEF Gets, SameJob

\* The job of an operation that begins.
LEMMA NewJob ==
  ASSUME NEW o \in PathOps \cup {"none", "lookup", "create", "link", "unlink", "open", "mmap", "write"},
         NEW d \in Dents \cup {None}, NEW f \in Files \cup {None}, NEW j,
         j = [op |-> o, d |-> d, old |-> None, u |-> None, f |-> f, saved |-> FALSE, size |-> 0,
              alone |-> FALSE]
  PROVE  /\ j \in JobRecords /\ j.op = o /\ j.d = d /\ j.f = f /\ j.old = None /\ j.u = None
<1> DEFINE Ops == PathOps \cup {"none", "lookup", "create", "link", "unlink", "open", "mmap", "write"}
<1>1. j.op = o /\ j.d = d /\ j.f = f /\ j.old = None /\ j.u = None OBVIOUS
<1>2. JobRecords = [op : Ops, d : Dents \cup {None}, old : Dents \cup {None}, u : Uppers \cup {None},
               f : Files \cup {None}, saved : BOOLEAN, size : Nat, alone : BOOLEAN]
  BY DEF JobRecords
<1>3. o \in Ops OBVIOUS
<1> HIDE DEF Ops
<1>4. j \in JobRecords BY <1>2, <1>3
<1> QED BY <1>1, <1>4

\* What a task relies on that begins an operation on dentry d.
LEMMA BeginTask ==
  ASSUME NowInv, NEW d \in Dents, dent[d] # None, dent[d].inode # None, NEW up, NEW q, NEW j,
         q \in {"unlink", "path", "open", "mmap", "getsize", "written", "notify"},
         OpAt(q, j.op), j.d = d, j.old = None, j.u = None,
         j.f = None <=> j.op \notin {"open", "mmap", "write"},
         q = "open" => file[j.f] = None,
         j.op \in {"mmap", "write"} => file[j.f] # None /\ file[j.f].d = d,
         q = "mmap" => file[j.f].vmops \/ j.saved
  PROVE  TaskOK(dent, up, ldent, file, q, j) /\ q \notin Raw
<1>1. None \notin Dents BY NoneAssumption
<1>2. Shape(q, j) BY <1>1 DEF Shape, OpAt, PathOps
<1> QED BY <1>2 DEF TaskOK, Raw

\* An operation begins.
LEMMA BeginIs ==
  ASSUME NowInv, NEW t \in Tasks, NEW q \in Places, NEW j \in JobRecords, Begin(t, j, q)
  PROVE  pc[t] = "idle" /\ Went(t, q) /\ Gets(t, j) /\ file' = file
BY GotoIs, JobIs DEF Begin

\* A task that has returned.
LEMMA Idle ==
  /\ NoJob \in JobRecords
  /\ \A dn, up, ld, fl, x : TaskOK(dn, up, ld, fl, "idle", NoJob) /\ Held(dn, "idle", NoJob, x) = 0
<1>1. /\ NoJob.op = "none" /\ NoJob.d = None /\ NoJob.old = None /\ NoJob.u = None /\ NoJob.f = None
  BY DEF NoJob
<1>2. NoJob \in JobRecords BY DEF NoJob, JobRecords
<1>3. Shape("idle", NoJob) BY <1>1 DEF Shape, OpAt
<1>4. \A dn, up, ld, fl, x : TaskOK(dn, up, ld, fl, "idle", NoJob) BY <1>1, <1>3 DEF TaskOK, Raw
<1>5. \A dn, x : Held(dn, "idle", NoJob, x) = 0 BY <1>1 DEF Held
<1> QED BY <1>2, <1>4, <1>5

\* An operation ends: what it held is put.
LEMMA FinishMove ==
  ASSUME NowInv, NEW t \in Tasks, Finish(t), UNCHANGED file, NEW rf, rf \in [LDents \cup Names -> Int],
         \A x \in LDents \cup Names : rf[x] = dref[x] - Held(dent, pc[t], job[t], x)
  PROVE  Inv(dent, upper, ldent, rf, file', pc', job')
<1>1. Went(t, "idle") BY InPlaces, GotoIs DEF Finish
<1>2. Gets(t, NoJob) BY Idle, JobIs DEF Finish
<1>3. TaskOK(dent, upper, ldent, file, pc'[t], job'[t]) BY <1>1, <1>2, Idle DEF Went, Gets
<1>4. \A x \in LDents \cup Names :
        rf[x] = dref[x] + Held(dent, pc'[t], job'[t], x) - Held(dent, pc[t], job[t], x)
  <2> TAKE x \in LDents \cup Names
  <2>1. Held(dent, pc'[t], job'[t], x) = 0 BY <1>1, <1>2, Idle DEF Went, Gets
  <2>2. Held(dent, pc[t], job[t], x) \in 0 .. 2 BY Now, HeldCases
  <2>3. dref[x] \in Int BY RefFacts
  <2> QED BY <2>1, <2>2, <2>3
<1>5. Types(dent, upper, ldent, rf, file, job') BY <1>2, Now DEF Types, Gets
<1>6. pc'[t] \notin Raw /\ pc'[t] # "grab" /\ pc'[t] # "open" BY <1>1 DEF Went, Raw
<1>7. \A u \in Uppers : KeptUpper(upper[u], upper[u]) BY DEF KeptUpper
<1>8. /\ pc' \in [Tasks -> Places]
      /\ \A s \in Tasks : s # t => pc'[s] = pc[s] /\ SameJob(job[s], job'[s])
  BY <1>1, <1>2 DEF Went, Gets
<1>9. Inv(dent, upper, ldent, rf, file, pc', job')
  BY <1>3, <1>4, <1>5, <1>6, <1>7, <1>8, QuietMove
<1> QED BY <1>9

\* No task works on file f.
NoTask(f) == \A s \in Tasks : job[s].f # f

\* An operation begins that changes no object, but for sizes.
LEMMA Begun ==
  ASSUME NowInv, NEW t \in Tasks, NEW q, NEW j, pc[t] = "idle", Went(t, q), Gets(t, j), NEW up, NEW rf,
         up \in [Uppers -> UpperRecords], \A u \in Uppers : KeptUpper(upper[u], up[u]),
         TaskOK(dent, up, ldent, file, q, j), q \notin Raw,
         q = "open" => NoTask(j.f),
         rf \in [LDents \cup Names -> Int],
         \A x \in LDents \cup Names : rf[x] = dref[x] + Held(dent, q, j, x)
  PROVE  Inv(dent, up, ldent, rf, file, pc', job')
<1>1. pc'[t] = q /\ job'[t] = j BY DEF Went, Gets
<1>2. Types(dent, up, ldent, rf, file, job') BY Now DEF Types, Gets
<1>3. /\ pc' \in [Tasks -> Places]
      /\ \A s \in Tasks : s # t => pc'[s] = pc[s] /\ SameJob(job[s], job'[s])
  BY DEF Went, Gets
<1>4. TaskOK(dent, up, ldent, file, pc'[t], job'[t]) /\ pc'[t] \notin Raw BY <1>1
<1>5. \A x \in LDents \cup Names : rf[x] = dref[x] + Held(dent, pc'[t], job'[t], x) BY <1>1
<1>6. pc'[t] = "open" => \A s \in Tasks : job[s].f # job'[t].f BY <1>1 DEF NoTask
<1> QED BY <1>2, <1>3, <1>4, <1>5, <1>6, BeginMove

\* The operations that hold the lower path for a while.
LEMMA PathCalls ==
  ASSUME NowInv, NEW t \in Tasks, NEW o \in PathOps, NEW d \in Dents, dent[d] # None, dent[d].inode # None,
         trfs_get_lower_path(t, o, d)
  PROVE  ThenInv
<1>1. PICK j : j = [NoJob EXCEPT !.op = o, !.d = d] OBVIOUS
<1>2. /\ Begin(t, j, "path") /\ dref' = Ref({dent[d].lower}, 1)
      /\ dent' = dent /\ upper' = upper /\ ldent' = ldent
  BY <1>1 DEF trfs_get_lower_path
<1>3. j \in JobRecords /\ j.op = o /\ j.d = d /\ j.f = None /\ j.old = None /\ j.u = None
  <2>1. j = [op |-> o, d |-> d, old |-> None, u |-> None, f |-> None, saved |-> FALSE, size |-> 0,
             alone |-> FALSE]
    BY <1>1 DEF NoJob
  <2> QED BY <2>1, NewJob
<1>4. pc[t] = "idle" /\ Went(t, "path") /\ Gets(t, j) /\ file' = file BY <1>2, <1>3, InPlaces, BeginIs
<1>5. OpAt("path", j.op) BY <1>3 DEF OpAt
<1>6. TaskOK(dent, upper, ldent, file, "path", j) /\ "path" \notin Raw
  BY <1>3, <1>5, BeginTask DEF PathOps
<1>7. dref' \in [LDents \cup Names -> Int]
      /\ \A x \in LDents \cup Names : dref'[x] = dref[x] + IF x = dent[d].lower THEN 1 ELSE 0
  BY <1>2, Now DEF Types, Ref
<1>8. \A x \in LDents \cup Names : dref'[x] = dref[x] + Held(dent, "path", j, x)
  BY <1>3, <1>5, <1>7, HeldCases
<1>9. Inv(dent, upper, ldent, dref', file, pc', job')
  <2>1. upper \in [Uppers -> UpperRecords] BY Now DEF Types
  <2>2. \A u \in Uppers : KeptUpper(upper[u], upper[u]) BY DEF KeptUpper
  <2> QED BY <1>4, <1>6, <1>7, <1>8, <2>1, <2>2, Begun
<1> QED BY <1>2, <1>4, <1>9 DEF ThenInv

\* An operation ends, and what is not used any more goes.
LEMMA FinishStep ==
  ASSUME NowInv, NEW t \in Tasks, Finish(t), UNCHANGED file, NEW rf, rf \in [LDents \cup Names -> Int],
         \A x \in LDents \cup Names : rf[x] = dref[x] - Held(dent, pc[t], job[t], x),
         Settle(dent, ldent, rf, iref)
  PROVE  ThenInv
<1>1. Inv(dent, upper, ldent, rf, file', pc', job') BY FinishMove
<1> QED BY <1>1, Settled DEF ThenInv

\* What a task works on.
LEMMA TaskFacts ==
  ASSUME NowInv, NEW t \in Tasks, pc[t] # "idle"
  PROVE  /\ TaskOK(dent, upper, ldent, file, pc[t], job[t]) /\ OpAt(pc[t], job[t].op) /\ Shape(pc[t], job[t])
         /\ D(t) = job[t].d /\ NameOf(t) = dent[job[t].d].name /\ LowerOf(t) = dent[job[t].d].lower
         /\ job[t].d \in Dents /\ dent[job[t].d] # None /\ dent[job[t].d] \in DentRecords
         /\ dent[job[t].d].name \in Names /\ dent[job[t].d].lower \in LDents \cup {None}
         /\ dent[job[t].d].lower # dent[job[t].d].name
         /\ DentOK(dent[job[t].d], upper, ldent)
         /\ job[t] \in JobRecords
<1>1. /\ TaskOK(dent, upper, ldent, file, pc[t], job[t]) /\ OpAt(pc[t], job[t].op)
      /\ job[t].d \in Dents /\ dent[job[t].d] # None
  BY Now
<1>2. Shape(pc[t], job[t]) BY <1>1 DEF TaskOK
<1>3. /\ dent[job[t].d] \in DentRecords /\ dent[job[t].d].name \in Names /\ dent[job[t].d].lower \in LDents \cup {None}
      /\ job[t] \in JobRecords
  BY <1>1, Now, Fields
<1>4. dent[job[t].d].lower # dent[job[t].d].name BY <1>3, NamesAssumption, NoneAssumption
<1>5. DentOK(dent[job[t].d], upper, ldent) BY <1>1, Now DEF DentsOK
<1> QED BY <1>1, <1>2, <1>3, <1>4, <1>5 DEF D, NameOf, LowerOf

\* The step in which trfs_lookup returns and its task becomes idle.
LEMMA LookupReturns == ASSUME NowInv, NEW t \in Tasks, LookupReturn(t) PROVE ThenInv
<1>1. pc[t] # "idle" /\ Finish(t) /\ UNCHANGED file BY DEF LookupReturn
<1>2. job[t].op = "lookup" /\ OpAt(pc[t], job[t].op) /\ NameOf(t) = dent[job[t].d].name
  BY <1>1, TaskFacts DEF LookupReturn, OpAt
<1>3. PICK rf : rf = Ref({NameOf(t)}, -1) OBVIOUS
<1>4. /\ rf \in [LDents \cup Names -> Int]
      /\ \A x \in LDents \cup Names : dref[x] \in Int /\ rf[x] = dref[x] - IF x = NameOf(t) THEN 1 ELSE 0
  BY <1>3, Now DEF Types, Ref
<1>5. \A x \in LDents \cup Names : rf[x] = dref[x] - Held(dent, pc[t], job[t], x)
  BY <1>2, <1>4, HeldCases
<1>6. Settle(dent, ldent, rf, iref) BY <1>3 DEF LookupReturn
<1> QED BY <1>1, <1>4, <1>5, <1>6, FinishStep

\* The step in which trfs_create or trfs_link returns.
LEMMA CreateReturns == ASSUME NowInv, NEW t \in Tasks, CreateReturn(t) PROVE ThenInv
<1> DEFINE old == job[t].old
           S == {NameOf(t), LowerOf(t)} \cup (IF old = None THEN {} ELSE {dent[old].lower})
<1>1. pc[t] # "idle" /\ Finish(t) /\ UNCHANGED file BY DEF CreateReturn
<1>2. /\ job[t].op \in {"create", "link"} /\ OpAt(pc[t], job[t].op)
      /\ NameOf(t) = dent[job[t].d].name /\ LowerOf(t) = dent[job[t].d].lower
  BY <1>1, TaskFacts DEF CreateReturn, OpAt
<1>3. PICK rf : rf = Ref(S, -1) OBVIOUS
<1>4. /\ rf \in [LDents \cup Names -> Int]
      /\ \A x \in LDents \cup Names : dref[x] \in Int /\ rf[x] = dref[x] - IF x \in S THEN 1 ELSE 0
  <2> HIDE DEF S
  <2> QED BY <1>3, Now DEF Types, Ref
<1>5. \A x : x \in S <=> \/ x = dent[job[t].d].lower \/ x = dent[job[t].d].name
                         \/ job[t].old # None /\ x = dent[job[t].old].lower
  BY <1>2
<1>6. Settle(dent, ldent, rf, iref) BY <1>3 DEF CreateReturn
<1> HIDE DEF S
<1>7. \A x \in LDents \cup Names : rf[x] = dref[x] - Held(dent, pc[t], job[t], x)
  BY <1>2, <1>4, <1>5, HeldCases
<1> QED BY <1>1, <1>4, <1>6, <1>7, FinishStep

\* The step in which trfs_unlink puts what it holds and returns.
LEMMA UnlinkReturns == ASSUME NowInv, NEW t \in Tasks, UnlinkReturn(t) PROVE ThenInv
<1> DEFINE l == dent[job[t].d].lower  n == dent[job[t].d].name
<1>1. pc[t] = "unlinked" /\ Finish(t) /\ UNCHANGED file BY DEF UnlinkReturn
<1>2. OpAt(pc[t], job[t].op) /\ NameOf(t) = n /\ LowerOf(t) = l /\ n \in Names /\ l # n
  BY <1>1, TaskFacts
<1>3. PICK rf : rf = [Ref({l}, -2) EXCEPT ![n] = @ - 1] OBVIOUS
<1>4. Settle(dent, ldent, rf, iref) BY <1>2, <1>3 DEF UnlinkReturn
<1>5. \A x : Held(dent, pc[t], job[t], x) = IF x = l THEN 2 ELSE IF x = n THEN 1 ELSE 0
  BY <1>1, <1>2, HeldCases
<1> HIDE DEF l, n
<1>6. /\ rf \in [LDents \cup Names -> Int]
      /\ \A x \in LDents \cup Names :
           dref[x] \in Int /\ rf[x] = dref[x] - IF x = l THEN 2 ELSE IF x = n THEN 1 ELSE 0
  BY <1>2, <1>3, Now DEF Types, Ref
<1>7. \A x \in LDents \cup Names : rf[x] = dref[x] - Held(dent, pc[t], job[t], x) BY <1>5, <1>6
<1> QED BY <1>1, <1>4, <1>6, <1>7, FinishStep

\* The step in which an operation on a lower path puts that path and returns.
LEMMA PathReturns == ASSUME NowInv, NEW t \in Tasks, trfs_put_lower_path(t) PROVE ThenInv
<1>1. pc[t] = "path" /\ Finish(t) /\ UNCHANGED file BY DEF trfs_put_lower_path
<1>2. OpAt(pc[t], job[t].op) /\ LowerOf(t) = dent[job[t].d].lower BY <1>1, TaskFacts
<1>3. PICK rf : rf = Ref({LowerOf(t)}, -1) OBVIOUS
<1>4. /\ rf \in [LDents \cup Names -> Int]
      /\ \A x \in LDents \cup Names : dref[x] \in Int /\ rf[x] = dref[x] - IF x = LowerOf(t) THEN 1 ELSE 0
  BY <1>3, Now DEF Types, Ref
<1>5. \A x \in LDents \cup Names : rf[x] = dref[x] - Held(dent, pc[t], job[t], x)
  BY <1>1, <1>2, <1>4, HeldCases
<1>6. Settle(dent, ldent, rf, iref) BY <1>3 DEF trfs_put_lower_path
<1> QED BY <1>1, <1>4, <1>5, <1>6, FinishStep

\* The step in which trfs_write returns.
LEMMA WriteReturns == ASSUME NowInv, NEW t \in Tasks, WriteReturn(t) PROVE ThenInv
<1>1. pc[t] = "written" /\ Finish(t) /\ UNCHANGED file /\ Settle(dent, ldent, dref, iref) BY DEF WriteReturn
<1>2. OpAt(pc[t], job[t].op) BY <1>1, TaskFacts
<1>3. dref \in [LDents \cup Names -> Int] BY Now DEF Types
<1>4. \A x \in LDents \cup Names : dref[x] = dref[x] - Held(dent, pc[t], job[t], x)
  BY <1>1, <1>2, <1>3, HeldCases
<1> QED BY <1>1, <1>3, <1>4, FinishStep

\* trfs_unlink takes the lower path of its dentry and its own reference.
LEMMA BeginUnlink == ASSUME NowInv, NEW t \in Tasks, trfs_unlink(t) PROVE ThenInv
<1>1. PICK d \in Dents : /\ Found(d)
                         /\ Begin(t, [NoJob EXCEPT !.op = "unlink", !.d = d], "unlink")
                         /\ dref' = [Ref({dent[d].lower}, 2) EXCEPT ![dent[d].name] = @ + 1]
                         /\ dent' = dent /\ upper' = upper /\ ldent' = ldent
  BY DEF trfs_unlink
<1> DEFINE l == dent[d].lower  n == dent[d].name
<1>2. dent[d] # None /\ dent[d].inode # None BY <1>1 DEF Found, Positive
<1>3. PICK j : j = [NoJob EXCEPT !.op = "unlink", !.d = d] OBVIOUS
<1>4. j \in JobRecords /\ j.op = "unlink" /\ j.d = d /\ j.f = None /\ j.old = None /\ j.u = None
  <2>1. j = [op |-> "unlink", d |-> d, old |-> None, u |-> None, f |-> None, saved |-> FALSE, size |-> 0,
             alone |-> FALSE]
    BY <1>3 DEF NoJob
  <2> QED BY <2>1, NewJob
<1>5. pc[t] = "idle" /\ Went(t, "unlink") /\ Gets(t, j) /\ file' = file BY <1>1, <1>3, <1>4, InPlaces, BeginIs
<1>6. OpAt("unlink", j.op) BY <1>4 DEF OpAt
<1>7. TaskOK(dent, upper, ldent, file, "unlink", j) /\ "unlink" \notin Raw BY <1>2, <1>4, <1>6, BeginTask
<1>8. \A x : Held(dent, "unlink", j, x) = IF x = l THEN 2 ELSE IF x = n THEN 1 ELSE 0
  BY <1>4, <1>6, HeldCases
<1>9. n \in Names /\ l # n BY <1>2, PositiveFacts
<1>10. dref' = [Ref({l}, 2) EXCEPT ![n] = @ + 1] BY <1>1
<1> HIDE DEF l, n
<1>11. dref' \in [LDents \cup Names -> Int]
      /\ \A x \in LDents \cup Names :
           dref[x] \in Int /\ dref'[x] = dref[x] + IF x = l THEN 2 ELSE IF x = n THEN 1 ELSE 0
  BY <1>9, <1>10, Now DEF Types, Ref
<1>12. \A x \in LDents \cup Names : dref'[x] = dref[x] + Held(dent, "unlink", j, x) BY <1>8, <1>11
<1>13. Inv(dent, upper, ldent, dref', file, pc', job')
  <2>1. upper \in [Uppers -> UpperRecords] BY Now DEF Types
  <2>2. \A u \in Uppers : KeptUpper(upper[u], upper[u]) BY DEF KeptUpper
  <2> QED BY <1>5, <1>7, <1>11, <1>12, <2>1, <2>2, Begun
<1> QED BY <1>1, <1>5, <1>13 DEF ThenInv

\* A dentry that a call reaches has an inode.
LEMMA ReachedIs ==
  ASSUME NowInv, NEW d \in Dents, Reached(d)
  PROVE  dent[d] # None /\ dent[d].inode # None
<1>1. CASE Found(d) BY <1>1 DEF Found, Positive
<1>2. ASSUME NEW f \in Files, file[f] # None, file[f].d = d PROVE dent[d] # None /\ dent[d].inode # None
  BY <1>2, Now, Fields DEF FilesOK, FileOK
<1> QED BY <1>1, <1>2 DEF Reached

\* A walk is one way to reach a dentry.
LEMMA Revalidates == ASSUME NEW t, trfs_d_revalidate(t) PROVE PathCall(t, "d_revalidate")
BY DEF trfs_d_revalidate, PathCall, Reached

\* Every operation that only holds a lower path takes it.
LEMMA BeginPath ==
  ASSUME NowInv, NEW t \in Tasks,
         \/ trfs_d_revalidate(t) \/ trfs_statfs(t) \/ trfs_getattr(t) \/ trfs_setattr(t)
         \/ trfs_setxattr(t) \/ trfs_readlink(t) \/ trfs_fsync(t)
  PROVE  ThenInv
<1>1. ASSUME NEW o \in PathOps, PathCall(t, o) PROVE ThenInv
  <2>1. PICK d \in Dents : Reached(d) /\ trfs_get_lower_path(t, o, d) BY <1>1 DEF PathCall
  <2>2. dent[d] # None /\ dent[d].inode # None BY <2>1, ReachedIs
  <2> QED BY <2>1, <2>2, PathCalls
<1>2. ASSUME trfs_fsync(t) PROVE ThenInv
  <2>1. PICK f \in Files : file[f] # None /\ trfs_get_lower_path(t, "fsync", file[f].d)
    BY <1>2 DEF trfs_fsync
  <2>2. file[f].d \in Dents /\ dent[file[f].d] # None /\ dent[file[f].d].inode # None
    BY <2>1, Now, Fields DEF FilesOK, FileOK
  <2>3. "fsync" \in PathOps BY DEF PathOps
  <2> QED BY <2>1, <2>2, <2>3, PathCalls
<1>3. /\ "d_revalidate" \in PathOps /\ "statfs" \in PathOps /\ "getattr" \in PathOps /\ "setattr" \in PathOps
      /\ "xattr" \in PathOps /\ "readlink" \in PathOps
  BY DEF PathOps
<1> QED BY <1>1, <1>2, <1>3, Revalidates DEF trfs_statfs, trfs_getattr, trfs_setattr, trfs_setxattr, trfs_readlink

\* trfs_open takes the lower path and gives it to the open file.
LEMMA BeginOpen == ASSUME NowInv, NEW t \in Tasks, trfs_open(t) PROVE ThenInv
<1>1. PICK d \in Dents, f \in Files :
        /\ Found(d) /\ file[f] = None
        /\ \A s \in Tasks : job[s].f # f
        /\ Begin(t, [NoJob EXCEPT !.op = "open", !.d = d, !.f = f], "open")
        /\ dref' = Ref({dent[d].lower}, 1)
        /\ dent' = dent /\ upper' = upper /\ ldent' = ldent
  BY DEF trfs_open
<1>2. dent[d] # None /\ dent[d].inode # None BY <1>1 DEF Found, Positive
<1>3. PICK j : j = [NoJob EXCEPT !.op = "open", !.d = d, !.f = f] OBVIOUS
<1>4. j \in JobRecords /\ j.op = "open" /\ j.d = d /\ j.f = f /\ j.old = None /\ j.u = None
  <2>1. j = [op |-> "open", d |-> d, old |-> None, u |-> None, f |-> f, saved |-> FALSE, size |-> 0,
             alone |-> FALSE]
    BY <1>3 DEF NoJob
  <2> QED BY <2>1, NewJob
<1>5. pc[t] = "idle" /\ Went(t, "open") /\ Gets(t, j) /\ file' = file BY <1>1, <1>3, <1>4, InPlaces, BeginIs
<1>6. OpAt("open", j.op) /\ j.f # None BY <1>4, NoneAssumption DEF OpAt
<1>7. TaskOK(dent, upper, ldent, file, "open", j) /\ "open" \notin Raw
  BY <1>1, <1>2, <1>4, <1>6, BeginTask
<1>8. dref' \in [LDents \cup Names -> Int]
      /\ \A x \in LDents \cup Names : dref'[x] = dref[x] + IF x = dent[d].lower THEN 1 ELSE 0
  BY <1>1, Now DEF Types, Ref
<1>9. \A x \in LDents \cup Names : dref'[x] = dref[x] + Held(dent, "open", j, x)
  BY <1>4, <1>6, <1>8, HeldCases
<1>10. Inv(dent, upper, ldent, dref', file, pc', job')
  <2>1. upper \in [Uppers -> UpperRecords] BY Now DEF Types
  <2>2. \A u \in Uppers : KeptUpper(upper[u], upper[u]) BY DEF KeptUpper
  <2>3. NoTask(j.f) BY <1>1, <1>4 DEF NoTask
  <2>4. dref' \in [LDents \cup Names -> Int] BY <1>8
  <2>5. pc[t] = "idle" /\ Went(t, "open") /\ Gets(t, j) BY <1>5
  <2> QED BY <1>7, <1>9, <2>1, <2>2, <2>3, <2>4, <2>5, Begun
<1> QED BY <1>1, <1>5, <1>10 DEF ThenInv

\* The bits of a job.
LEMMA JobBits ==
  ASSUME NEW j \in JobRecords, NEW b \in BOOLEAN
  PROVE  /\ [j EXCEPT !.saved = b] \in JobRecords /\ [j EXCEPT !.alone = b] \in JobRecords
         /\ SameJob(j, [j EXCEPT !.alone = b])
         /\ [j EXCEPT !.saved = b].saved = b
<1>1. [j EXCEPT !.saved = b] \in JobRecords /\ [j EXCEPT !.saved = b].saved = b BY DEF JobRecords
<1>2. [j EXCEPT !.alone = b] \in JobRecords BY DEF JobRecords
<1>3. SameJob(j, [j EXCEPT !.alone = b]) BY DEF JobRecords, SameJob
<1> QED BY <1>1, <1>2, <1>3

\* What an open file has.
LEMMA FileFacts ==
  ASSUME NowInv, NEW f \in Files, file[f] # None
  PROVE  /\ file[f].d \in Dents /\ dent[file[f].d] # None /\ dent[file[f].d].inode # None
         /\ dent[file[f].d].lower = file[f].lower /\ file[f].lower \in LDents
         /\ file[f].vmops \in BOOLEAN /\ file[f].vmas \in Nat /\ (file[f].vmas > 0 => file[f].vmops)
         /\ f # None
BY Now, Fields, NoneAssumption DEF FilesOK, FileOK

\* trfs_mmap takes nothing: it works on an open file.
LEMMA BeginMmap == ASSUME NowInv, NEW t \in Tasks, trfs_mmap(t) PROVE ThenInv
<1>1. PICK f \in Files :
        /\ file[f] # None
        /\ Begin(t, [NoJob EXCEPT !.op = "mmap", !.d = file[f].d, !.f = f, !.saved = ~file[f].vmops], "mmap")
        /\ dent' = dent /\ upper' = upper /\ ldent' = ldent /\ dref' = dref
  BY DEF trfs_mmap
<1> DEFINE d == file[f].d
<1>2. d \in Dents /\ dent[d] # None /\ dent[d].inode # None /\ f # None /\ file[f].vmops \in BOOLEAN
  BY <1>1, FileFacts
<1>3. PICK j : j = [NoJob EXCEPT !.op = "mmap", !.d = file[f].d, !.f = f, !.saved = ~file[f].vmops] OBVIOUS
<1>4. /\ j \in JobRecords /\ j.op = "mmap" /\ j.d = d /\ j.f = f /\ j.old = None /\ j.u = None
      /\ file[f].vmops \/ j.saved
  <2>1. PICK b \in BOOLEAN : b = ~file[f].vmops OBVIOUS
  <2>2. j = [NoJob EXCEPT !.op = "mmap", !.d = file[f].d, !.f = f, !.saved = b] BY <1>3, <2>1, Zenon
  <2>3. j = [op |-> "mmap", d |-> d, old |-> None, u |-> None, f |-> f, saved |-> b, size |-> 0,
             alone |-> FALSE]
    BY <2>2 DEF NoJob
  <2>4. j.op = "mmap" /\ j.d = d /\ j.f = f /\ j.old = None /\ j.u = None /\ j.saved = b BY <2>3
  <2>5. j \in JobRecords BY <1>2, <2>3 DEF JobRecords
  <2> QED BY <1>2, <2>1, <2>4, <2>5
<1> HIDE DEF d
<1>5. pc[t] = "idle" /\ Went(t, "mmap") /\ Gets(t, j) /\ file' = file BY <1>1, <1>3, <1>4, InPlaces, BeginIs
<1>6. OpAt("mmap", j.op) BY <1>4 DEF OpAt
<1>7. TaskOK(dent, upper, ldent, file, "mmap", j) /\ "mmap" \notin Raw
  <2>1. file[j.f] # None /\ file[j.f].d = d /\ (file[j.f].vmops \/ j.saved) BY <1>1, <1>4 DEF d
  <2> QED BY <1>2, <1>4, <1>6, <2>1, BeginTask
<1>8. dref' \in [LDents \cup Names -> Int] BY <1>1, Now DEF Types
<1>9. \A x \in LDents \cup Names : dref'[x] = dref[x] + Held(dent, "mmap", j, x)
  BY <1>1, <1>6, <1>8, HeldCases
<1>10. Inv(dent, upper, ldent, dref', file, pc', job')
  <2>1. upper \in [Uppers -> UpperRecords] BY Now DEF Types
  <2>2. \A u \in Uppers : KeptUpper(upper[u], upper[u]) BY DEF KeptUpper
  <2>3. pc[t] = "idle" /\ Went(t, "mmap") /\ Gets(t, j) BY <1>5
  <2> QED BY <1>7, <1>8, <1>9, <2>1, <2>2, <2>3, Begun
<1> QED BY <1>1, <1>5, <1>10 DEF ThenInv

\* The job after Sizes.
LEMMA SizesIs ==
  ASSUME NowInv, NEW t \in Tasks, NEW j \in JobRecords, NEW i, NEW m, Sizes(t, j, i, m)
  PROVE  Gets(t, job'[t]) /\ SameJob(j, job'[t]) /\ job'[t] \in JobRecords
<1>1. PICK b \in BOOLEAN : b = (Sizing(i) = {}) OBVIOUS
<1>2. job \in [Tasks -> JobRecords] BY Now DEF Types
<1>3. job' = [s \in Tasks |-> IF s = t THEN [j EXCEPT !.alone = b]
                              ELSE IF s \in Sizing(i) THEN [job[s] EXCEPT !.alone = FALSE]
                              ELSE job[s]]
  BY <1>1 DEF Sizes
<1>4. [j EXCEPT !.alone = b] \in JobRecords /\ SameJob(j, [j EXCEPT !.alone = b]) BY JobBits
<1>5. ASSUME NEW s \in Tasks
      PROVE  /\ [job[s] EXCEPT !.alone = FALSE] \in JobRecords /\ SameJob(job[s], job[s])
             /\ SameJob(job[s], [job[s] EXCEPT !.alone = FALSE])
  <2>1. job[s] \in JobRecords BY <1>2
  <2>2. PICK c \in BOOLEAN : c = FALSE OBVIOUS
  <2>3. [job[s] EXCEPT !.alone = c] \in JobRecords /\ SameJob(job[s], [job[s] EXCEPT !.alone = c])
    BY <2>1, JobBits
  <2> QED BY <2>2, <2>3 DEF SameJob
<1>6. job'[t] = [j EXCEPT !.alone = b] BY <1>3
<1>7. \A s \in Tasks : job'[s] \in JobRecords /\ (s # t => SameJob(job[s], job'[s]))
  BY <1>2, <1>3, <1>4, <1>5
<1>8. job' \in [Tasks -> JobRecords] BY <1>3, <1>7
<1> QED BY <1>4, <1>6, <1>7, <1>8 DEF Gets

\* What trfs_write and the end of a queued write have in common.
LEMMA WritesBelow ==
  ASSUME NEW t \in Tasks, trfs_write(t) \/ AioDone(t)
  PROVE  \E f \in Files, q \in {"getsize", "written"}, g \in BOOLEAN : LowerWrite(t, f, q, g)
BY Zenon DEF trfs_write, AioDone

\* A write below changes a size and no reference.
LEMMA BeginWrite == ASSUME NowInv, NEW t \in Tasks, trfs_write(t) \/ AioDone(t) PROVE ThenInv
<1>0. PICK f \in Files, q \in {"getsize", "written"}, g \in BOOLEAN : LowerWrite(t, f, q, g) BY WritesBelow
<1>1. /\ file[f] # None
      /\ BeginSize(t, [NoJob EXCEPT !.op = "write", !.d = file[f].d, !.f = f], ldent[file[f].lower].ino, q,
                   g /\ q = "written")
      /\ dent' = dent /\ upper' = upper /\ ldent' = ldent /\ dref' = dref
  BY <1>0 DEF LowerWrite
<1>2. PICK d, i, m : d = file[f].d /\ i = ldent[file[f].lower].ino /\ m = (g /\ q = "written")
  OBVIOUS
<1>3. d \in Dents /\ dent[d] # None /\ dent[d].inode # None /\ f # None BY <1>1, <1>2, FileFacts
<1>4. PICK j : j = [NoJob EXCEPT !.op = "write", !.d = d, !.f = f] OBVIOUS
<1>5. /\ j \in JobRecords /\ j.op = "write" /\ j.d = d /\ j.f = f /\ j.old = None /\ j.u = None
  <2>1. j = [op |-> "write", d |-> d, old |-> None, u |-> None, f |-> f, saved |-> FALSE, size |-> 0,
             alone |-> FALSE]
    BY <1>4 DEF NoJob
  <2> QED BY <1>3, <2>1, NewJob
<1>6. BeginSize(t, j, i, q, m) BY <1>1, <1>2, <1>4
<1>7. q \in {"getsize", "written"} /\ q \in Places BY InPlaces
<1>8. pc[t] = "idle" /\ Went(t, q) /\ file' = file BY <1>6, <1>7, GotoIs DEF BeginSize
<1>9. PICK k : k = job'[t] OBVIOUS
<1>10. Gets(t, k) /\ SameJob(j, k) /\ k \in JobRecords BY <1>5, <1>6, <1>9, SizesIs DEF BeginSize
<1>11. k.op = "write" /\ k.d = d /\ k.f = f /\ k.old = None /\ k.u = None BY <1>5, <1>10 DEF SameJob
<1>12. OpAt(q, k.op) BY <1>7, <1>11 DEF OpAt
<1>13. TaskOK(dent, upper, ldent, file, q, k) /\ q \notin Raw /\ q # "open"
  <2>1. q # "open" /\ q # "mmap" BY <1>7
  <2> QED BY <1>1, <1>2, <1>3, <1>7, <1>11, <1>12, <2>1, BeginTask
<1>14. dref' \in [LDents \cup Names -> Int] BY <1>1, Now DEF Types
<1>15. \A x \in LDents \cup Names : dref'[x] = dref[x] + Held(dent, q, k, x)
  BY <1>1, <1>7, <1>12, <1>14, HeldCases
<1>16. Inv(dent, upper, ldent, dref', file, pc', job')
  <2>1. upper \in [Uppers -> UpperRecords] BY Now DEF Types
  <2>2. \A u \in Uppers : KeptUpper(upper[u], upper[u]) BY DEF KeptUpper
  <2>3. pc[t] = "idle" /\ Went(t, q) /\ Gets(t, k) BY <1>8, <1>10
  <2> QED BY <1>13, <1>14, <1>15, <2>1, <2>2, <2>3, Begun
<1> QED BY <1>1, <1>8, <1>16 DEF ThenInv

\* A change of a size keeps the rest of an inode.
LEMMA SizeSet ==
  ASSUME NowInv, NEW v, NEW n \in Nat, NEW up, up = [upper EXCEPT ![v].size = n]
  PROVE  up \in [Uppers -> UpperRecords] /\ \A u \in Uppers : KeptUpper(upper[u], up[u])
<1>1. upper \in [Uppers -> UpperRecords] BY Now DEF Types
<1>2. \A r \in UpperRecords : [r EXCEPT !.size = n] \in UpperRecords /\ KeptUpper(r, [r EXCEPT !.size = n])
  BY DEF UpperRecords, KeptUpper
<1>3. \A u \in Uppers : up[u] = IF u = v THEN [upper[u] EXCEPT !.size = n] ELSE upper[u] BY <1>1
<1>4. DOMAIN up = Uppers BY <1>1
<1>5. \A u \in Uppers : up[u] \in UpperRecords BY <1>1, <1>2, <1>3
<1>6. up \in [Uppers -> UpperRecords]
  <2>1. up = [u \in Uppers |-> up[u]] BY <1>1, <1>4
  <2> QED BY <1>5, <2>1
<1>7. \A u \in Uppers : KeptUpper(upper[u], up[u])
  <2> TAKE u \in Uppers
  <2>1. CASE u = v BY <1>1, <1>2, <1>3, <2>1
  <2>2. CASE u # v BY <1>3, <2>2 DEF KeptUpper
  <2> QED BY <2>1, <2>2
<1> QED BY <1>6, <1>7

\* A truncating setattr takes the lower path.
LEMMA BeginTruncate == ASSUME NowInv, NEW t \in Tasks, Truncate(t) PROVE ThenInv
<1>1. PICK d \in Dents :
        /\ Reached(d)
        /\ BeginSize(t, [NoJob EXCEPT !.op = "truncate", !.d = d], ldent[dent[d].lower].ino, "notify", FALSE)
        /\ dref' = Ref({dent[d].lower}, 1)
        /\ upper' = [upper EXCEPT ![dent[d].inode].size = 0]
        /\ dent' = dent /\ ldent' = ldent
  BY DEF Truncate
<1>2. dent[d] # None /\ dent[d].inode # None BY <1>1, ReachedIs
<1>3. PICK i : i = ldent[dent[d].lower].ino OBVIOUS
<1>4. PICK j : j = [NoJob EXCEPT !.op = "truncate", !.d = d] OBVIOUS
<1>5. /\ j \in JobRecords /\ j.op = "truncate" /\ j.d = d /\ j.f = None /\ j.old = None /\ j.u = None
  <2>1. j = [op |-> "truncate", d |-> d, old |-> None, u |-> None, f |-> None, saved |-> FALSE, size |-> 0,
             alone |-> FALSE]
    BY <1>4 DEF NoJob
  <2>2. "truncate" \in PathOps BY DEF PathOps
  <2> QED BY <2>1, <2>2, NewJob
<1>6. BeginSize(t, j, i, "notify", FALSE) BY <1>1, <1>3, <1>4
<1>7. pc[t] = "idle" /\ Went(t, "notify") /\ file' = file BY <1>6, InPlaces, GotoIs DEF BeginSize
<1>8. PICK k : k = job'[t] OBVIOUS
<1>9. Gets(t, k) /\ SameJob(j, k) /\ k \in JobRecords BY <1>5, <1>6, <1>8, SizesIs DEF BeginSize
<1>10. k.op = "truncate" /\ k.d = d /\ k.f = None /\ k.old = None /\ k.u = None BY <1>5, <1>9 DEF SameJob
<1>11. OpAt("notify", k.op) BY <1>10 DEF OpAt
<1>12. TaskOK(dent, upper', ldent, file, "notify", k) /\ "notify" \notin Raw
  BY <1>2, <1>10, <1>11, BeginTask
<1>13. dref' \in [LDents \cup Names -> Int]
       /\ \A x \in LDents \cup Names : dref'[x] = dref[x] + IF x = dent[d].lower THEN 1 ELSE 0
  BY <1>1, Now DEF Types, Ref
<1>14. \A x \in LDents \cup Names : dref'[x] = dref[x] + Held(dent, "notify", k, x)
  BY <1>10, <1>11, <1>13, HeldCases
<1>15. upper' \in [Uppers -> UpperRecords] /\ \A u \in Uppers : KeptUpper(upper[u], upper'[u])
  BY <1>1, SizeSet
<1>16. Inv(dent, upper', ldent, dref', file, pc', job')
  <2>1. pc[t] = "idle" /\ Went(t, "notify") /\ Gets(t, k) BY <1>7, <1>9
  <2>2. dref' \in [LDents \cup Names -> Int] BY <1>13
  <2> QED BY <1>12, <1>14, <1>15, <2>1, <2>2, Begun
<1> QED BY <1>1, <1>7, <1>16 DEF ThenInv

\* A task goes on, holds what it held and changes no object but sizes.
LEMMA Goes ==
  ASSUME NowInv, NEW t \in Tasks, NEW q, NEW j, Went(t, q), Gets(t, j), NEW up,
         up \in [Uppers -> UpperRecords], \A u \in Uppers : KeptUpper(upper[u], up[u]),
         TaskOK(dent, up, ldent, file, q, j), q \in Raw => pc[t] \in Raw /\ j.d = job[t].d,
         q # "grab", q # "open",
         \A x : Held(dent, q, j, x) = Held(dent, pc[t], job[t], x)
  PROVE  Inv(dent, up, ldent, dref, file, pc', job')
<1>1. pc'[t] = q /\ job'[t] = j BY DEF Went, Gets
<1>2. Types(dent, up, ldent, dref, file, job') BY Now DEF Types, Gets
<1>3. /\ pc' \in [Tasks -> Places]
      /\ \A s \in Tasks : s # t => pc'[s] = pc[s] /\ SameJob(job[s], job'[s])
  BY DEF Went, Gets
<1>4. TaskOK(dent, up, ldent, file, pc'[t], job'[t]) BY <1>1
<1>5. \A x \in LDents \cup Names :
        dref[x] = dref[x] + Held(dent, pc'[t], job'[t], x) - Held(dent, pc[t], job[t], x)
  <2> TAKE x \in LDents \cup Names
  <2>1. Held(dent, pc'[t], job'[t], x) = Held(dent, pc[t], job[t], x) BY <1>1
  <2>2. Held(dent, pc[t], job[t], x) \in 0 .. 2 BY Now, HeldCases
  <2>3. dref[x] \in Int BY RefFacts
  <2> QED BY <2>1, <2>2, <2>3
<1>6. /\ pc'[t] \in Raw => pc[t] \in Raw /\ job'[t].d = job[t].d
      /\ pc'[t] # "grab" /\ pc'[t] # "open"
  BY <1>1
<1> QED BY <1>2, <1>3, <1>4, <1>5, <1>6, QuietMove

\* The next place of a task that keeps its job.
LEMMA Onward ==
  ASSUME NowInv, NEW t \in Tasks, NEW q, NEW up, pc[t] # "idle",
         \/ pc[t] = "alloc" /\ q = "fail"
         \/ pc[t] = "lower" /\ q = "fail"
         \/ pc[t] = "getsize" /\ q = "setsize"
         \/ pc[t] = "setsize" /\ q = "written"
         \/ pc[t] = "notify" /\ q = "path"
         \/ pc[t] = "linked" /\ q = "made"
         \/ pc[t] = "unlink" /\ q = "unlinked",
         NEW j, SameJob(job[t], j)
  PROVE  /\ TaskOK(dent, up, ldent, file, q, j) /\ q # "grab" /\ q # "open"
         /\ q \in Raw => pc[t] \in Raw /\ j.d = job[t].d
         /\ \A x : Held(dent, q, j, x) = Held(dent, pc[t], job[t], x)
<1>1. TaskOK(dent, upper, ldent, file, pc[t], job[t]) /\ Shape(pc[t], job[t]) BY TaskFacts
<1>2. /\ j.op = job[t].op /\ j.d = job[t].d /\ j.old = job[t].old /\ j.u = job[t].u /\ j.f = job[t].f
  BY DEF SameJob
<1>3. Shape(q, j) BY <1>1, <1>2 DEF Shape, OpAt, PathOps
<1>4. TaskOK(dent, up, ldent, file, q, j) BY <1>1, <1>2, <1>3 DEF TaskOK, Raw
<1>5. q \in Raw => pc[t] \in Raw /\ j.d = job[t].d BY <1>2 DEF Raw
<1>6. \A x : Held(dent, q, j, x) = Held(dent, pc[t], job[t], x) BY <1>1, <1>2 DEF Held, Shape, OpAt
<1> QED BY <1>4, <1>5, <1>6

\* The copy of the lower size into the upper inode touches no reference.
LEMMA CopiesSize == ASSUME NowInv, NEW t \in Tasks, lsize \in [Lowers -> Nat], CopySize(t) PROVE ThenInv
<1>1. dent' = dent /\ ldent' = ldent /\ dref' = dref /\ file' = file BY DEF CopySize
<1>2. CASE pc[t] = "getsize"
  <2>1. /\ job' = [job EXCEPT ![t].size = lsize[LowerInode(t)]] /\ Goto(t, "setsize") /\ upper' = upper
    BY <1>2 DEF CopySize
  <2>2. lsize[LowerInode(t)] \in Nat
    <3>1. /\ job[t].d \in Dents /\ dent[job[t].d] # None /\ dent[job[t].d].inode # None
          /\ LowerInode(t) = ldent[dent[job[t].d].lower].ino
      BY <1>2, TaskFacts DEF LowerInode, TaskOK, Raw
    <3>2. LowerInode(t) \in Lowers BY <3>1, PositiveFacts
    <3> QED BY <3>2
  <2>3. PICK n \in Nat : n = lsize[LowerInode(t)] BY <2>2
  <2>4. PICK j : j = [job[t] EXCEPT !.size = n] OBVIOUS
  <2>5. job[t] \in JobRecords BY <1>2, TaskFacts
  <2>6. j \in JobRecords /\ SameJob(job[t], j) BY <2>4, <2>5 DEF JobRecords, SameJob
  <2>7. job' = [job EXCEPT ![t] = j] BY <2>1, <2>3, <2>4
  <2>8. Gets(t, j) /\ Went(t, "setsize") BY <2>1, <2>6, <2>7, JobIs, GotoIs, InPlaces
  <2>9. /\ TaskOK(dent, upper, ldent, file, "setsize", j)
        /\ "setsize" \in Raw => pc[t] \in Raw /\ j.d = job[t].d
        /\ \A x : Held(dent, "setsize", j, x) = Held(dent, pc[t], job[t], x)
    BY <1>2, <2>6, Onward
  <2>10. upper \in [Uppers -> UpperRecords] /\ \A u \in Uppers : KeptUpper(upper[u], upper[u])
    BY Now DEF Types, KeptUpper
  <2>11. Inv(dent, upper, ldent, dref, file, pc', job') BY <2>8, <2>9, <2>10, Goes
  <2> QED BY <1>1, <2>1, <2>11 DEF ThenInv
<1>3. CASE pc[t] = "setsize"
  <2>1. /\ upper' = [upper EXCEPT ![SizeUpper(t)].size = job[t].size] /\ Goto(t, "written") /\ job' = job
    BY <1>3 DEF CopySize
  <2>2. job[t].size \in Nat BY Now, Fields
  <2>3. upper' \in [Uppers -> UpperRecords] /\ \A u \in Uppers : KeptUpper(upper[u], upper'[u])
    BY <2>1, <2>2, SizeSet
  <2>4. Gets(t, job[t]) /\ Went(t, "written") BY <2>1, JobKept, GotoIs, InPlaces
  <2>5. SameJob(job[t], job[t]) BY DEF SameJob
  <2>6. /\ TaskOK(dent, upper', ldent, file, "written", job[t])
        /\ "written" \in Raw => pc[t] \in Raw /\ job[t].d = job[t].d
        /\ \A x : Held(dent, "written", job[t], x) = Held(dent, pc[t], job[t], x)
    BY <1>3, <2>5, Onward
  <2>7. Inv(dent, upper', ldent, dref, file, pc', job') BY <2>3, <2>4, <2>6, Goes
  <2> QED BY <1>1, <2>7 DEF ThenInv
<1> QED BY <1>2, <1>3 DEF CopySize

\* notify_change touches no reference.
LEMMA Notifies == ASSUME NowInv, NEW t \in Tasks, notify_change(t) PROVE ThenInv
<1>1. /\ pc[t] = "notify" /\ Goto(t, "path") /\ job' = job
      /\ dent' = dent /\ ldent' = ldent /\ dref' = dref /\ file' = file /\ upper' = upper
  BY DEF notify_change
<1>2. Gets(t, job[t]) /\ Went(t, "path") BY <1>1, JobKept, GotoIs, InPlaces
<1>3. SameJob(job[t], job[t]) BY DEF SameJob
<1>4. /\ TaskOK(dent, upper, ldent, file, "path", job[t])
      /\ "path" \in Raw => pc[t] \in Raw /\ job[t].d = job[t].d
      /\ \A x : Held(dent, "path", job[t], x) = Held(dent, pc[t], job[t], x)
  BY <1>1, <1>3, Onward
<1>5. upper \in [Uppers -> UpperRecords] /\ \A u \in Uppers : KeptUpper(upper[u], upper[u])
  BY Now DEF Types, KeptUpper
<1>6. Inv(dent, upper, ldent, dref, file, pc', job') BY <1>2, <1>4, <1>5, Goes
<1> QED BY <1>1, <1>6 DEF ThenInv

\* fsstack_copy_inode_size after a failed link touches no reference.
LEMMA Restores == ASSUME NowInv, NEW t \in Tasks, RestoreSize(t) PROVE ThenInv
<1>1. /\ pc[t] = "linked" /\ Goto(t, "made") /\ job' = job
      /\ upper' = [upper EXCEPT ![dent[D(t)].inode].size = job[t].size]
      /\ dent' = dent /\ ldent' = ldent /\ dref' = dref /\ file' = file
  BY DEF RestoreSize
<1>2. job[t].size \in Nat BY Now, Fields
<1>3. upper' \in [Uppers -> UpperRecords] /\ \A u \in Uppers : KeptUpper(upper[u], upper'[u])
  BY <1>1, <1>2, SizeSet
<1>4. Gets(t, job[t]) /\ Went(t, "made") BY <1>1, JobKept, GotoIs, InPlaces
<1>5. SameJob(job[t], job[t]) BY DEF SameJob
<1>6. /\ TaskOK(dent, upper', ldent, file, "made", job[t])
      /\ "made" \in Raw => pc[t] \in Raw /\ job[t].d = job[t].d
      /\ \A x : Held(dent, "made", job[t], x) = Held(dent, pc[t], job[t], x)
  BY <1>1, <1>5, Onward
<1>7. Inv(dent, upper', ldent, dref, file, pc', job') BY <1>3, <1>4, <1>6, Goes
<1> QED BY <1>1, <1>7 DEF ThenInv

\* A task in the middle of a lookup changes its own dentry.
LEMMA OwnMove ==
  ASSUME NowInv, NEW t \in Tasks, pc[t] \in Raw, NEW e, e = job[t].d, NEW q, NEW j, Went(t, q), Gets(t, j),
         j.d = e, NEW dn, NEW up, NEW ld, NEW rf, NEW v,
         Types(dn, up, ld, rf, file, job'),
         \A d \in Dents : d # e => dn[d] = dent[d],
         dn[e] # None => DentOK(dn[e], up, ld),
         MovesLowers(ld), MovesUppers(t, v, up),
         TaskOK(dn, up, ld, file, q, j),
         q = "grab" => upper[j.u].state = "free",
         q # "open",
         \A x \in LDents \cup Names :
           rf[x] = dref[x] + HD(dn, e, x) - HD(dent, e, x) + Held(dn, q, j, x) - Held(dent, pc[t], job[t], x)
  PROVE  Inv(dn, up, ld, rf, file, pc', job')
<1>1. pc'[t] = q /\ job'[t] = j BY DEF Went, Gets
<1>2. pc' \in [Tasks -> Places] BY DEF Went
<1>3. MovesDents(t, e, dn, up, ld)
  <2>1. \A d \in Dents : d # e => KeptDent(dent[d], dn[d]) BY DEF KeptDent
  <2> QED BY <2>1 DEF MovesDents
<1>4. None \notin Files BY NoneAssumption
<1>5. MovesFiles(t, None, dn, file)
  <2>1. \A f \in Files : file[f] # None => (file[f].vmas > 0 => file[f].vmops)
    BY DEF NowInv, Inv, FilesOK, FileOK
  <2> QED BY <1>4, <2>1 DEF MovesFiles, KeptFile
<1>6. MovesTasks(t, dn, up, ld, file, pc', job')
  <2>1. \A s \in Tasks : s # t => pc'[s] = pc[s] /\ SameJob(job[s], job'[s]) BY DEF Went, Gets
  <2>2. TaskOK(dn, up, ld, file, pc'[t], job'[t]) BY <1>1
  <2>3. pc'[t] \in Raw => pc[t] \in Raw /\ job'[t].d = job[t].d BY <1>1
  <2>4. pc'[t] = "grab" => upper[job'[t].u].state = "free" BY <1>1
  <2>5. pc'[t] # "open" BY <1>1
  <2> QED BY <2>1, <2>2, <2>3, <2>4, <2>5 DEF MovesTasks
<1>7. MovesRefs(t, e, None, dn, rf, file, pc', job')
  <2> SUFFICES ASSUME NEW x \in LDents \cup Names
               PROVE  rf[x] = dref[x] + HD(dn, e, x) - HD(dent, e, x) + HF(file, None, x)
                        - HF(file, None, x) + HT(dn, pc', job', t, x) - HT(dent, pc, job, t, x)
    BY DEF MovesRefs
  <2>1. HF(file, None, x) = 0 BY <1>4 DEF HF
  <2>2. HT(dn, pc', job', t, x) = Held(dn, q, j, x) /\ HT(dent, pc, job, t, x) = Held(dent, pc[t], job[t], x)
    BY <1>1 DEF HT
  <2>3. dref[x] \in Int BY Now DEF Types
  <2>4. Held(dn, q, j, x) \in 0 .. 2 /\ Held(dent, pc[t], job[t], x) \in 0 .. 2
    BY Now, HeldCases DEF TaskOK, Shape
  <2>5. HD(dn, e, x) \in Int /\ HD(dent, e, x) \in Int BY DEF HD
  <2> QED BY <2>1, <2>2, <2>3, <2>4, <2>5
<1>8. Moves(t, e, v, None, dn, up, ld, rf, file, pc', job')
  BY <1>2, <1>3, <1>5, <1>6, <1>7 DEF Moves
<1> QED BY <1>8, Moved

\* Nothing below and no inode changes.
LEMMA KeptBelow == MovesLowers(ldent) /\ \A t : MovesUppers(t, None, upper)
BY NoneAssumption DEF MovesLowers, MovesUppers, KeptLower, KeptUpper

\* One dentry is changed.
OneDent(dn, e, r) ==
  /\ dn \in [Dents -> {None} \cup DentRecords] /\ dn[e] = r /\ dn[e] # None
  /\ \A d \in Dents : d # e => dn[d] = dent[d]

\* What an upper dentry table is after one entry is set.
LEMMA DentSet ==
  ASSUME NowInv, NEW e \in Dents, NEW r \in DentRecords, NEW dn, dn = [dent EXCEPT ![e] = r]
  PROVE  OneDent(dn, e, r)
<1>1. dent \in [Dents -> {None} \cup DentRecords] BY Now DEF Types
<1>2. r # None BY NoneAssumption
<1> HIDE DEF DentRecords
<1> QED BY <1>1, <1>2 DEF OneDent

\* new_dentry_private_data gives the dentry its private record with no lower path.
LEMMA NewPrivateData == ASSUME NowInv, NEW t \in Tasks, new_dentry_private_data(t) PROVE ThenInv
<1> DEFINE e == job[t].d
<1>1. /\ pc[t] = "alloc" /\ upper' = upper /\ ldent' = ldent /\ dref' = dref /\ file' = file /\ job' = job
  BY DEF new_dentry_private_data
<1>2. /\ TaskOK(dent, upper, ldent, file, pc[t], job[t]) /\ OpAt(pc[t], job[t].op) /\ Shape(pc[t], job[t])
      /\ D(t) = e /\ e \in Dents /\ dent[e] # None /\ dent[e] \in DentRecords /\ DentOK(dent[e], upper, ldent)
  BY <1>1, TaskFacts
<1>3. Gets(t, job[t]) BY <1>1, JobKept
<1>4. CASE dent' = [dent EXCEPT ![D(t)].info = TRUE] /\ Goto(t, "lower")
  <2>1. PICK r : r = [dent[e] EXCEPT !.info = TRUE] OBVIOUS
  <2>2. /\ r \in DentRecords /\ r.info /\ r.name = dent[e].name /\ r.lower = dent[e].lower
        /\ r.inode = dent[e].inode /\ r.hashed = dent[e].hashed
    BY <1>2, <2>1 DEF DentRecords
  <2>3. dent' = [dent EXCEPT ![e] = r] BY <1>2, <1>4, <2>1
  <2> HIDE DEF e
  <2>4. /\ dent' \in [Dents -> {None} \cup DentRecords] /\ dent'[e] = r /\ dent'[e] # None
        /\ \A d \in Dents : d # e => dent'[d] = dent[d]
    <3>1. OneDent(dent', e, r) BY <1>2, <2>2, <2>3, DentSet
    <3> QED BY <3>1 DEF OneDent
  <2>5. Went(t, "lower") BY <1>4, GotoIs, InPlaces
  <2>6. Types(dent', upper, ldent, dref, file, job') BY <1>1, <2>4, Now DEF Types
  <2>7. DentOK(dent'[e], upper, ldent) BY <1>2, <2>2, <2>4 DEF DentOK
  <2>8. TaskOK(dent', upper, ldent, file, "lower", job[t])
    <3>1. Shape("lower", job[t]) BY <1>1, <1>2 DEF Shape, OpAt
    <3> QED BY <1>1, <1>2, <2>2, <2>4, <3>1 DEF TaskOK, Raw, e, Shape, OpAt
  <2>9. \A x : Held(dent', "lower", job[t], x) = Held(dent, pc[t], job[t], x)
    BY <1>1, <1>2, <2>2, <2>4 DEF Held, OpAt, e
  <2>10. \A x : HD(dent', e, x) = HD(dent, e, x) BY <1>2, <2>2, <2>4 DEF HD
  <2>11. \A x \in LDents \cup Names : dref[x] = dref[x] + HD(dent', e, x) - HD(dent, e, x)
                                       + Held(dent', "lower", job[t], x) - Held(dent, pc[t], job[t], x)
    <3> TAKE x \in LDents \cup Names
    <3>1. dref[x] \in Int BY RefFacts
    <3>2. Held(dent, pc[t], job[t], x) \in 0 .. 2 BY <1>2, HeldCases
    <3>3. HD(dent, e, x) \in Int BY DEF HD
    <3> QED BY <2>9, <2>10, <3>1, <3>2, <3>3
  <2>12. Inv(dent', upper, ldent, dref, file, pc', job')
    <3>1. pc[t] \in Raw /\ e = job[t].d BY <1>1 DEF Raw, e
    <3>2. MovesLowers(ldent) /\ MovesUppers(t, None, upper) BY KeptBelow
    <3>3. \A d \in Dents : d # e => dent'[d] = dent[d] BY <2>4
    <3>4. job[t].d = e BY DEF e
    <3>5. pc[t] \in Raw BY <3>1
    <3> QED BY <1>3, <2>5, <2>6, <2>7, <2>8, <2>11, <3>2, <3>3, <3>4, <3>5, OwnMove
  <2> QED BY <1>1, <2>12 DEF ThenInv
<1>5. CASE Goto(t, "fail") /\ UNCHANGED dent
  <2>1. Went(t, "fail") BY <1>5, GotoIs, InPlaces
  <2>2. SameJob(job[t], job[t]) BY DEF SameJob
  <2>3. /\ TaskOK(dent, upper, ldent, file, "fail", job[t])
        /\ "fail" \in Raw => pc[t] \in Raw /\ job[t].d = job[t].d
        /\ \A x : Held(dent, "fail", job[t], x) = Held(dent, pc[t], job[t], x)
    BY <1>1, <2>2, Onward
  <2>4. upper \in [Uppers -> UpperRecords] /\ \A u \in Uppers : KeptUpper(upper[u], upper[u])
    BY Now DEF Types, KeptUpper
  <2>5. Inv(dent, upper, ldent, dref, file, pc', job') BY <1>3, <2>1, <2>3, <2>4, Goes
  <2> QED BY <1>1, <1>5, <2>5 DEF ThenInv
<1> QED BY <1>4, <1>5 DEF new_dentry_private_data

\* The lower path of a dentry is set or reset.
PathSet(dn, e, x) ==
  /\ dn \in [Dents -> {None} \cup DentRecords] /\ dn[e] # None /\ dn[e].lower = x
  /\ dn[e].name = dent[e].name /\ dn[e].info = dent[e].info
  /\ dn[e].inode = dent[e].inode /\ dn[e].hashed = dent[e].hashed
  /\ \A d \in Dents : d # e => dn[d] = dent[d]

\* What the dentry table is after the lower path of one task's dentry is set.
LEMMA SetsPath ==
  ASSUME NowInv, NEW t \in Tasks, pc[t] # "idle", NEW x \in LDents \cup {None},
         dent' = [dent EXCEPT ![D(t)].lower = x]
  PROVE  PathSet(dent', job[t].d, x)
<1> DEFINE e == job[t].d
<1>1. D(t) = e /\ e \in Dents /\ dent[e] \in DentRecords BY TaskFacts
<1>2. PICK r : r = [dent[e] EXCEPT !.lower = x] OBVIOUS
<1>3. /\ r \in DentRecords /\ r.info = dent[e].info /\ r.name = dent[e].name /\ r.lower = x
      /\ r.inode = dent[e].inode /\ r.hashed = dent[e].hashed
  BY <1>1, <1>2 DEF DentRecords
<1>4. dent' = [dent EXCEPT ![e] = r] BY <1>1, <1>2
<1> HIDE DEF e
<1>5. OneDent(dent', e, r) BY <1>1, <1>3, <1>4, DentSet
<1>6. PathSet(dent', e, x) BY <1>3, <1>5 DEF OneDent, PathSet
<1> QED BY <1>6 DEF e

\* References of x change by n.
RefSet(rf, x, n) ==
  /\ rf \in [LDents \cup Names -> Int]
  /\ \A y \in LDents \cup Names : dref[y] \in Int /\ rf[y] = dref[y] + IF y = x THEN n ELSE 0

\* What the reference counts are after one is taken or put.
LEMMA RefIs ==
  ASSUME NowInv, NEW x, NEW rf
  PROVE  /\ rf = Ref({x}, 1) => RefSet(rf, x, 1)
         /\ rf = Ref({x}, -1) => RefSet(rf, x, -1)
<1>1. dref \in [LDents \cup Names -> Int] BY Now DEF Types
<1>2. rf = Ref({x}, 1) => RefSet(rf, x, 1) BY <1>1 DEF Ref, RefSet
<1>3. rf = Ref({x}, -1) => RefSet(rf, x, -1) BY <1>1 DEF Ref, RefSet
<1> QED BY <1>2, <1>3

\* A lookup takes the lower path.
LEMMA TakesPath ==
  ASSUME NowInv, NEW t \in Tasks, pc[t] = "lower", NEW x \in LDents, NEW ld, NEW dn, NEW rf, NEW q, Went(t, q),
         Gets(t, job[t]),
         ld \in [LDents -> {None} \cup LDentRecords], MovesLowers(ld), ld[x] # None,
         q \in {"negative", "iget"}, q = "iget" => ld[x].ino # None,
         PathSet(dn, job[t].d, x), RefSet(rf, x, 1)
  PROVE  Inv(dn, upper, ld, rf, file, pc', job')
<1> DEFINE e == job[t].d
<1>1. /\ TaskOK(dent, upper, ldent, file, pc[t], job[t]) /\ OpAt(pc[t], job[t].op) /\ Shape(pc[t], job[t])
      /\ e \in Dents /\ dent[e] # None
  BY TaskFacts
<1>2. job[t].d = e /\ pc[t] \in Raw BY DEF Raw
<1>3. ~dent[e].hashed /\ dent[e].inode = None /\ dent[e].lower = None /\ dent[e].info
  BY <1>1 DEF TaskOK, Raw
<1>4. job[t].op = "lookup" /\ job[t].u = None /\ job[t].old = None /\ job[t].f = None
  BY <1>1 DEF Shape, OpAt
<1>5. /\ dn[e] # None /\ dn[e].lower = x /\ dn[e].name = dent[e].name
      /\ dn[e].info /\ dn[e].inode = None /\ ~dn[e].hashed
  BY <1>3 DEF PathSet
<1> HIDE DEF e
<1>6. Types(dn, upper, ld, rf, file, job') BY Now DEF Types, PathSet, RefSet, Gets
<1>7. DentOK(dn[e], upper, ld) BY <1>5 DEF DentOK
<1>8. TaskOK(dn, upper, ld, file, q, job[t])
  <2>1. Shape(q, job[t]) BY <1>1, <1>4 DEF Shape, OpAt
  <2>2. x # None BY NoneAssumption
  <2> QED BY <1>2, <1>4, <1>5, <2>1, <2>2 DEF TaskOK, Raw
<1>9. OpAt(q, job[t].op) BY <1>8 DEF TaskOK, Shape
<1>10. ASSUME NEW y PROVE Held(dn, q, job[t], y) = Held(dent, pc[t], job[t], y)
  <2>1. Held(dn, q, job[t], y) = IF y = dn[e].name THEN 1 ELSE 0 BY <1>2, <1>4, <1>9, HeldCases
  <2>2. Held(dent, pc[t], job[t], y) = IF y = dent[e].name THEN 1 ELSE 0 BY <1>1, <1>2, <1>4, HeldCases
  <2> QED BY <1>5, <2>1, <2>2
<1>11. ASSUME NEW y \in LDents \cup Names
       PROVE  rf[y] = dref[y] + HD(dn, e, y) - HD(dent, e, y)
                        + Held(dn, q, job[t], y) - Held(dent, pc[t], job[t], y)
  <2>1. HD(dn, e, y) = IF y = x THEN 1 ELSE 0 BY <1>1, <1>5 DEF HD
  <2>2. HD(dent, e, y) = 0 BY <1>3, NoneAssumption DEF HD
  <2>3. Held(dent, pc[t], job[t], y) \in 0 .. 2 BY <1>1, HeldCases
  <2>4. dref[y] \in Int /\ rf[y] = dref[y] + IF y = x THEN 1 ELSE 0 BY DEF RefSet
  <2>5. Held(dn, q, job[t], y) = Held(dent, pc[t], job[t], y) BY <1>10
  <2> QED BY <2>1, <2>2, <2>3, <2>4, <2>5
<1>12. MovesUppers(t, None, upper) BY KeptBelow
<1>13. q # "grab" /\ q # "open" OBVIOUS
<1>14. \A d \in Dents : d # e => dn[d] = dent[d] BY <1>2 DEF PathSet
<1> QED BY <1>2, <1>6, <1>7, <1>8, <1>11, <1>12, <1>13, <1>14, OwnMove

\* The lower lookup: the lower dentry found or allocated is stored and referenced.
LEMMA LooksUp == ASSUME NowInv, NEW t \in Tasks, LookupLower(t) PROVE ThenInv
<1>1. pc[t] = "lower" /\ upper' = upper /\ file' = file /\ job' = job BY DEF LookupLower
<1>2. ldent \in [LDents -> {None} \cup LDentRecords] BY Now DEF Types
<1>3. ASSUME NEW x \in LDents, ldent[x] # None, dent' = [dent EXCEPT ![D(t)].lower = x], dref' = Ref({x}, 1),
             Goto(t, IF ldent[x].ino = None THEN "negative" ELSE "iget"), UNCHANGED ldent
      PROVE  ThenInv
  <2>1. PICK q : q = IF ldent[x].ino = None THEN "negative" ELSE "iget" OBVIOUS
  <2>2. q \in Places BY <2>1, InPlaces
  <2>3. Went(t, q) BY <1>3, <2>1, <2>2, GotoIs
  <2>4. MovesLowers(ldent) BY KeptBelow
  <2>5. q \in {"negative", "iget"} /\ (q = "iget" => ldent[x].ino # None) BY <2>1
  <2>6. Inv(dent', upper, ldent, dref', file, pc', job')
    <3>1. PathSet(dent', job[t].d, x) /\ RefSet(dref', x, 1) /\ Gets(t, job[t])
      BY <1>1, <1>3, SetsPath, RefIs, JobKept
    <3> QED BY <1>1, <1>2, <1>3, <2>3, <2>4, <2>5, <3>1, TakesPath
  <2> QED BY <1>1, <1>3, <2>6 DEF ThenInv
<1>4. ASSUME NEW x \in LDents, ldent[x] = None,
             ldent' = [ldent EXCEPT ![x] = [name |-> NameOf(t), ino |-> None, hashed |-> TRUE]],
             dent' = [dent EXCEPT ![D(t)].lower = x], dref' = Ref({x}, 1), Goto(t, "negative")
      PROVE  ThenInv
  <2>1. PICK r : r = [name |-> NameOf(t), ino |-> None, hashed |-> TRUE] OBVIOUS
  <2>2. NameOf(t) \in Names BY <1>1, TaskFacts
  <2>3. r \in LDentRecords /\ r.ino = None BY <2>1, <2>2 DEF LDentRecords
  <2>4. r # None BY <2>3, NoneAssumption
  <2>5. \A y \in LDents : ldent'[y] = IF y = x THEN r ELSE ldent[y] BY <1>2, <1>4, <2>1
  <2>6. ldent' \in [LDents -> {None} \cup LDentRecords] BY <1>2, <1>4, <2>1, <2>3
  <2>7. MovesLowers(ldent')
    <3> SUFFICES ASSUME NEW y \in LDents PROVE KeptLower(ldent[y], ldent'[y]) BY DEF MovesLowers
    <3> QED BY <1>4, <2>5 DEF KeptLower
  <2>8. PICK q : q = "negative" OBVIOUS
  <2>9. q \in {"negative", "iget"} /\ q # "iget" BY <2>8
  <2>10. Went(t, q) BY <1>4, <2>8, GotoIs, InPlaces
  <2>11. ldent'[x] # None BY <2>4, <2>5
  <2>12. Inv(dent', upper, ldent', dref', file, pc', job')
    <3>1. PathSet(dent', job[t].d, x) /\ RefSet(dref', x, 1) /\ Gets(t, job[t])
      BY <1>1, <1>4, SetsPath, RefIs, JobKept
    <3> QED BY <1>1, <2>6, <2>7, <2>9, <2>10, <2>11, <3>1, TakesPath
  <2> QED BY <1>1, <2>12 DEF ThenInv
<1>5. CASE Goto(t, "fail") /\ UNCHANGED <<dent, ldent, dref>>
  <2>1. Went(t, "fail") BY <1>5, GotoIs, InPlaces
  <2>2. SameJob(job[t], job[t]) BY DEF SameJob
  <2>3. /\ TaskOK(dent, upper, ldent, file, "fail", job[t])
        /\ "fail" \in Raw => pc[t] \in Raw /\ job[t].d = job[t].d
        /\ \A x : Held(dent, "fail", job[t], x) = Held(dent, pc[t], job[t], x)
    BY <1>1, <2>2, Onward
  <2>4. upper \in [Uppers -> UpperRecords] /\ \A u \in Uppers : KeptUpper(upper[u], upper[u])
    BY Now DEF Types, KeptUpper
  <2>5. Gets(t, job[t]) BY <1>1, JobKept
  <2>6. Inv(dent, upper, ldent, dref, file, pc', job') BY <2>1, <2>3, <2>4, <2>5, Goes
  <2> QED BY <1>1, <1>5, <2>6 DEF ThenInv
<1> QED BY <1>3, <1>4, <1>5 DEF LookupLower

\* A step of a task in the middle of a lookup that changes no dentry.
LEMMA StillMove ==
  ASSUME NowInv, NEW t \in Tasks, pc[t] \in Raw, pc[t] # "idle", NEW q, NEW j, Went(t, q), Gets(t, j),
         j.d = job[t].d, NEW up, NEW ld, NEW rf, NEW v,
         Types(dent, up, ld, rf, file, job'),
         MovesLowers(ld), MovesUppers(t, v, up),
         TaskOK(dent, up, ld, file, q, j), q = "grab" => upper[j.u].state = "free", q # "open",
         \A x \in LDents \cup Names : rf[x] = dref[x] + Held(dent, q, j, x) - Held(dent, pc[t], job[t], x)
  PROVE  Inv(dent, up, ld, rf, file, pc', job')
<1>1. PICK e : e = job[t].d OBVIOUS
<1>2. e \in Dents /\ dent[e] # None /\ DentOK(dent[e], upper, ldent) /\ dent[e].lower \in LDents \cup {None}
  BY <1>1, TaskFacts
<1>3. ~dent[e].hashed /\ dent[e].inode = None BY <1>1, Now DEF TaskOK
<1>4. DentOK(dent[e], up, ld)
  <2>1. dent[e].lower # None => ld[dent[e].lower] # None
    BY <1>2 DEF DentOK, MovesLowers, KeptLower
  <2> QED BY <1>3, <2>1 DEF DentOK
<1>5. ASSUME NEW x \in LDents \cup Names
      PROVE  rf[x] = dref[x] + HD(dent, e, x) - HD(dent, e, x) + Held(dent, q, j, x) - Held(dent, pc[t], job[t], x)
  <2>1. HD(dent, e, x) \in Int BY DEF HD
  <2>2. dref[x] \in Int BY Now DEF Types
  <2>3. Held(dent, q, j, x) \in 0 .. 2 BY HeldCases DEF TaskOK, Shape
  <2>4. Held(dent, pc[t], job[t], x) \in 0 .. 2 BY Now, HeldCases
  <2>5. rf[x] = dref[x] + Held(dent, q, j, x) - Held(dent, pc[t], job[t], x) OBVIOUS
  <2> QED BY <2>1, <2>2, <2>3, <2>4, <2>5
<1>6. \A d \in Dents : d # e => dent[d] = dent[d] OBVIOUS
<1>7. j.d = e BY <1>1
<1> QED BY <1>1, <1>4, <1>5, <1>6, <1>7, OwnMove

\* A job without an inode.
Parted(j, k) == k.op = j.op /\ k.d = j.d /\ k.old = j.old /\ k.f = j.f /\ k.u = None

\* A lookup that failed puts its lower path and drops the dentry.
LEMMA Unwinds ==
  ASSUME NowInv, NEW t \in Tasks, pc[t] \in {"iget", "grab"}, Unwind(t), NEW j, Gets(t, j), Parted(job[t], j)
  PROVE  Inv(dent', upper, ldent', dref', file, pc', job')
<1>1. PICK e : e = job[t].d OBVIOUS
<1>2. /\ TaskOK(dent, upper, ldent, file, pc[t], job[t]) /\ OpAt(pc[t], job[t].op) /\ Shape(pc[t], job[t])
      /\ e \in Dents /\ dent[e] # None /\ LowerOf(t) = dent[e].lower /\ dent[e].lower \in LDents \cup {None}
      /\ dent[e].lower # dent[e].name
  BY <1>1, TaskFacts
<1>3. pc[t] \in Raw /\ pc[t] # "idle" BY DEF Raw
<1>4. ~dent[e].hashed /\ dent[e].inode = None /\ dent[e].lower # None /\ dent[e].info
  BY <1>1, <1>2 DEF TaskOK, Raw
<1>5. j.op = job[t].op /\ j.d = e /\ j.old = job[t].old /\ j.f = job[t].f /\ j.u = None /\ ldent' = ldent
  BY <1>1 DEF Parted, Unwind
<1>6. job[t].op \in {"lookup", "create", "link"} /\ e # None BY <1>2, NoneAssumption DEF OpAt
<1>7. MovesLowers(ldent) /\ MovesUppers(t, None, upper) BY KeptBelow
<1>8. CASE job[t].op = "lookup"
  <2>1. Goto(t, "fail") /\ dref' = Ref({LowerOf(t)}, -1) /\ dent' = [dent EXCEPT ![D(t)].lower = None]
    BY <1>8 DEF Unwind
  <2>2. Went(t, "fail") /\ RefSet(dref', dent[e].lower, -1) BY <1>2, <2>1, GotoIs, InPlaces, RefIs
  <2>3. PathSet(dent', e, None) BY <1>1, <1>3, <2>1, SetsPath
  <2>4. PICK dn, rf : dn = dent' /\ rf = dref' OBVIOUS
  <2>5. PathSet(dn, e, None) /\ RefSet(rf, dent[e].lower, -1) BY <2>2, <2>3, <2>4
  <2>6. /\ dn[e] # None /\ dn[e].lower = None /\ dn[e].name = dent[e].name /\ dn[e].inode = None /\ ~dn[e].hashed
    BY <1>4, <2>5 DEF PathSet
  <2>7. Types(dn, upper, ldent, rf, file, job') BY <2>5, Now DEF Types, PathSet, RefSet, Gets
  <2>8. DentOK(dn[e], upper, ldent) BY <2>6 DEF DentOK
  <2>9. TaskOK(dn, upper, ldent, file, "fail", j)
    <3>1. Shape("fail", j) BY <1>2, <1>5, <1>6, <1>8 DEF Shape, OpAt
    <3> QED BY <1>2, <1>5, <1>8, <2>6, <3>1 DEF TaskOK, Raw, Shape
  <2>10. ASSUME NEW y PROVE /\ Held(dn, "fail", j, y) = Held(dent, pc[t], job[t], y)
                            /\ Held(dent, pc[t], job[t], y) \in 0 .. 2
    <3>1. Held(dn, "fail", j, y) = IF y = dn[e].name THEN 1 ELSE 0
      BY <1>5, <1>8, <2>9, HeldCases DEF TaskOK, Shape
    <3>2. Held(dent, pc[t], job[t], y) = IF y = dent[e].name THEN 1 ELSE 0 BY <1>1, <1>2, <1>8, HeldCases
    <3> QED BY <2>6, <3>1, <3>2
  <2>11. ASSUME NEW y \in LDents \cup Names
         PROVE  rf[y] = dref[y] + HD(dn, e, y) - HD(dent, e, y)
                          + Held(dn, "fail", j, y) - Held(dent, pc[t], job[t], y)
    <3>1. HD(dn, e, y) = 0 BY <2>6, NoneAssumption DEF HD
    <3>2. HD(dent, e, y) = IF y = dent[e].lower THEN 1 ELSE 0 BY <1>2 DEF HD
    <3>3. dref[y] \in Int /\ rf[y] = dref[y] + IF y = dent[e].lower THEN -1 ELSE 0 BY <2>5 DEF RefSet
    <3> QED BY <2>10, <3>1, <3>2, <3>3
  <2>12. \A d \in Dents : d # e => dn[d] = dent[d] BY <2>5 DEF PathSet
  <2>13. Inv(dn, upper, ldent, rf, file, pc', job')
    <3>1. Went(t, "fail") BY <2>2
    <3> QED BY <1>1, <1>3, <1>5, <1>7, <2>7, <2>8, <2>9, <2>11, <2>12, <3>1, OwnMove
  <2> QED BY <1>5, <2>4, <2>13
<1>9. CASE job[t].op # "lookup"
  <2>1. Goto(t, "failed") /\ dref' = dref /\ dent' = dent BY <1>9 DEF Unwind
  <2>2. Went(t, "failed") BY <2>1, GotoIs, InPlaces
  <2>3. Types(dent, upper, ldent, dref, file, job') BY Now DEF Types, Gets
  <2>4. TaskOK(dent, upper, ldent, file, "failed", j)
    <3>1. Shape("failed", j) BY <1>2, <1>5, <1>6, <1>9 DEF Shape, OpAt
    <3> QED BY <1>1, <1>2, <1>4, <1>5, <3>1 DEF TaskOK, Raw, Shape, OpAt
  <2>5. ASSUME NEW y \in LDents \cup Names
        PROVE  dref[y] = dref[y] + Held(dent, "failed", j, y) - Held(dent, pc[t], job[t], y)
    <3>1. Held(dent, "failed", j, y) = IF \/ y = dent[e].lower \/ y = dent[e].name
                                          \/ j.old # None /\ y = dent[j.old].lower THEN 1 ELSE 0
      BY <1>5, <1>6, <1>9, <2>4, HeldCases DEF TaskOK, Shape
    <3>2. Held(dent, pc[t], job[t], y)
            = IF \/ y = dent[job[t].d].lower \/ y = dent[job[t].d].name
                 \/ job[t].old # None /\ y = dent[job[t].old].lower THEN 1 ELSE 0
      BY <1>2, <1>6, <1>9, HeldCases
    <3>3. job[t].d = e /\ job[t].old = j.old BY <1>1, <1>5
    <3>4. Held(dent, "failed", j, y) = Held(dent, pc[t], job[t], y) BY <3>1, <3>2, <3>3
    <3>5. dref[y] \in Int BY Now DEF Types
    <3>6. Held(dent, pc[t], job[t], y) \in 0 .. 2 BY <1>2, HeldCases
    <3> QED BY <3>4, <3>5, <3>6
  <2>6. j.d = job[t].d BY <1>1, <1>5
  <2>7. Inv(dent, upper, ldent, dref, file, pc', job')
    BY <1>3, <1>7, <2>2, <2>3, <2>4, <2>5, <2>6, StillMove
  <2> QED BY <1>5, <2>1, <2>7
<1> QED BY <1>8, <1>9

\* A job with inode u.
WithU(j, k, u) == k.op = j.op /\ k.d = j.d /\ k.old = j.old /\ k.f = j.f /\ k.u = u

\* What a task's job is after its upper inode is set.
LEMMA SetsU ==
  ASSUME NowInv, NEW t \in Tasks, NEW u \in Uppers \cup {None}, job' = [job EXCEPT ![t].u = u]
  PROVE  \E k : Gets(t, k) /\ WithU(job[t], k, u)
<1>1. job[t] \in JobRecords BY Now, Fields
<1>2. PICK k : k = [job[t] EXCEPT !.u = u] OBVIOUS
<1>3. k \in JobRecords /\ WithU(job[t], k, u) BY <1>1, <1>2 DEF JobRecords, WithU
<1>4. job' = [job EXCEPT ![t] = k] BY <1>2
<1>5. Gets(t, k) BY <1>3, <1>4, JobIs
<1> QED BY <1>3, <1>5

\* A step of __trfs_interpose that holds what it held.
LEMMA InterposeMove ==
  ASSUME NowInv, NEW t \in Tasks, pc[t] \in {"iget", "grab"}, NEW q \in {"grab", "splice"}, NEW j,
         Went(t, q), Gets(t, j), WithU(job[t], j, j.u), j.u \in Uppers, NEW up, NEW v,
         up \in [Uppers -> UpperRecords], MovesUppers(t, v, up),
         q = "grab" => upper[j.u].state = "free" /\ up[j.u].state = "new",
         q = "splice" => up[j.u].lower = ldent[dent[job[t].d].lower].ino
  PROVE  Inv(dent, up, ldent, dref, file, pc', job')
<1>1. /\ TaskOK(dent, upper, ldent, file, pc[t], job[t]) /\ OpAt(pc[t], job[t].op) /\ Shape(pc[t], job[t])
  BY TaskFacts
<1>2. pc[t] \in Raw /\ pc[t] # "idle" /\ q # "open" BY DEF Raw
<1>3. /\ j.op = job[t].op /\ j.d = job[t].d /\ j.old = job[t].old /\ j.f = job[t].f /\ j.u # None
      /\ job[t].op \in {"lookup", "create", "link"}
  BY <1>1, NoneAssumption DEF WithU, OpAt
<1>4. Shape(q, j) BY <1>1, <1>3 DEF Shape, OpAt
<1>5. TaskOK(dent, up, ldent, file, q, j)
  <2>1. /\ q # "idle" /\ q # "open" /\ j.op \notin {"write", "mmap"} /\ q # "mmap"
        /\ q \notin {"alloc", "lower", "fail"}
    BY <1>3
  <2> QED BY <1>1, <1>3, <1>4, <2>1 DEF TaskOK, Raw
<1>6. ASSUME NEW x PROVE Held(dent, q, j, x) = Held(dent, pc[t], job[t], x)
  <2>1. q \notin {"path", "open", "notify", "unlink", "unlinked"} OBVIOUS
  <2>2. pc[t] \notin {"path", "open", "notify", "unlink", "unlinked"} OBVIOUS
  <2> QED BY <1>3, <2>1, <2>2 DEF Held
<1>7. ASSUME NEW x \in LDents \cup Names
      PROVE  dref[x] = dref[x] + Held(dent, q, j, x) - Held(dent, pc[t], job[t], x)
  <2>1. dref[x] \in Int BY Now DEF Types
  <2>2. Held(dent, pc[t], job[t], x) \in 0 .. 2 BY <1>1, HeldCases
  <2> QED BY <1>6, <2>1, <2>2
<1>8. Types(dent, up, ldent, dref, file, job') BY Now DEF Types, Gets
<1>9. MovesLowers(ldent) BY KeptBelow
<1> QED BY <1>2, <1>3, <1>5, <1>7, <1>8, <1>9, StillMove

\* iget5_locked finds an upper inode or makes one.
LEMMA Igets == ASSUME NowInv, NEW t \in Tasks, iget5_locked(t) PROVE ThenInv
<1>1. pc[t] = "iget" /\ file' = file BY DEF iget5_locked
<1>2. /\ TaskOK(dent, upper, ldent, file, pc[t], job[t]) /\ Shape(pc[t], job[t])
      /\ LowerOf(t) = dent[job[t].d].lower
  BY <1>1, TaskFacts
<1>3. LowerInode(t) = ldent[dent[job[t].d].lower].ino /\ LowerInode(t) # None
  BY <1>1, <1>2 DEF LowerInode, TaskOK
<1>4. upper \in [Uppers -> UpperRecords] /\ UppersOK(upper) BY Now DEF Types
<1>5. ASSUME Unwind(t), job' = job, upper' = upper PROVE ThenInv
  <2>1. Gets(t, job[t]) /\ Parted(job[t], job[t]) BY <1>1, <1>2, <1>5, JobKept DEF Shape, Parted
  <2>2. Inv(dent', upper, ldent', dref', file, pc', job') BY <1>1, <1>5, <2>1, Unwinds
  <2> QED BY <1>1, <1>5, <2>2 DEF ThenInv
<1>6. ASSUME NEW u \in Cached(LowerInode(t)), job' = [job EXCEPT ![t].u = u], Goto(t, "splice"),
             dent' = dent, ldent' = ldent, dref' = dref, upper' = upper
      PROVE  ThenInv
  <2>1. u \in Uppers /\ upper[u].lower = ldent[dent[job[t].d].lower].ino BY <1>3 DEF Cached
  <2>2. PICK j : Gets(t, j) /\ WithU(job[t], j, u) BY <1>6, <2>1, SetsU
  <2>3. j.u = u /\ WithU(job[t], j, j.u) BY <2>2 DEF WithU
  <2>4. Went(t, "splice") BY <1>6, GotoIs, InPlaces
  <2>5. MovesUppers(t, None, upper) BY KeptBelow
  <2>6. Inv(dent, upper, ldent, dref, file, pc', job')
    BY <1>1, <1>4, <2>1, <2>2, <2>3, <2>4, <2>5, InterposeMove
  <2> QED BY <1>1, <1>6, <2>6 DEF ThenInv
<1>7. ASSUME NEW u \in Uppers, upper[u].state = "free", upper' = [upper EXCEPT ![u].state = "new"],
             job' = [job EXCEPT ![t].u = u], Goto(t, "grab"), dent' = dent, ldent' = ldent, dref' = dref
      PROVE  ThenInv
  <2>1. PICK j : Gets(t, j) /\ WithU(job[t], j, u) BY <1>7, SetsU
  <2>2. j.u = u /\ WithU(job[t], j, j.u) BY <2>1 DEF WithU
  <2>3. Went(t, "grab") BY <1>7, GotoIs, InPlaces
  <2>4. PICK r : r = [upper[u] EXCEPT !.state = "new"] OBVIOUS
  <2>5. r \in UpperRecords /\ r.state = "new" /\ r.lower = upper[u].lower BY <1>4, <2>4 DEF UpperRecords
  <2>6. upper' = [upper EXCEPT ![u] = r] BY <1>7, <2>4
  <2>7. /\ upper' \in [Uppers -> UpperRecords] /\ upper'[u] = r
        /\ \A w \in Uppers : w # u => upper'[w] = upper[w]
    <3> HIDE DEF UpperRecords
    <3> QED BY <1>4, <2>5, <2>6
  <2>8. upper[u].lower = None BY <1>4, <1>7 DEF UppersOK
  <2>9. PICK up : up = upper' OBVIOUS
  <2>10. MovesUppers(t, u, up)
    <3>1. \A w \in Uppers : w # u => KeptUpper(upper[w], up[w]) BY <2>7, <2>9 DEF KeptUpper
    <3>2. up[u].state = "live" <=> up[u].lower # None BY <2>5, <2>7, <2>8, <2>9
    <3> QED BY <1>7, <3>1, <3>2 DEF MovesUppers
  <2>11. up \in [Uppers -> UpperRecords] /\ up[j.u].state = "new" /\ upper[j.u].state = "free" /\ j.u \in Uppers
    BY <1>7, <2>2, <2>5, <2>7, <2>9
  <2>12. Gets(t, j) BY <2>1
  <2>13. Inv(dent, up, ldent, dref, file, pc', job')
    BY <1>1, <2>2, <2>3, <2>10, <2>11, <2>12, InterposeMove
  <2> QED BY <1>1, <1>7, <2>9, <2>13 DEF ThenInv
<1> QED BY <1>5, <1>6, <1>7 DEF iget5_locked

\* The rest of trfs_iget keeps the new inode's lower inode or puts it.
LEMMA Grabs == ASSUME NowInv, NEW t \in Tasks, lsize \in [Lowers -> Nat], trfs_iget(t) PROVE ThenInv
<1>1. pc[t] = "grab" /\ file' = file BY DEF trfs_iget
<1>2. /\ TaskOK(dent, upper, ldent, file, pc[t], job[t]) /\ Shape(pc[t], job[t])
      /\ LowerOf(t) = dent[job[t].d].lower /\ dent[job[t].d].lower \in LDents \cup {None}
      /\ DentOK(dent[job[t].d], upper, ldent) /\ job[t] \in JobRecords
  BY <1>1, TaskFacts
<1>3. PICK i : i = LowerInode(t) OBVIOUS
<1>4. i = ldent[dent[job[t].d].lower].ino /\ i \in Lowers
  <2>1. dent[job[t].d].lower \in LDents /\ ldent[dent[job[t].d].lower] # None
    BY <1>1, <1>2 DEF TaskOK, DentOK
  <2>2. ldent[dent[job[t].d].lower].ino \in Lowers \cup {None} BY <2>1, Now, Fields
  <2> QED BY <1>1, <1>2, <1>3, <2>2 DEF LowerInode, TaskOK
<1>5. upper \in [Uppers -> UpperRecords] BY Now DEF Types
<1>6. ASSUME upper' = [upper EXCEPT ![job[t].u] = [state |-> "live", lower |-> i, size |-> lsize[i]]],
             Goto(t, "splice"), dent' = dent, ldent' = ldent, dref' = dref, job' = job
      PROVE  ThenInv
  <2>1. PICK u : u = job[t].u OBVIOUS
  <2>2. u \in Uppers
    <3>1. u \in Uppers \cup {None} BY <2>1, Now, Fields
    <3> QED BY <1>1, <1>2, <2>1, <3>1 DEF Shape
  <2>3. PICK r : r = [state |-> "live", lower |-> i, size |-> lsize[i]] OBVIOUS
  <2>4. r \in UpperRecords /\ r.state = "live" /\ r.lower = i BY <1>4, <2>3 DEF UpperRecords
  <2>5. upper' = [upper EXCEPT ![u] = r] BY <1>6, <2>1, <2>3
  <2>6. /\ upper' \in [Uppers -> UpperRecords] /\ upper'[u] = r
        /\ \A w \in Uppers : w # u => upper'[w] = upper[w]
    <3> HIDE DEF UpperRecords
    <3> QED BY <1>5, <2>2, <2>4, <2>5
  <2>7. PICK up : up = upper' OBVIOUS
  <2>8. i # None BY <1>4, NoneAssumption
  <2>9. MovesUppers(t, u, up)
    <3>1. \A w \in Uppers : w # u => KeptUpper(upper[w], up[w]) BY <2>6, <2>7 DEF KeptUpper
    <3>2. up[u].state = "live" <=> up[u].lower # None BY <2>4, <2>6, <2>7, <2>8
    <3> QED BY <1>1, <2>1, <3>1, <3>2 DEF MovesUppers
  <2>10. PICK j : j = job[t] OBVIOUS
  <2>11. Gets(t, j) /\ WithU(job[t], j, j.u) BY <1>6, <2>10, JobKept DEF WithU
  <2>12. up \in [Uppers -> UpperRecords] /\ j.u \in Uppers /\ up[j.u].lower = ldent[dent[job[t].d].lower].ino
    BY <1>4, <2>1, <2>2, <2>4, <2>6, <2>7, <2>10
  <2>13. Went(t, "splice") BY <1>6, GotoIs, InPlaces
  <2>14. Inv(dent, up, ldent, dref, file, pc', job')
    BY <1>1, <2>9, <2>11, <2>12, <2>13, InterposeMove
  <2> QED BY <1>1, <1>6, <2>7, <2>14 DEF ThenInv
<1>7. ASSUME job' = [job EXCEPT ![t].u = None], Unwind(t), upper' = upper PROVE ThenInv
  <2>1. PICK j : Gets(t, j) /\ WithU(job[t], j, None) BY <1>7, SetsU
  <2>2. Parted(job[t], j) BY <2>1 DEF Parted, WithU
  <2>3. Inv(dent', upper, ldent', dref', file, pc', job') BY <1>1, <1>7, <2>1, <2>2, Unwinds
  <2> QED BY <1>1, <1>7, <2>3 DEF ThenInv
<1> QED BY <1>3, <1>6, <1>7 DEF trfs_iget

\* d_splice_alias attaches the dentry to its inode, or finds an alias.
LEMMA Splices == ASSUME NowInv, NEW t \in Tasks, d_splice_alias(t) PROVE ThenInv
<1> DEFINE q == CASE job[t].op = "lookup" -> "found" [] job[t].op = "create" -> "made" [] job[t].op = "link" -> "linked"
<1>1. /\ pc[t] = "splice" /\ file' = file /\ upper' = upper /\ ldent' = ldent /\ dref' = dref
      /\ dent' = [dent EXCEPT ![D(t)].inode = job[t].u, ![D(t)].hashed = TRUE]
      /\ job' = [job EXCEPT ![t].u = None] /\ Goto(t, q)
  BY DEF d_splice_alias
<1>2. PICK e, u : e = job[t].d /\ u = job[t].u OBVIOUS
<1>3. /\ TaskOK(dent, upper, ldent, file, pc[t], job[t]) /\ Shape(pc[t], job[t]) /\ OpAt(pc[t], job[t].op)
      /\ D(t) = e /\ e \in Dents /\ dent[e] # None /\ dent[e] \in DentRecords /\ dent[e].lower \in LDents \cup {None}
      /\ DentOK(dent[e], upper, ldent) /\ job[t].op \in {"lookup", "create", "link"} /\ e # None
  BY <1>1, <1>2, TaskFacts, NoneAssumption DEF OpAt
<1>4. /\ dent[e].info /\ dent[e].lower # None /\ ldent[dent[e].lower].ino # None
      /\ upper[u].lower = ldent[dent[e].lower].ino
  BY <1>1, <1>2, <1>3 DEF TaskOK
<1>5. u \in Uppers /\ u # None
  <2>1. u \in Uppers \cup {None} BY <1>2, Now, Fields
  <2> QED BY <1>1, <1>2, <1>3, <2>1 DEF Shape
<1>6. upper[u].state = "live" BY <1>4, <1>5, Now DEF UppersOK
<1>7. PICK r : r = [dent[e] EXCEPT !.inode = u, !.hashed = TRUE] OBVIOUS
<1>8. /\ r \in DentRecords /\ r.info = dent[e].info /\ r.name = dent[e].name /\ r.lower = dent[e].lower
      /\ r.inode = u
  BY <1>3, <1>5, <1>7 DEF DentRecords
<1>9. dent' = [dent EXCEPT ![e] = r] BY <1>1, <1>2, <1>3, <1>7
<1>10. OneDent(dent', e, r) BY <1>3, <1>8, <1>9, DentSet
<1>11. PICK dn : dn = dent' OBVIOUS
<1>12. dn[e] = r /\ dn[e] # None /\ \A d \in Dents : d # e => dn[d] = dent[d] BY <1>10, <1>11 DEF OneDent
<1>13. PICK j : Gets(t, j) /\ WithU(job[t], j, None) BY <1>1, SetsU
<1>14. j.op = job[t].op /\ j.d = e /\ j.old = job[t].old /\ j.f = job[t].f /\ j.u = None BY <1>2, <1>13 DEF WithU
<1>15. /\ q \in {"found", "made", "linked"} /\ OpAt(q, job[t].op)
       /\ q \in Places
  <2>1. /\ job[t].op = "lookup" => q = "found"
        /\ job[t].op = "create" => q = "made"
        /\ job[t].op = "link" => q = "linked"
    OBVIOUS
  <2> HIDE DEF q
  <2> QED BY <1>3, <2>1, InPlaces DEF OpAt
<1> HIDE DEF q
<1>16. Went(t, q) BY <1>1, <1>15, GotoIs
<1>17. Types(dn, upper, ldent, dref, file, job') BY <1>10, <1>11, <1>13, Now DEF Types, OneDent, Gets
<1>18. DentOK(dn[e], upper, ldent) BY <1>3, <1>4, <1>5, <1>6, <1>8, <1>12 DEF DentOK
<1>19. TaskOK(dn, upper, ldent, file, q, j)
  <2>1. Shape(q, j) BY <1>3, <1>14, <1>15 DEF Shape
  <2>2. job[t].old # None => dn[job[t].old] # None /\ dn[job[t].old].inode # None
    <3> SUFFICES ASSUME job[t].old # None PROVE dn[job[t].old] # None /\ dn[job[t].old].inode # None OBVIOUS
    <3>1. dent[job[t].old] # None /\ dent[job[t].old].inode # None /\ dent[e].inode = None
      BY <1>1, <1>2, <1>3 DEF TaskOK, Raw
    <3>2. job[t].old \in Dents /\ job[t].old # e BY <3>1, Now
    <3> QED BY <1>12, <3>1, <3>2
  <2>3. q \notin Raw /\ q \notin {"idle", "open", "mmap", "alloc", "lower", "fail", "iget", "grab", "splice", "negative", "failed"}
    BY <1>15 DEF Raw
  <2>4. j.op \notin {"write", "mmap"} BY <1>3, <1>14
  <2> QED BY <1>5, <1>8, <1>12, <1>14, <2>1, <2>2, <2>3, <2>4 DEF TaskOK
<1>20. ASSUME NEW x PROVE Held(dn, q, j, x) = Held(dent, pc[t], job[t], x)
  <2>1. dn[e].name = dent[e].name /\ dn[e].lower = dent[e].lower BY <1>8, <1>12
  <2>2. job[t].old # None => dn[job[t].old].lower = dent[job[t].old].lower
    <3>1. job[t].old # None => job[t].old \in Dents BY Now
    <3> QED BY <1>12, <2>1, <3>1
  <2>3. q \notin {"path", "open", "notify", "unlink", "unlinked"} BY <1>15
  <2>4. pc[t] \notin {"path", "open", "notify", "unlink", "unlinked"} BY <1>1
  <2> QED BY <1>2, <1>14, <2>1, <2>2, <2>3, <2>4 DEF Held
<1>21. ASSUME NEW x \in LDents \cup Names
       PROVE  dref[x] = dref[x] + HD(dn, e, x) - HD(dent, e, x) + Held(dn, q, j, x) - Held(dent, pc[t], job[t], x)
  <2>1. HD(dn, e, x) = HD(dent, e, x) /\ HD(dent, e, x) \in Int BY <1>3, <1>8, <1>12 DEF HD
  <2>2. Held(dent, pc[t], job[t], x) \in 0 .. 2 BY <1>3, HeldCases
  <2>3. dref[x] \in Int BY Now DEF Types
  <2>4. Held(dn, q, j, x) = Held(dent, pc[t], job[t], x) BY <1>20
  <2> QED BY <2>1, <2>2, <2>3, <2>4
<1>22. Inv(dn, upper, ldent, dref, file, pc', job')
  <2>1. MovesLowers(ldent) /\ MovesUppers(t, None, upper) BY KeptBelow
  <2>2. pc[t] \in Raw BY <1>1 DEF Raw
  <2>3. q # "grab" /\ q # "open" BY <1>15
  <2>4. Gets(t, j) /\ j.d = e /\ e = job[t].d BY <1>2, <1>13, <1>14
  <2>5. \A d \in Dents : d # e => dn[d] = dent[d] BY <1>12
  <2> QED BY <1>16, <1>17, <1>18, <1>19, <1>21, <2>1, <2>2, <2>3, <2>4, <2>5, OwnMove
<1> QED BY <1>1, <1>11, <1>22 DEF ThenInv

\* trfs_create and trfs_link take the lower paths and may make the lower dentry positive.
LEMMA MakesEntry ==
  ASSUME NowInv, NEW t \in Tasks, pc[t] = "negative", NEW q, NEW j, Went(t, q), Gets(t, j),
         q \in {"iget", "failed"}, j.op \in {"create", "link"}, j.d = job[t].d, j.u = None, j.f = None,
         j.old = None <=> j.op # "link",
         j.old # None => j.old \in Dents /\ dent[j.old] # None /\ dent[j.old].inode # None,
         NEW ld, NEW rf, ld \in [LDents -> {None} \cup LDentRecords], MovesLowers(ld),
         q = "iget" => ld[dent[job[t].d].lower].ino # None,
         rf \in [LDents \cup Names -> Int],
         \A x \in LDents \cup Names :
           rf[x] = dref[x] + IF x = dent[job[t].d].lower \/ (j.old # None /\ x = dent[j.old].lower) THEN 1 ELSE 0
  PROVE  Inv(dent, upper, ld, rf, file, pc', job')
<1>1. PICK e : e = job[t].d OBVIOUS
<1>2. /\ TaskOK(dent, upper, ldent, file, pc[t], job[t]) /\ OpAt(pc[t], job[t].op) /\ Shape(pc[t], job[t])
      /\ e \in Dents /\ dent[e] # None /\ dent[e].lower \in LDents \cup {None} /\ dent[e].name \in Names
      /\ dent[e].lower # dent[e].name /\ e # None
  BY <1>1, TaskFacts, NoneAssumption
<1>3. /\ job[t].op = "lookup" /\ ~dent[e].hashed /\ dent[e].inode = None /\ dent[e].lower # None /\ dent[e].info
  BY <1>1, <1>2 DEF TaskOK, Raw, OpAt
<1>4. Shape(q, j) BY <1>1, <1>2 DEF Shape, OpAt
<1>5. TaskOK(dent, upper, ld, file, q, j)
  <2>1. q \in Raw /\ q # "idle" /\ q \notin {"alloc", "lower", "fail", "grab", "splice", "open", "mmap"} BY DEF Raw
  <2>2. j.op \notin {"write", "mmap"} OBVIOUS
  <2> QED BY <1>1, <1>2, <1>3, <1>4, <2>1, <2>2 DEF TaskOK
<1>6. ASSUME NEW x \in LDents \cup Names
      PROVE  rf[x] = dref[x] + Held(dent, q, j, x) - Held(dent, pc[t], job[t], x)
  <2>1. Held(dent, q, j, x) = IF \/ x = dent[e].lower \/ x = dent[e].name
                                 \/ j.old # None /\ x = dent[j.old].lower THEN 1 ELSE 0
    BY <1>1, <1>4, HeldCases DEF Shape
  <2>2. Held(dent, pc[t], job[t], x) = IF x = dent[e].name THEN 1 ELSE 0
    BY <1>1, <1>2, <1>3, HeldCases
  <2>3. j.old # None => dent[j.old].lower # dent[e].name
    <3>1. j.old # None => dent[j.old].lower \in LDents BY PositiveFacts
    <3> QED BY <1>2, <3>1, NamesAssumption
  <2>4. rf[x] = dref[x] + IF x = dent[e].lower \/ (j.old # None /\ x = dent[j.old].lower) THEN 1 ELSE 0
    BY <1>1
  <2>5. dref[x] \in Int BY Now DEF Types
  <2> QED BY <1>2, <2>1, <2>2, <2>3, <2>4, <2>5
<1>7. Types(dent, upper, ld, rf, file, job') BY Now DEF Types, Gets
<1>8. MovesUppers(t, None, upper) BY KeptBelow
<1>9. pc[t] \in Raw /\ pc[t] # "idle" BY DEF Raw
<1>10. q # "grab" /\ q # "open" OBVIOUS
<1> QED BY <1>5, <1>6, <1>7, <1>8, <1>9, <1>10, StillMove

\* A negative lower dentry turns positive.
LEMMA TurnsPositive ==
  ASSUME NowInv, NEW x \in LDents, ldent[x] # None, ldent[x].ino = None, NEW i \in Lowers,
         ldent' = [ldent EXCEPT ![x].ino = i]
  PROVE  ldent' \in [LDents -> {None} \cup LDentRecords] /\ MovesLowers(ldent') /\ ldent'[x].ino # None
<1>1. ldent \in [LDents -> {None} \cup LDentRecords] BY Now DEF Types
<1>2. PICK r : r = [ldent[x] EXCEPT !.ino = i] OBVIOUS
<1>3. ldent[x] \in LDentRecords BY <1>1
<1>4. r \in LDentRecords /\ r.ino = i BY <1>2, <1>3 DEF LDentRecords
<1>5. r # None /\ i # None BY <1>4, NoneAssumption
<1>6. ldent' = [ldent EXCEPT ![x] = r] BY <1>2
<1> HIDE DEF LDentRecords
<1>7. ldent' \in [LDents -> {None} \cup LDentRecords] BY <1>1, <1>4, <1>6
<1>8. \A y \in LDents : ldent'[y] = IF y = x THEN r ELSE ldent[y] BY <1>1, <1>6
<1>9. MovesLowers(ldent')
  <2> SUFFICES ASSUME NEW y \in LDents PROVE KeptLower(ldent[y], ldent'[y]) BY DEF MovesLowers
  <2> QED BY <1>5, <1>8 DEF KeptLower
<1> QED BY <1>4, <1>5, <1>7, <1>8, <1>9

\* The lower dentry of a negative dentry.
LEMMA NegativeFacts ==
  ASSUME NowInv, NEW t \in Tasks, pc[t] = "negative"
  PROVE  /\ job[t].op = "lookup" /\ job[t].old = None /\ job[t].u = None /\ job[t].f = None
         /\ LowerOf(t) = dent[job[t].d].lower /\ dent[job[t].d].lower \in LDents
         /\ ldent[dent[job[t].d].lower] # None /\ job[t] \in JobRecords
<1>1. /\ TaskOK(dent, upper, ldent, file, pc[t], job[t]) /\ Shape(pc[t], job[t])
      /\ LowerOf(t) = dent[job[t].d].lower /\ dent[job[t].d].lower \in LDents \cup {None}
      /\ DentOK(dent[job[t].d], upper, ldent) /\ job[t] \in JobRecords
  BY TaskFacts
<1>2. job[t].op = "lookup" /\ job[t].old = None /\ job[t].u = None /\ job[t].f = None
  BY <1>1 DEF Shape, OpAt
<1>3. dent[job[t].d].lower # None BY <1>1 DEF TaskOK
<1> QED BY <1>1, <1>2, <1>3 DEF DentOK

\* trfs_create makes the lower inode and goes on to interpose it.
LEMMA Creates == ASSUME NowInv, NEW t \in Tasks, trfs_create(t) PROVE ThenInv
<1>1. /\ pc[t] = "negative" /\ job' = [job EXCEPT ![t].op = "create"] /\ dref' = Ref({LowerOf(t)}, 1)
      /\ dent' = dent /\ upper' = upper /\ file' = file
  BY DEF trfs_create
<1>2. PICK x : x = dent[job[t].d].lower OBVIOUS
<1>3. /\ job[t].old = None /\ job[t].u = None /\ job[t].f = None /\ job[t] \in JobRecords
      /\ LowerOf(t) = x /\ x \in LDents /\ ldent[x] # None
  BY <1>1, <1>2, NegativeFacts
<1>4. PICK j : j = [job[t] EXCEPT !.op = "create"] OBVIOUS
<1>5. /\ j \in JobRecords /\ j.op = "create" /\ j.d = job[t].d /\ j.old = None /\ j.u = None /\ j.f = None
  BY <1>3, <1>4 DEF JobRecords
<1>6. job' = [job EXCEPT ![t] = j] BY <1>1, <1>4
<1>7. Gets(t, j) BY <1>5, <1>6, JobIs
<1>8. RefSet(dref', x, 1) BY <1>1, <1>3, RefIs
<1>9. /\ dref' \in [LDents \cup Names -> Int]
      /\ \A y \in LDents \cup Names :
           dref'[y] = dref[y] + IF y = dent[job[t].d].lower \/ (j.old # None /\ y = dent[j.old].lower) THEN 1 ELSE 0
  BY <1>2, <1>5, <1>8 DEF RefSet
<1>10. ASSUME NEW q \in {"iget", "failed"}, Goto(t, q), ldent' \in [LDents -> {None} \cup LDentRecords],
              MovesLowers(ldent'), q = "iget" => ldent'[x].ino # None
       PROVE  ThenInv
  <2>1. q \in Places BY InPlaces
  <2>2. Went(t, q) BY <1>10, <2>1, GotoIs
  <2>3. q = "iget" => ldent'[dent[job[t].d].lower].ino # None BY <1>2, <1>10
  <2>4. j.op \in {"create", "link"} /\ (j.old = None <=> j.op # "link") /\ j.d = job[t].d /\ j.u = None /\ j.f = None
    BY <1>5
  <2>5. j.old # None => j.old \in Dents /\ dent[j.old] # None /\ dent[j.old].inode # None BY <1>5
  <2>6. pc[t] = "negative" BY <1>1
  <2>7. Inv(dent, upper, ldent', dref', file, pc', job')
    BY <1>7, <1>9, <1>10, <2>2, <2>3, <2>4, <2>5, <2>6, MakesEntry
  <2> QED BY <1>1, <2>7 DEF ThenInv
<1>11. ASSUME NEW i \in Lowers, ldent[LowerOf(t)].ino = None, ldent' = [ldent EXCEPT ![LowerOf(t)].ino = i],
              Goto(t, "iget")
       PROVE  ThenInv
  <2>1. ldent' = [ldent EXCEPT ![x].ino = i] /\ ldent[x].ino = None BY <1>3, <1>11
  <2>2. ldent' \in [LDents -> {None} \cup LDentRecords] /\ MovesLowers(ldent') /\ ldent'[x].ino # None
    BY <1>3, <2>1, TurnsPositive
  <2> QED BY <1>10, <1>11, <2>2
<1>12. ASSUME Goto(t, "failed"), ldent' = ldent PROVE ThenInv
  <2>1. ldent' \in [LDents -> {None} \cup LDentRecords] /\ MovesLowers(ldent') BY <1>12, KeptBelow, Now DEF Types
  <2> QED BY <1>10, <1>12, <2>1
<1> QED BY <1>11, <1>12 DEF trfs_create

\* trfs_link makes a second lower name and goes on to interpose it.
LEMMA Links == ASSUME NowInv, NEW t \in Tasks, trfs_link(t) PROVE ThenInv
<1>1. /\ pc[t] = "negative" /\ dent' = dent /\ upper' = upper /\ file' = file BY DEF trfs_link
<1>2. PICK x : x = dent[job[t].d].lower OBVIOUS
<1>3. /\ job[t].old = None /\ job[t].u = None /\ job[t].f = None /\ job[t] \in JobRecords
      /\ LowerOf(t) = x /\ x \in LDents /\ ldent[x] # None
  BY <1>1, <1>2, NegativeFacts
<1>4. PICK old \in Dents :
        LET i == ldent[dent[old].lower].ino IN
        /\ Found(old)
        /\ Sizes(t, [job[t] EXCEPT !.op = "link", !.old = old, !.size = upper[dent[old].inode].size], i, FALSE)
        /\ dref' = Ref({x, dent[old].lower}, 1)
        /\ \/ ldent[x].ino = None /\ ldent' = [ldent EXCEPT ![x].ino = i] /\ Goto(t, "iget")
           \/ Goto(t, "failed") /\ ldent' = ldent
  BY <1>3 DEF trfs_link
<1>5. /\ dent[old] # None /\ dent[old].inode # None BY <1>4 DEF Found, Positive
<1>6. PICK i, n : i = ldent[dent[old].lower].ino /\ n = upper[dent[old].inode].size OBVIOUS
<1>7. i \in Lowers /\ n \in Nat
  <2>1. dent[old].inode \in Uppers /\ ldent[dent[old].lower].ino \in Lowers BY <1>5, PositiveFacts
  <2>2. upper[dent[old].inode].size \in Nat BY <2>1, Now, Fields
  <2> QED BY <1>6, <2>1, <2>2
<1>8. PICK k : k = [job[t] EXCEPT !.op = "link", !.old = old, !.size = n] OBVIOUS
<1>9. /\ k \in JobRecords /\ k.op = "link" /\ k.d = job[t].d /\ k.old = old /\ k.u = None /\ k.f = None
  BY <1>3, <1>7, <1>8 DEF JobRecords
<1>10. Sizes(t, k, i, FALSE) BY <1>4, <1>6, <1>8
<1>11. PICK j : j = job'[t] OBVIOUS
<1>12. Gets(t, j) /\ SameJob(k, j) BY <1>9, <1>10, <1>11, SizesIs
<1>13. j.op = "link" /\ j.d = job[t].d /\ j.old = old /\ j.u = None /\ j.f = None BY <1>9, <1>12 DEF SameJob
<1>14. old # None BY NoneAssumption
<1>15. /\ dref' \in [LDents \cup Names -> Int]
       /\ \A y \in LDents \cup Names :
            dref'[y] = dref[y] + IF y = dent[job[t].d].lower \/ (j.old # None /\ y = dent[j.old].lower) THEN 1 ELSE 0
  <2>1. PICK o : o = dent[old].lower OBVIOUS
  <2>2. dref \in [LDents \cup Names -> Int] /\ dref' = Ref({x, o}, 1) BY <1>4, <2>1, Now DEF Types
  <2>3. /\ dref' \in [LDents \cup Names -> Int]
        /\ \A y \in LDents \cup Names : dref'[y] = dref[y] + IF y = x \/ y = o THEN 1 ELSE 0
    BY <2>2 DEF Ref
  <2> QED BY <1>2, <1>13, <1>14, <2>1, <2>3
<1>16. j.old # None => j.old \in Dents /\ dent[j.old] # None /\ dent[j.old].inode # None BY <1>5, <1>13
<1>17. ASSUME NEW q \in {"iget", "failed"}, Goto(t, q), ldent' \in [LDents -> {None} \cup LDentRecords],
              MovesLowers(ldent'), q = "iget" => ldent'[x].ino # None
       PROVE  ThenInv
  <2>1. q \in Places BY InPlaces
  <2>2. Went(t, q) BY <1>17, <2>1, GotoIs
  <2>3. q = "iget" => ldent'[dent[job[t].d].lower].ino # None BY <1>2, <1>17
  <2>4. j.op \in {"create", "link"} /\ (j.old = None <=> j.op # "link") /\ j.d = job[t].d /\ j.u = None /\ j.f = None
    BY <1>13, <1>14
  <2>5. Gets(t, j) BY <1>12
  <2>6. Inv(dent, upper, ldent', dref', file, pc', job')
    BY <1>1, <1>15, <1>16, <1>17, <2>2, <2>3, <2>4, <2>5, MakesEntry
  <2> QED BY <1>1, <2>6 DEF ThenInv
<1>18. CASE ldent[x].ino = None /\ ldent' = [ldent EXCEPT ![x].ino = i] /\ Goto(t, "iget")
  <2>1. ldent' \in [LDents -> {None} \cup LDentRecords] /\ MovesLowers(ldent') /\ ldent'[x].ino # None
    BY <1>3, <1>7, <1>18, TurnsPositive
  <2> QED BY <1>17, <1>18, <2>1
<1>19. CASE Goto(t, "failed") /\ ldent' = ldent
  <2>1. ldent' \in [LDents -> {None} \cup LDentRecords] /\ MovesLowers(ldent') BY <1>19, KeptBelow, Now DEF Types
  <2> QED BY <1>17, <1>19, <2>1
<1> QED BY <1>4, <1>6, <1>18, <1>19

\* A step that changes no inode and no file, and dentries only in whether they are hashed.
LEMMA KeptMove ==
  ASSUME NowInv, NEW t, NEW dn, NEW ld, NEW p, NEW jb,
         Types(dn, upper, ld, dref, file, jb), p \in [Tasks -> Places],
         \A d \in Dents : KeptDent(dent[d], dn[d]), MovesLowers(ld),
         MovesTasks(t, dn, upper, ld, file, p, jb),
         \A x \in LDents \cup Names : HT(dn, p, jb, t, x) = HT(dent, pc, job, t, x)
  PROVE  Inv(dn, upper, ld, dref, file, p, jb)
<1>1. None \notin Files /\ None \notin Dents BY NoneAssumption
<1>2. MovesDents(t, None, dn, upper, ld) BY <1>1 DEF MovesDents
<1>3. MovesUppers(t, None, upper) BY KeptBelow
<1>4. MovesFiles(t, None, dn, file)
  <2>1. \A f \in Files : file[f] # None => (file[f].vmas > 0 => file[f].vmops)
    BY DEF NowInv, Inv, FilesOK, FileOK
  <2> QED BY <1>1, <2>1 DEF MovesFiles, KeptFile
<1>5. MovesRefs(t, None, None, dn, dref, file, p, jb)
  <2> SUFFICES ASSUME NEW x \in LDents \cup Names
               PROVE  dref[x] = dref[x] + HD(dn, None, x) - HD(dent, None, x) + HF(file, None, x)
                        - HF(file, None, x) + HT(dn, p, jb, t, x) - HT(dent, pc, job, t, x)
    BY DEF MovesRefs
  <2>1. HF(file, None, x) = 0 /\ HD(dn, None, x) = 0 /\ HD(dent, None, x) = 0 BY <1>1 DEF HF, HD
  <2>2. HT(dn, p, jb, t, x) = HT(dent, pc, job, t, x) OBVIOUS
  <2>3. dref[x] \in Int BY Now DEF Types
  <2>4. HT(dent, pc, job, t, x) \in 0 .. 2
    <3>1. CASE t \in Tasks BY <3>1, Now, HeldCases DEF HT
    <3>2. CASE t \notin Tasks BY <3>2 DEF HT
    <3> QED BY <3>1, <3>2
  <2> QED BY <2>1, <2>2, <2>3, <2>4
<1>6. Moves(t, None, None, None, dn, upper, ld, dref, file, p, jb)
  BY <1>2, <1>3, <1>4, <1>5 DEF Moves
<1> QED BY <1>6, Moved

\* There is always something that is no task.
LEMMA NoTaskExists == \E t : t \notin Tasks
<1> DEFINE R == {s \in Tasks : s \notin s}
<1>1. R \in Tasks => (R \in R <=> R \notin R) OBVIOUS
<1>2. R \notin Tasks BY <1>1
<1> QED BY <1>2

\* A dentry is unhashed.
LEMMA Unhashes ==
  ASSUME NowInv, NEW e \in Dents, dent[e] # None, NEW dn, dn = [dent EXCEPT ![e].hashed = FALSE]
  PROVE  dn \in [Dents -> {None} \cup DentRecords] /\ \A d \in Dents : KeptDent(dent[d], dn[d])
<1>1. dent[e] \in DentRecords BY Now, Fields
<1>2. PICK r : r = [dent[e] EXCEPT !.hashed = FALSE] OBVIOUS
<1>3. /\ r \in DentRecords /\ r.info = dent[e].info /\ r.name = dent[e].name /\ r.lower = dent[e].lower
      /\ r.inode = dent[e].inode /\ ~r.hashed
  BY <1>1, <1>2 DEF DentRecords
<1>4. dn = [dent EXCEPT ![e] = r] BY <1>2
<1>5. OneDent(dn, e, r) BY <1>3, <1>4, DentSet
<1>6. \A d \in Dents : KeptDent(dent[d], dn[d]) BY <1>3, <1>5 DEF OneDent, KeptDent
<1> QED BY <1>5, <1>6 DEF OneDent

\* A lower dentry is unhashed.
LEMMA UnhashesLower ==
  ASSUME NowInv, NEW x \in LDents, ldent[x] # None, ldent' = [ldent EXCEPT ![x].hashed = FALSE]
  PROVE  ldent' \in [LDents -> {None} \cup LDentRecords] /\ MovesLowers(ldent')
<1>1. ldent \in [LDents -> {None} \cup LDentRecords] BY Now DEF Types
<1>2. PICK r : r = [ldent[x] EXCEPT !.hashed = FALSE] OBVIOUS
<1>3. ldent[x] \in LDentRecords BY <1>1
<1>4. r \in LDentRecords /\ r.ino = ldent[x].ino BY <1>2, <1>3 DEF LDentRecords
<1>5. r # None BY <1>4, NoneAssumption
<1>6. ldent' = [ldent EXCEPT ![x] = r] BY <1>2
<1> HIDE DEF LDentRecords
<1>7. ldent' \in [LDents -> {None} \cup LDentRecords] BY <1>1, <1>4, <1>6
<1>8. \A y \in LDents : ldent'[y] = IF y = x THEN r ELSE ldent[y] BY <1>1, <1>6
<1>9. MovesLowers(ldent')
  <2> SUFFICES ASSUME NEW y \in LDents PROVE KeptLower(ldent[y], ldent'[y]) BY DEF MovesLowers
  <2> QED BY <1>4, <1>5, <1>8 DEF KeptLower
<1> QED BY <1>7, <1>9

\* A step of no task.
LEMMA NoTaskMove ==
  ASSUME NowInv, NEW dn, NEW ld, dn \in [Dents -> {None} \cup DentRecords],
         ld \in [LDents -> {None} \cup LDentRecords],
         \A d \in Dents : KeptDent(dent[d], dn[d]), MovesLowers(ld)
  PROVE  Inv(dn, upper, ld, dref, file, pc, job)
<1>1. PICK t : t \notin Tasks BY NoTaskExists
<1>2. Types(dn, upper, ld, dref, file, job) /\ pc \in [Tasks -> Places] BY Now DEF Types
<1>3. MovesTasks(t, dn, upper, ld, file, pc, job) BY <1>1 DEF MovesTasks, SameJob
<1>4. \A x \in LDents \cup Names : HT(dn, pc, job, t, x) = HT(dent, pc, job, t, x) BY <1>1 DEF HT
<1> QED BY <1>2, <1>3, <1>4, KeptMove

\* Pruning an upper dentry gives back its lower path.
LEMMA Prunes == ASSUME NowInv, NEW d \in Dents, Prune(d) PROVE ThenInv
<1>1. PICK dn : dn = [dent EXCEPT ![d].hashed = FALSE] OBVIOUS
<1>2. Settle(dn, ldent, dref, iref) /\ dent[d] # None /\ file' = file /\ pc' = pc /\ job' = job
  BY <1>1 DEF Prune
<1>3. dn \in [Dents -> {None} \cup DentRecords] /\ \A e \in Dents : KeptDent(dent[e], dn[e])
  BY <1>1, <1>2, Unhashes
<1>4. MovesLowers(ldent) /\ ldent \in [LDents -> {None} \cup LDentRecords] BY KeptBelow, Now DEF Types
<1>5. Inv(dn, upper, ldent, dref, file, pc, job) BY <1>3, <1>4, NoTaskMove
<1>6. Inv(dn, upper, ldent, dref, file', pc', job') BY <1>2, <1>5
<1> QED BY <1>2, <1>6, Settled DEF ThenInv

\* A lower dentry to which a dentry leads is held, and no count is negative.
LEMMA CountFacts ==
  ASSUME NowInv, NEW x \in LDents \cup Names
  PROVE  /\ dref[x] \in Nat /\ dref[x] = Count(dent, file, pc, job, x)
         /\ \A d \in Dents : dent[d] # None /\ dent[d].lower = x => dref[x] > 0
<1>1. {} \in SUBSET Dents /\ \A d \in {} : dent[d] # None OBVIOUS
<1>2. \A d \in Dents : dent[d] = IF d \in {} THEN None ELSE dent[d] OBVIOUS
<1>3. \A t \in Tasks : OpAt(pc[t], job[t].op) BY Now
<1>4. \A t \in Tasks : Held(dent, pc[t], job[t], x) = Held(dent, pc[t], job[t], x) OBVIOUS
<1>5. /\ Count(dent, file, pc, job, x) \in Nat
      /\ \A d \in Dents : dent[d] # None /\ dent[d].lower = x => Count(dent, file, pc, job, x) > 0
  BY <1>1, <1>2, <1>3, <1>4, DeadCounted
<1>6. dref[x] = Count(dent, file, pc, job, x) BY DEF NowInv, Inv, Counted
<1> QED BY <1>5, <1>6

\* An unlink done below the mount unhashes a lower dentry.
LEMMA UnlinksBelow == ASSUME NowInv, NEW x \in LDents, LowerUnlink(x) PROVE ThenInv
<1>1. /\ ldent[x] # None /\ dent' = dent /\ upper' = upper /\ dref' = dref /\ file' = file /\ pc' = pc /\ job' = job
  BY DEF LowerUnlink
<1>2. dent \in [Dents -> {None} \cup DentRecords] /\ ldent \in [LDents -> {None} \cup LDentRecords] BY Now DEF Types
<1>3. \A d \in Dents : KeptDent(dent[d], dent[d]) BY DEF KeptDent
<1>4. ldent' \in [LDents -> {None} \cup LDentRecords] /\ MovesLowers(ldent')
  <2>1. CASE dref[x] > 0
    <3>1. ldent' = [ldent EXCEPT ![x].hashed = FALSE] BY <2>1 DEF LowerUnlink
    <3> QED BY <1>1, <3>1, UnhashesLower
  <2>2. CASE ~(dref[x] > 0)
    <3>1. \A d \in Dents : dent[d] # None => dent[d].lower # x BY <2>2, CountFacts
    <3>2. PICK r : r = [ldent[x] EXCEPT !.ino = None] OBVIOUS
    <3>3. ldent[x] \in LDentRecords BY <1>1, <1>2
    <3>4. r \in LDentRecords BY <3>2, <3>3 DEF LDentRecords
    <3>5. ldent' = [ldent EXCEPT ![x] = r] BY <2>2, <3>2 DEF LowerUnlink
    <3> HIDE DEF LDentRecords
    <3>6. ldent' \in [LDents -> {None} \cup LDentRecords] BY <1>2, <3>4, <3>5
    <3>7. \A y \in LDents : y # x => ldent'[y] = ldent[y] BY <1>2, <3>5
    <3>8. MovesLowers(ldent')
      <4> SUFFICES ASSUME NEW y \in LDents, y # x PROVE KeptLower(ldent[y], ldent'[y]) BY <3>1 DEF MovesLowers
      <4> QED BY <3>7 DEF KeptLower
    <3> QED BY <3>6, <3>8
  <2> QED BY <2>1, <2>2
<1>5. Inv(dent, upper, ldent', dref, file, pc, job) BY <1>2, <1>3, <1>4, NoTaskMove
<1> QED BY <1>1, <1>5 DEF ThenInv

\* vfs_unlink unhashes the lower dentry and d_drop the upper one.
LEMMA Unlinks == ASSUME NowInv, NEW t \in Tasks, VfsUnlink(t) PROVE ThenInv
<1>1. /\ pc[t] = "unlink" /\ Goto(t, "unlinked") /\ upper' = upper /\ dref' = dref /\ file' = file /\ job' = job
  BY DEF VfsUnlink
<1>2. Went(t, "unlinked") /\ Gets(t, job[t]) BY <1>1, GotoIs, InPlaces, JobKept
<1>3. PICK e : e = job[t].d OBVIOUS
<1>4. /\ TaskOK(dent, upper, ldent, file, pc[t], job[t]) /\ OpAt(pc[t], job[t].op) /\ Shape(pc[t], job[t])
      /\ e \in Dents /\ dent[e] # None /\ LowerOf(t) = dent[e].lower /\ D(t) = e
  BY <1>1, <1>3, TaskFacts
<1>5. dent[e].inode # None BY <1>1, <1>3, <1>4 DEF TaskOK, Raw
<1>6. dent[e].lower \in LDents /\ ldent[dent[e].lower] # None BY <1>4, <1>5, PositiveFacts
<1>7. SameJob(job[t], job[t]) BY DEF SameJob
<1>8. /\ TaskOK(dent, upper, ldent, file, "unlinked", job[t])
      /\ "unlinked" \in Raw => pc[t] \in Raw /\ job[t].d = job[t].d
      /\ \A x : Held(dent, "unlinked", job[t], x) = Held(dent, pc[t], job[t], x)
  BY <1>1, <1>7, Onward
<1>9. CASE UNCHANGED <<ldent, dent>>
  <2>1. upper \in [Uppers -> UpperRecords] /\ \A u \in Uppers : KeptUpper(upper[u], upper[u])
    BY Now DEF Types, KeptUpper
  <2>2. Inv(dent, upper, ldent, dref, file, pc', job') BY <1>2, <1>8, <2>1, Goes
  <2> QED BY <1>1, <1>9, <2>2 DEF ThenInv
<1>10. CASE /\ ldent' = [ldent EXCEPT ![LowerOf(t)].hashed = FALSE]
            /\ dent' = [dent EXCEPT ![D(t)].hashed = FALSE]
  <2>1. PICK dn, ld : dn = dent' /\ ld = ldent' OBVIOUS
  <2>2. dn \in [Dents -> {None} \cup DentRecords] /\ \A d \in Dents : KeptDent(dent[d], dn[d])
    BY <1>4, <1>10, <2>1, Unhashes
  <2>3. ld \in [LDents -> {None} \cup LDentRecords] /\ MovesLowers(ld)
    BY <1>4, <1>6, <1>10, <2>1, UnhashesLower
  <2>4. Types(dn, upper, ld, dref, file, job') BY <1>1, <2>2, <2>3, Now DEF Types
  <2>5. dn[e] # None /\ dn[e].name = dent[e].name /\ dn[e].lower = dent[e].lower /\ dn[e].inode = dent[e].inode
    BY <1>4, <2>2 DEF KeptDent
  <2>6. job[t].op = "unlink" /\ job[t].old = None BY <1>1, <1>4 DEF Shape, OpAt
  <2>7. TaskOK(dn, upper, ld, file, "unlinked", job[t])
    <3>1. Shape("unlinked", job[t]) BY <1>8 DEF TaskOK
    <3> QED BY <1>3, <1>5, <2>5, <2>6, <3>1 DEF TaskOK, Raw
  <2>8. pc'[t] = "unlinked" /\ job'[t] = job[t] BY <1>2 DEF Went, Gets
  <2>9. ASSUME NEW x \in LDents \cup Names PROVE HT(dn, pc', job', t, x) = HT(dent, pc, job, t, x)
    <3>1. Held(dn, "unlinked", job[t], x) = IF x = dn[e].lower THEN 2 ELSE IF x = dn[e].name THEN 1 ELSE 0
      BY <1>3, <2>7, HeldCases DEF TaskOK, Shape
    <3>2. Held(dent, pc[t], job[t], x) = IF x = dent[e].lower THEN 2 ELSE IF x = dent[e].name THEN 1 ELSE 0
      BY <1>1, <1>3, <1>4, HeldCases
    <3> QED BY <2>5, <2>8, <3>1, <3>2 DEF HT
  <2>10. MovesTasks(t, dn, upper, ld, file, pc', job')
    <3>1. \A s \in Tasks : s # t => pc'[s] = pc[s] /\ SameJob(job[s], job'[s]) BY <1>2 DEF Went, Gets
    <3>2. pc'[t] \notin Raw /\ pc'[t] # "grab" /\ pc'[t] # "open" BY <2>8 DEF Raw
    <3>3. TaskOK(dn, upper, ld, file, pc'[t], job'[t]) BY <2>7, <2>8
    <3> QED BY <3>1, <3>2, <3>3 DEF MovesTasks
  <2>11. pc' \in [Tasks -> Places] BY <1>2 DEF Went
  <2>12. Inv(dn, upper, ld, dref, file, pc', job') BY <2>2, <2>3, <2>4, <2>9, <2>10, <2>11, KeptMove
  <2> QED BY <1>1, <2>1, <2>12 DEF ThenInv
<1> QED BY <1>9, <1>10 DEF VfsUnlink

\* trfs_lookup begins: a new dentry, and a reference on the parent.
LEMMA BeginLookup == ASSUME NowInv, NEW t \in Tasks, trfs_lookup(t) PROVE ThenInv
<1>1. PICK n \in Names, e \in Dents :
        /\ dent[e] = None
        /\ Begin(t, [NoJob EXCEPT !.op = "lookup", !.d = e], "alloc")
        /\ Settle([dent EXCEPT ![e] = [name |-> n, info |-> FALSE, lower |-> None,
                                       inode |-> None, hashed |-> FALSE]], ldent, Ref({n}, 1), iref)
  BY DEF trfs_lookup
<1>2. PICK r : r = [name |-> n, info |-> FALSE, lower |-> None, inode |-> None, hashed |-> FALSE] OBVIOUS
<1>3. r \in DentRecords /\ r.name = n /\ ~r.info /\ r.lower = None /\ r.inode = None /\ ~r.hashed
  BY <1>2 DEF DentRecords
<1>4. PICK dn, rf : dn = [dent EXCEPT ![e] = r] /\ rf = Ref({n}, 1) OBVIOUS
<1>5. Settle(dn, ldent, rf, iref) BY <1>1, <1>2, <1>4
<1>6. OneDent(dn, e, r) BY <1>3, <1>4, DentSet
<1>7. RefSet(rf, n, 1) BY <1>4, RefIs
<1>8. PICK j : j = [NoJob EXCEPT !.op = "lookup", !.d = e] OBVIOUS
<1>9. j \in JobRecords /\ j.op = "lookup" /\ j.d = e /\ j.f = None /\ j.old = None /\ j.u = None
  <2>1. j = [op |-> "lookup", d |-> e, old |-> None, u |-> None, f |-> None, saved |-> FALSE, size |-> 0,
             alone |-> FALSE]
    BY <1>8 DEF NoJob
  <2> QED BY <2>1, NewJob
<1>10. pc[t] = "idle" /\ Went(t, "alloc") /\ Gets(t, j) /\ file' = file
  BY <1>1, <1>8, <1>9, InPlaces, BeginIs
<1>11. dn[e] # None /\ dn[e].name = n /\ dn[e].lower = None /\ dn[e].inode = None /\ ~dn[e].hashed
  BY <1>3, <1>6 DEF OneDent
<1>12. Types(dn, upper, ldent, rf, file, job') BY <1>6, <1>7, <1>10, Now DEF Types, OneDent, RefSet, Gets
<1>13. TaskOK(dn, upper, ldent, file, "alloc", j)
  <2>1. Shape("alloc", j) BY <1>9, NoneAssumption DEF Shape, OpAt
  <2> QED BY <1>9, <1>11, <2>1 DEF TaskOK, Raw
<1>14. pc'[t] = "alloc" /\ job'[t] = j BY <1>10 DEF Went, Gets
<1>15. MovesDents(t, e, dn, upper, ldent)
  <2>1. DentOK(dn[e], upper, ldent) BY <1>11 DEF DentOK
  <2>2. \A d \in Dents : d # e => dn[d] = dent[d] BY <1>6 DEF OneDent
  <2>3. \A d \in Dents : d # e => KeptDent(dent[d], dn[d]) BY <2>2 DEF KeptDent
  <2> QED BY <1>1, <2>1, <2>3 DEF MovesDents
<1>16. None \notin Files BY NoneAssumption
<1>17. MovesFiles(t, None, dn, file)
  <2>1. \A f \in Files : file[f] # None => (file[f].vmas > 0 => file[f].vmops) BY Now DEF FilesOK, FileOK
  <2> QED BY <1>16, <2>1 DEF MovesFiles, KeptFile
<1>18. MovesTasks(t, dn, upper, ldent, file, pc', job')
  <2>1. \A s \in Tasks : s # t => pc'[s] = pc[s] /\ SameJob(job[s], job'[s]) BY <1>10 DEF Went, Gets
  <2>2. dent[job'[t].d] = None BY <1>1, <1>9, <1>14
  <2>3. pc'[t] # "grab" /\ pc'[t] # "open" BY <1>14
  <2>4. TaskOK(dn, upper, ldent, file, pc'[t], job'[t]) BY <1>13, <1>14
  <2> QED BY <2>1, <2>2, <2>3, <2>4 DEF MovesTasks
<1>19. MovesRefs(t, e, None, dn, rf, file, pc', job')
  <2> SUFFICES ASSUME NEW x \in LDents \cup Names
               PROVE  rf[x] = dref[x] + HD(dn, e, x) - HD(dent, e, x) + HF(file, None, x)
                        - HF(file, None, x) + HT(dn, pc', job', t, x) - HT(dent, pc, job, t, x)
    BY DEF MovesRefs
  <2>1. HF(file, None, x) = 0 BY <1>16 DEF HF
  <2>2. HD(dent, e, x) = 0 BY <1>1 DEF HD
  <2>3. HD(dn, e, x) = 0 BY <1>11, NoneAssumption DEF HD
  <2>4. HT(dent, pc, job, t, x) = 0 BY <1>10, Now DEF HT
  <2>5. HT(dn, pc', job', t, x) = IF x = n THEN 1 ELSE 0
    <3>1. Held(dn, "alloc", j, x) = IF x = n THEN 1 ELSE 0
      BY <1>9, <1>11, <1>13, HeldCases DEF TaskOK, Shape
    <3> QED BY <1>14, <3>1 DEF HT
  <2>6. dref[x] \in Int /\ rf[x] = dref[x] + IF x = n THEN 1 ELSE 0 BY <1>7 DEF RefSet
  <2> QED BY <2>1, <2>2, <2>3, <2>4, <2>5, <2>6
<1>20. Moves(t, e, None, None, dn, upper, ldent, rf, file, pc', job')
  <2>1. MovesLowers(ldent) /\ MovesUppers(t, None, upper) BY KeptBelow
  <2>2. pc' \in [Tasks -> Places] BY <1>10 DEF Went
  <2> QED BY <1>12, <1>15, <1>17, <1>18, <1>19, <2>1, <2>2 DEF Moves
<1>21. Inv(dn, upper, ldent, rf, file', pc', job') BY <1>10, <1>20, Moved
<1> QED BY <1>5, <1>21, Settled DEF ThenInv

\* A step that changes files.
LEMMA FileMove ==
  ASSUME NowInv, NEW t, NEW g, NEW rf, NEW fl, NEW p, NEW jb,
         Types(dent, upper, ldent, rf, fl, jb), p \in [Tasks -> Places],
         MovesFiles(t, g, dent, fl), MovesTasks(t, dent, upper, ldent, fl, p, jb),
         MovesRefs(t, None, g, dent, rf, fl, p, jb)
  PROVE  Inv(dent, upper, ldent, rf, fl, p, jb)
<1>1. MovesDents(t, None, dent, upper, ldent) BY NoneAssumption DEF MovesDents, KeptDent
<1>2. MovesLowers(ldent) /\ MovesUppers(t, None, upper) BY KeptBelow
<1>3. Moves(t, None, None, g, dent, upper, ldent, rf, fl, p, jb) BY <1>1, <1>2 DEF Moves
<1> QED BY <1>3, Moved

\* One file is changed.
OneFile(fl, g, r) ==
  /\ fl \in [Files -> {None} \cup FileRecords] /\ fl[g] = r
  /\ \A f \in Files : f # g => fl[f] = file[f]

\* What the table of open files is after one entry is set.
LEMMA FileSet ==
  ASSUME NowInv, NEW g \in Files, NEW r \in {None} \cup FileRecords, NEW fl, fl = [file EXCEPT ![g] = r]
  PROVE  OneFile(fl, g, r)
<1>1. file \in [Files -> {None} \cup FileRecords] BY Now DEF Types
<1> HIDE DEF FileRecords
<1> QED BY <1>1 DEF OneFile

\* The references of tasks and files when one file is changed.
LEMMA FileRefs ==
  ASSUME NEW t, NEW g, NEW rf, NEW fl, NEW p, NEW jb,
         \A x \in LDents \cup Names :
           rf[x] = dref[x] + HF(fl, g, x) - HF(file, g, x) + HT(dent, p, jb, t, x) - HT(dent, pc, job, t, x),
         \A x \in LDents \cup Names : dref[x] \in Int
  PROVE  MovesRefs(t, None, g, dent, rf, fl, p, jb)
<1> SUFFICES ASSUME NEW x \in LDents \cup Names
             PROVE  rf[x] = dref[x] + HD(dent, None, x) - HD(dent, None, x) + HF(fl, g, x)
                      - HF(file, g, x) + HT(dent, p, jb, t, x) - HT(dent, pc, job, t, x)
  BY DEF MovesRefs
<1>1. HD(dent, None, x) = 0 BY NoneAssumption DEF HD
<1> QED BY <1>1

\* The last user of a file is gone.
LEMMA ReleasesFile == ASSUME NowInv, NEW f \in Files, trfs_file_release(f) PROVE ThenInv
<1>1. PICK t : t \notin Tasks BY NoTaskExists
<1>2. PICK fl, rf : fl = [file EXCEPT ![f] = None] /\ rf = Ref({file[f].lower}, -1) OBVIOUS
<1>3. /\ file[f] # None /\ file' = fl /\ pc' = pc /\ job' = job /\ Settle(dent, ldent, rf, iref)
      /\ \A s \in Tasks : job[s].f # f
  BY <1>2 DEF trfs_file_release
<1>4. OneFile(fl, f, None) BY <1>2, FileSet
<1>5. RefSet(rf, file[f].lower, -1) BY <1>2, RefIs
<1>6. Types(dent, upper, ldent, rf, fl, job) /\ pc \in [Tasks -> Places]
  BY <1>4, <1>5, Now DEF Types, OneFile, RefSet
<1>7. MovesFiles(t, f, dent, fl)
  <2>1. \A g \in Files : g # f => KeptFile(file[g], fl[g]) BY <1>4 DEF OneFile, KeptFile
  <2>2. \A g \in Files : fl[g] # None => (fl[g].vmas > 0 => fl[g].vmops)
    BY <1>4, Now DEF OneFile, FilesOK, FileOK
  <2>3. fl[f] = None BY <1>4 DEF OneFile
  <2> QED BY <1>3, <2>1, <2>2, <2>3 DEF MovesFiles
<1>8. MovesTasks(t, dent, upper, ldent, fl, pc, job) BY <1>1 DEF MovesTasks, SameJob
<1>9. MovesRefs(t, None, f, dent, rf, fl, pc, job)
  <2>1. ASSUME NEW x \in LDents \cup Names
        PROVE  rf[x] = dref[x] + HF(fl, f, x) - HF(file, f, x) + HT(dent, pc, job, t, x) - HT(dent, pc, job, t, x)
    <3>1. HT(dent, pc, job, t, x) = 0 BY <1>1 DEF HT
    <3>2. HF(fl, f, x) = 0 BY <1>4 DEF HF, OneFile
    <3>3. HF(file, f, x) = IF x = file[f].lower THEN 1 ELSE 0 BY <1>3 DEF HF
    <3>4. dref[x] \in Int /\ rf[x] = dref[x] + IF x = file[f].lower THEN -1 ELSE 0 BY <1>5 DEF RefSet
    <3> QED BY <3>1, <3>2, <3>3, <3>4
  <2>2. \A x \in LDents \cup Names : dref[x] \in Int BY Now DEF Types
  <2> QED BY <2>1, <2>2, FileRefs
<1>10. Inv(dent, upper, ldent, rf, fl, pc, job) BY <1>6, <1>7, <1>8, <1>9, FileMove
<1>11. Inv(dent, upper, ldent, rf, file', pc', job') BY <1>3, <1>10
<1> QED BY <1>3, <1>11, Settled DEF ThenInv


\* A task returns and leaves a file changed.
LEMMA FinishFile ==
  ASSUME NowInv, NEW t \in Tasks, Finish(t), NEW g, NEW r, NEW fl, NEW rf, OneFile(fl, g, r),
         MovesFiles(t, g, dent, fl), rf \in [LDents \cup Names -> Int],
         \A x \in LDents \cup Names :
           rf[x] = dref[x] + HF(fl, g, x) - HF(file, g, x) - Held(dent, pc[t], job[t], x)
  PROVE  Inv(dent, upper, ldent, rf, fl, pc', job')
<1>1. Went(t, "idle") BY InPlaces, GotoIs DEF Finish
<1>2. Gets(t, NoJob) BY Idle, JobIs DEF Finish
<1>3. pc'[t] = "idle" /\ job'[t] = NoJob BY <1>1, <1>2 DEF Went, Gets
<1>4. Types(dent, upper, ldent, rf, fl, job') BY <1>2, Now DEF Types, Gets, OneFile
<1>5. pc' \in [Tasks -> Places] BY <1>1 DEF Went
<1>6. MovesTasks(t, dent, upper, ldent, fl, pc', job')
  <2>1. \A s \in Tasks : s # t => pc'[s] = pc[s] /\ SameJob(job[s], job'[s]) BY <1>1, <1>2 DEF Went, Gets
  <2>2. TaskOK(dent, upper, ldent, fl, pc'[t], job'[t]) BY <1>3, Idle
  <2>3. pc'[t] \notin Raw /\ pc'[t] # "grab" /\ pc'[t] # "open" BY <1>3 DEF Raw
  <2> QED BY <2>1, <2>2, <2>3 DEF MovesTasks
<1>7. MovesRefs(t, None, g, dent, rf, fl, pc', job')
  <2>1. ASSUME NEW x \in LDents \cup Names
        PROVE  rf[x] = dref[x] + HF(fl, g, x) - HF(file, g, x) + HT(dent, pc', job', t, x) - HT(dent, pc, job, t, x)
    <3>1. HT(dent, pc', job', t, x) = 0 BY <1>3, Idle DEF HT
    <3>2. HT(dent, pc, job, t, x) = Held(dent, pc[t], job[t], x) BY DEF HT
    <3>3. Held(dent, pc[t], job[t], x) \in 0 .. 2 BY Now, HeldCases
    <3>4. HF(fl, g, x) \in Int /\ HF(file, g, x) \in Int BY DEF HF
    <3>5. dref[x] \in Int BY Now DEF Types
    <3>6. rf[x] = dref[x] + HF(fl, g, x) - HF(file, g, x) - Held(dent, pc[t], job[t], x) OBVIOUS
    <3> QED BY <3>1, <3>2, <3>3, <3>4, <3>5, <3>6
  <2>2. \A x \in LDents \cup Names : dref[x] \in Int BY Now DEF Types
  <2> QED BY <2>1, <2>2, FileRefs
<1> QED BY <1>4, <1>5, <1>6, <1>7, FileMove

\* trfs_open returns: the file holds what the call held, or that is put.
LEMMA OpenReturns == ASSUME NowInv, NEW t \in Tasks, OpenReturn(t) PROVE ThenInv
<1>1. pc[t] = "open" /\ Finish(t) BY DEF OpenReturn
<1>2. /\ TaskOK(dent, upper, ldent, file, pc[t], job[t]) /\ OpAt(pc[t], job[t].op) /\ Shape(pc[t], job[t])
      /\ D(t) = job[t].d /\ LowerOf(t) = dent[job[t].d].lower /\ job[t].d \in Dents /\ dent[job[t].d] # None
      /\ job[t] \in JobRecords
  BY <1>1, TaskFacts
<1>3. PICK e, g : e = job[t].d /\ g = job[t].f OBVIOUS
<1>4. dent[e].inode # None /\ file[g] = None BY <1>1, <1>2, <1>3 DEF TaskOK, Raw
<1>5. g \in Files
  <2>1. job[t].f \in Files \cup {None} BY Now, Fields
  <2> QED BY <1>1, <1>2, <1>3, <2>1 DEF Shape, OpAt
<1>6. e \in Dents /\ dent[e].lower \in LDents /\ LowerOf(t) = dent[e].lower /\ D(t) = e
  BY <1>2, <1>3, <1>4, PositiveFacts
<1>7. \A x : Held(dent, pc[t], job[t], x) = IF x = dent[e].lower THEN 1 ELSE 0 BY <1>1, <1>2, <1>3, HeldCases
<1>8. CASE /\ file' = [file EXCEPT ![job[t].f] = [d |-> D(t), lower |-> LowerOf(t), vmops |-> FALSE, vmas |-> 0]]
           /\ Settle(dent, ldent, dref, iref)
  <2>1. PICK r : r = [d |-> e, lower |-> dent[e].lower, vmops |-> FALSE, vmas |-> 0] OBVIOUS
  <2>2. r \in FileRecords /\ r.d = e /\ r.lower = dent[e].lower /\ ~(r.vmas > 0) BY <1>6, <2>1 DEF FileRecords
  <2>3. file' = [file EXCEPT ![g] = r] BY <1>3, <1>6, <1>8, <2>1
  <2>4. OneFile(file', g, r) BY <1>5, <2>2, <2>3, FileSet
  <2>5. PICK fl : fl = file' OBVIOUS
  <2>6. OneFile(fl, g, r) BY <2>4, <2>5
  <2>7. fl[g] = r /\ fl[g] # None BY <2>2, <2>6, NoneAssumption DEF OneFile
  <2>8. MovesFiles(t, g, dent, fl)
    <3>1. \A f \in Files : f # g => KeptFile(file[f], fl[f]) BY <2>6 DEF OneFile, KeptFile
    <3>2. \A f \in Files : fl[f] # None => (fl[f].vmas > 0 => fl[f].vmops)
      BY <2>2, <2>6, Now DEF OneFile, FilesOK, FileOK
    <3>3. FileOK(fl[g], dent) BY <1>2, <1>3, <1>4, <2>2, <2>7 DEF FileOK
    <3> QED BY <1>1, <1>3, <3>1, <3>2, <3>3 DEF MovesFiles
  <2>9. dref \in [LDents \cup Names -> Int] BY Now DEF Types
  <2>10. ASSUME NEW x \in LDents \cup Names
         PROVE  dref[x] = dref[x] + HF(fl, g, x) - HF(file, g, x) - Held(dent, pc[t], job[t], x)
    <3>1. HF(fl, g, x) = IF x = dent[e].lower THEN 1 ELSE 0 BY <1>5, <2>2, <2>7 DEF HF
    <3>2. HF(file, g, x) = 0 BY <1>4 DEF HF
    <3>3. dref[x] \in Int BY <2>9
    <3> QED BY <1>7, <3>1, <3>2, <3>3
  <2>11. Inv(dent, upper, ldent, dref, fl, pc', job') BY <1>1, <2>6, <2>8, <2>9, <2>10, FinishFile
  <2>12. Inv(dent, upper, ldent, dref, file', pc', job') BY <2>5, <2>11
  <2> QED BY <1>8, <2>12, Settled DEF ThenInv
<1>9. CASE UNCHANGED file /\ Settle(dent, ldent, Ref({LowerOf(t)}, -1), iref)
  <2>1. PICK rf : rf = Ref({LowerOf(t)}, -1) OBVIOUS
  <2>2. RefSet(rf, dent[e].lower, -1) /\ Settle(dent, ldent, rf, iref) BY <1>6, <1>9, <2>1, RefIs
  <2>3. rf \in [LDents \cup Names -> Int] BY <2>2 DEF RefSet
  <2>4. ASSUME NEW x \in LDents \cup Names PROVE rf[x] = dref[x] - Held(dent, pc[t], job[t], x)
    <3>1. dref[x] \in Int /\ rf[x] = dref[x] + IF x = dent[e].lower THEN -1 ELSE 0 BY <2>2 DEF RefSet
    <3> QED BY <1>7, <3>1
  <2> QED BY <1>1, <1>9, <2>2, <2>3, <2>4, FinishStep
<1> QED BY <1>8, <1>9 DEF OpenReturn

\* The mappings of a file change, and what is known of the lower ones.
LEMMA MapsFile ==
  ASSUME NowInv, NEW g \in Files, file[g] # None, NEW n \in Nat, NEW b \in BOOLEAN,
         file[g].vmops => b, n > 0 => b, NEW fl, fl = [file EXCEPT ![g].vmas = n, ![g].vmops = b]
  PROVE  /\ OneFile(fl, g, fl[g]) /\ \A t : MovesFiles(t, g, dent, fl)
         /\ \A x : HF(fl, g, x) = HF(file, g, x)
<1>1. file[g] \in FileRecords /\ file \in [Files -> {None} \cup FileRecords] BY Now, Fields DEF Types
<1>2. PICK r : r = [file[g] EXCEPT !.vmas = n, !.vmops = b] OBVIOUS
<1>3. r \in FileRecords /\ r.d = file[g].d /\ r.lower = file[g].lower /\ r.vmas = n /\ r.vmops = b
  BY <1>1, <1>2 DEF FileRecords
<1>4. fl = [file EXCEPT ![g] = r] BY <1>1, <1>2
<1>5. OneFile(fl, g, r) BY <1>3, <1>4, FileSet
<1>6. fl[g] = r /\ r # None BY <1>3, <1>5, NoneAssumption DEF OneFile
<1>7. \A f \in Files : f # g => fl[f] = file[f] BY <1>5 DEF OneFile
<1>8. ASSUME NEW t PROVE MovesFiles(t, g, dent, fl)
  <2>1. \A f \in Files : f # g => KeptFile(file[f], fl[f]) BY <1>7 DEF KeptFile
  <2>2. KeptFile(file[g], fl[g]) BY <1>3, <1>6 DEF KeptFile
  <2>3. \A f \in Files : file[f] # None => (file[f].vmas > 0 => file[f].vmops) BY Now DEF FilesOK, FileOK
  <2>4. \A f \in Files : fl[f] # None => (fl[f].vmas > 0 => fl[f].vmops) BY <1>3, <1>6, <1>7, <2>3
  <2> QED BY <2>1, <2>2, <2>4 DEF MovesFiles
<1>9. \A x : HF(fl, g, x) = HF(file, g, x) BY <1>3, <1>6 DEF HF
<1> QED BY <1>5, <1>6, <1>8, <1>9

\* trfs_mmap returns.
LEMMA MmapReturns == ASSUME NowInv, NEW t \in Tasks, MmapReturn(t) PROVE ThenInv
<1>1. pc[t] = "mmap" /\ Finish(t) /\ Settle(dent, ldent, dref, iref) BY DEF MmapReturn
<1>2. /\ TaskOK(dent, upper, ldent, file, pc[t], job[t]) /\ OpAt(pc[t], job[t].op) /\ Shape(pc[t], job[t])
  BY <1>1, TaskFacts
<1>3. PICK g : g = job[t].f OBVIOUS
<1>4. g \in Files
  <2>1. job[t].f \in Files \cup {None} BY Now, Fields
  <2> QED BY <1>1, <1>2, <1>3, <2>1 DEF Shape, OpAt
<1>5. file[g] # None /\ (file[g].vmops \/ job[t].saved) BY <1>1, <1>2, <1>3 DEF TaskOK, OpAt
<1>6. dref \in [LDents \cup Names -> Int] BY Now DEF Types
<1>7. \A x : Held(dent, pc[t], job[t], x) = 0 BY <1>1, <1>2, HeldCases
<1>8. CASE UNCHANGED file
  <2>1. \A x \in LDents \cup Names : dref[x] = dref[x] - Held(dent, pc[t], job[t], x) BY <1>6, <1>7
  <2> QED BY <1>1, <1>6, <1>8, <2>1, FinishStep
<1>9. CASE file' = [file EXCEPT ![job[t].f].vmas = @ + 1, ![job[t].f].vmops = @ \/ job[t].saved]
  <2>1. file[g].vmas \in Nat /\ file[g].vmops \in BOOLEAN /\ file[g] \in FileRecords BY <1>4, <1>5, Now, Fields
  <2>2. PICK fl : fl = file' OBVIOUS
  <2>3. PICK n : n = file[g].vmas + 1 OBVIOUS
  <2>4. n \in Nat BY <2>1, <2>3
  <2>5. fl = [file EXCEPT ![g].vmas = n, ![g].vmops = TRUE]
    <3>1. (file[g].vmops \/ job[t].saved) = TRUE BY <1>5
    <3> QED BY <1>3, <1>9, <2>1, <2>2, <2>3, <3>1
  <2>6. /\ OneFile(fl, g, fl[g]) /\ MovesFiles(t, g, dent, fl)
        /\ \A x : HF(fl, g, x) = HF(file, g, x)
    BY <1>4, <1>5, <2>4, <2>5, MapsFile
  <2>7. ASSUME NEW x \in LDents \cup Names
        PROVE  dref[x] = dref[x] + HF(fl, g, x) - HF(file, g, x) - Held(dent, pc[t], job[t], x)
    <3>1. HF(file, g, x) \in Int BY DEF HF
    <3>2. dref[x] \in Int BY <1>6
    <3> QED BY <1>7, <2>6, <3>1, <3>2
  <2>8. Inv(dent, upper, ldent, dref, fl, pc', job') BY <1>1, <1>6, <2>6, <2>7, FinishFile
  <2>9. Inv(dent, upper, ldent, dref, file', pc', job') BY <2>2, <2>8
  <2> QED BY <1>1, <2>9, Settled DEF ThenInv
<1> QED BY <1>8, <1>9 DEF MmapReturn

\* A mapping ends.
LEMMA Unmaps == ASSUME NowInv, NEW g \in Files, Munmap(g) PROVE ThenInv
<1>1. /\ file[g] # None /\ file[g].vmas > 0 /\ file' = [file EXCEPT ![g].vmas = @ - 1]
      /\ dent' = dent /\ upper' = upper /\ ldent' = ldent /\ dref' = dref /\ pc' = pc /\ job' = job
  BY DEF Munmap
<1>2. file[g].vmas \in Nat /\ file[g].vmops \in BOOLEAN /\ file[g] \in FileRecords BY <1>1, Now, Fields
<1>3. file[g].vmops = TRUE BY <1>1, <1>2, FileFacts
<1>4. PICK n : n = file[g].vmas - 1 OBVIOUS
<1>5. n \in Nat BY <1>1, <1>2, <1>4
<1>6. PICK fl : fl = file' OBVIOUS
<1>7. fl = [file EXCEPT ![g].vmas = n, ![g].vmops = TRUE]
  <2>1. file \in [Files -> {None} \cup FileRecords] BY Now DEF Types
  <2>2. [file[g] EXCEPT !.vmas = n] = [file[g] EXCEPT !.vmas = n, !.vmops = TRUE]
    BY <1>2, <1>3 DEF FileRecords
  <2>3. fl = [file EXCEPT ![g] = [file[g] EXCEPT !.vmas = n]] BY <1>1, <1>4, <1>6, <2>1
  <2>4. [file EXCEPT ![g].vmas = n, ![g].vmops = TRUE] = [file EXCEPT ![g] = [file[g] EXCEPT !.vmas = n, !.vmops = TRUE]]
    BY <2>1
  <2> QED BY <2>2, <2>3, <2>4
<1>8. PICK t : t \notin Tasks BY NoTaskExists
<1>9. /\ OneFile(fl, g, fl[g]) /\ MovesFiles(t, g, dent, fl)
      /\ \A x : HF(fl, g, x) = HF(file, g, x)
  BY <1>1, <1>5, <1>7, MapsFile
<1>10. Types(dent, upper, ldent, dref, fl, job) /\ pc \in [Tasks -> Places] BY <1>9, Now DEF Types, OneFile
<1>11. MovesTasks(t, dent, upper, ldent, fl, pc, job) BY <1>8 DEF MovesTasks, SameJob
<1>12. MovesRefs(t, None, g, dent, dref, fl, pc, job)
  <2>1. ASSUME NEW x \in LDents \cup Names
        PROVE  dref[x] = dref[x] + HF(fl, g, x) - HF(file, g, x) + HT(dent, pc, job, t, x) - HT(dent, pc, job, t, x)
    <3>1. HT(dent, pc, job, t, x) = 0 BY <1>8 DEF HT
    <3>2. HF(file, g, x) \in Int BY DEF HF
    <3>3. dref[x] \in Int BY Now DEF Types
    <3> QED BY <1>9, <3>1, <3>2, <3>3
  <2>2. \A x \in LDents \cup Names : dref[x] \in Int BY Now DEF Types
  <2> QED BY <2>1, <2>2, FileRefs
<1>13. Inv(dent, upper, ldent, dref, fl, pc, job) BY <1>9, <1>10, <1>11, <1>12, FileMove
<1> QED BY <1>1, <1>6, <1>13 DEF ThenInv


-----------------------------------------------------------------------------
(* The invariant *)

\* Counts stay numbers when something goes.
LEMMA SettleCounts ==
  ASSUME NEW dn, NEW ld, NEW rf, iref \in [Lowers -> Int], Settle(dn, ld, rf, iref)
  PROVE  iref' \in [Lowers -> Int] /\ lsize' = lsize
<1> DEFINE evict == trfs_evict_inode(dn, Released(dn))
           left == [x \in LDents \cup Names |-> rf[x] - Cardinality({d \in Released(dn) : dn[d].lower = x})]
           gone == {x \in LDents : ld[x] # None /\ ~ld[x].hashed /\ left[x] = 0}
           A(i) == Cardinality({u \in evict : upper[u].lower = i})
           B(i) == Cardinality({x \in gone : ld[x].ino = i})
<1>1. iref' = [i \in Lowers |-> iref[i] - A(i) - B(i)] /\ lsize' = lsize BY DEF Settle
<1>2. ASSUME NEW i PROVE A(i) \in Nat /\ B(i) \in Nat
  <2>1. {u \in evict : upper[u].lower = i} \subseteq Uppers BY DEF trfs_evict_inode
  <2>2. {x \in gone : ld[x].ino = i} \subseteq LDents OBVIOUS
  <2> QED BY <2>1, <2>2, FiniteAssumption, FS_Subset, FS_CardinalityType
<1> HIDE DEF A, B
<1> QED BY <1>1, <1>2

\* The numbers after a step.
LEMMA NumbersStep == ASSUME Numbers, Next PROVE Numbers'
<1> USE BoundAssumption
<1>1. ASSUME NEW t \in Tasks, NEW j, NEW q, Begin(t, j, q) PROVE nops' \in 0 .. MaxOps
  BY <1>1 DEF Begin, Numbers
<1>2. ASSUME NEW t \in Tasks, Finish(t) PROVE nops' \in 0 .. MaxOps BY <1>2 DEF Finish, Numbers
<1>3. ASSUME NEW dn, NEW ld, NEW rf, Settle(dn, ld, rf, iref)
      PROVE  iref' \in [Lowers -> Int] /\ lsize' \in [Lowers -> Nat]
  BY <1>3, SettleCounts DEF Numbers
<1>4. ASSUME NEW t \in Tasks,
             \/ trfs_lookup(t) \/ LookupReturn(t) \/ CreateReturn(t) \/ UnlinkReturn(t)
             \/ trfs_put_lower_path(t) \/ OpenReturn(t) \/ MmapReturn(t) \/ WriteReturn(t)
      PROVE  Numbers'
  <2>1. trfs_lookup(t) => Numbers' BY <1>1, <1>3 DEF trfs_lookup, Numbers
  <2>2. LookupReturn(t) => Numbers' BY <1>2, <1>3 DEF LookupReturn, Numbers
  <2>3. CreateReturn(t) => Numbers' BY <1>2, <1>3 DEF CreateReturn, Numbers
  <2>4. UnlinkReturn(t) => Numbers' BY <1>2, <1>3 DEF UnlinkReturn, Numbers
  <2>5. trfs_put_lower_path(t) => Numbers' BY <1>2, <1>3 DEF trfs_put_lower_path, Numbers
  <2>6. OpenReturn(t) => Numbers' BY <1>2, <1>3 DEF OpenReturn, Numbers
  <2>7. MmapReturn(t) => Numbers' BY <1>2, <1>3 DEF MmapReturn, Numbers
  <2>8. WriteReturn(t) => Numbers' BY <1>2, <1>3 DEF WriteReturn, Numbers
  <2> QED BY <1>4, <2>1, <2>2, <2>3, <2>4, <2>5, <2>6, <2>7, <2>8
<1>5. ASSUME NEW t \in Tasks,
             \/ new_dentry_private_data(t) \/ LookupLower(t) \/ iget5_locked(t) \/ trfs_iget(t)
             \/ d_splice_alias(t) \/ trfs_create(t) \/ trfs_link(t) \/ RestoreSize(t) \/ VfsUnlink(t)
             \/ CopySize(t) \/ notify_change(t)
      PROVE  Numbers'
  <2>1. new_dentry_private_data(t) => Numbers' BY DEF new_dentry_private_data, Numbers
  <2>2. LookupLower(t) => Numbers' BY DEF LookupLower, Numbers
  <2>3. iget5_locked(t) => Numbers' BY DEF iget5_locked, Numbers
  <2>4. trfs_iget(t) => Numbers' BY DEF trfs_iget, Numbers
  <2>5. d_splice_alias(t) => Numbers' BY DEF d_splice_alias, Numbers
  <2>6. trfs_create(t) => Numbers' BY DEF trfs_create, Numbers
  <2>7. trfs_link(t) => Numbers' BY DEF trfs_link, Numbers
  <2>8. RestoreSize(t) => Numbers' BY DEF RestoreSize, Numbers
  <2>9. VfsUnlink(t) => Numbers' BY DEF VfsUnlink, Numbers
  <2>10. CopySize(t) => Numbers' BY DEF CopySize, Numbers
  <2>11. notify_change(t) => Numbers' BY DEF notify_change, Numbers
  <2> QED BY <1>5, <2>1, <2>2, <2>3, <2>4, <2>5, <2>6, <2>7, <2>8, <2>9, <2>10, <2>11
<1>6. ASSUME NEW t \in Tasks,
             trfs_unlink(t) \/ trfs_open(t) \/ trfs_mmap(t) \/ trfs_write(t) \/ AioDone(t) \/ Truncate(t)
             \/ trfs_fsync(t)
      PROVE  Numbers'
  <2>1. trfs_unlink(t) => Numbers' BY <1>1 DEF trfs_unlink, Numbers
  <2>2. trfs_open(t) => Numbers' BY <1>1 DEF trfs_open, Numbers
  <2>3. trfs_mmap(t) => Numbers' BY <1>1 DEF trfs_mmap, Numbers
  <2>4. trfs_write(t) \/ AioDone(t) => Numbers'
    <3> SUFFICES ASSUME trfs_write(t) \/ AioDone(t) PROVE Numbers' OBVIOUS
    <3>0. PICK f \in Files, q \in {"getsize", "written"}, g \in BOOLEAN : LowerWrite(t, f, q, g) BY WritesBelow
    <3>1. PICK i : lsize' = [lsize EXCEPT ![i] = @ + 1] \/ lsize' = lsize BY <3>0 DEF LowerWrite
    <3>2. nops < MaxOps /\ nops' = nops + 1 /\ iref' = iref BY <3>0 DEF LowerWrite, BeginSize
    <3> QED BY <3>1, <3>2 DEF Numbers
  <2>5. Truncate(t) => Numbers' BY DEF Truncate, BeginSize, Numbers
  <2>6. trfs_fsync(t) => Numbers' BY <1>1 DEF trfs_fsync, trfs_get_lower_path, Numbers
  <2> QED BY <1>6, <2>1, <2>2, <2>3, <2>4, <2>5, <2>6
<1>7. ASSUME NEW t \in Tasks,
             \/ trfs_d_revalidate(t) \/ trfs_statfs(t) \/ trfs_getattr(t) \/ trfs_setattr(t)
             \/ trfs_setxattr(t) \/ trfs_readlink(t)
      PROVE  Numbers'
  <2>1. ASSUME NEW o, PathCall(t, o) PROVE Numbers' BY <1>1, <2>1 DEF PathCall, trfs_get_lower_path, Numbers
  <2> QED BY <1>7, <2>1, Revalidates DEF trfs_statfs, trfs_getattr, trfs_setattr, trfs_setxattr, trfs_readlink
<1>8. ASSUME NEW f \in Files, trfs_file_release(f) \/ Munmap(f) PROVE Numbers'
  BY <1>3, <1>8 DEF trfs_file_release, Munmap, Numbers
<1>9. ASSUME NEW d \in Dents, Prune(d) PROVE Numbers' BY <1>3, <1>9 DEF Prune, Numbers
<1>10. ASSUME NEW x \in LDents, LowerUnlink(x) PROVE Numbers' BY <1>10 DEF LowerUnlink, Numbers
<1> QED BY <1>4, <1>5, <1>6, <1>7, <1>8, <1>9, <1>10 DEF Next


\* At first there are no objects, and no task is at work.
LEMMA InitInv == Init => IInv
<1> SUFFICES ASSUME Init PROVE IInv OBVIOUS
<1>1. /\ \A d \in Dents : dent[d] = None
      /\ \A f \in Files : file[f] = None
      /\ \A t \in Tasks : pc[t] = "idle" /\ job[t] = NoJob
      /\ \A u \in Uppers : upper[u] = NoUpper
      /\ \A x \in LDents \cup Names : dref[x] = 0
  BY DEF Init
<1>2. Types(dent, upper, ldent, dref, file, job)
  <2>1. upper \in [Uppers -> UpperRecords] BY DEF Init, NoUpper, UpperRecords
  <2>2. job \in [Tasks -> JobRecords] BY Idle DEF Init
  <2>3. ldent \in [LDents -> {None} \cup LDentRecords]
    <3>1. [name : Names, ino : Lowers \cup {None}, hashed : {TRUE}] \subseteq LDentRecords BY DEF LDentRecords
    <3>2. ldent \in [LDents -> {None} \cup [name : Names, ino : Lowers \cup {None}, hashed : {TRUE}]] BY DEF Init
    <3> QED BY <3>1, <3>2
  <2>4. dent \in [Dents -> {None} \cup DentRecords] BY DEF Init
  <2>5. file \in [Files -> {None} \cup FileRecords] BY DEF Init
  <2>6. dref \in [LDents \cup Names -> Int] BY DEF Init
  <2> QED BY <2>1, <2>2, <2>3, <2>4, <2>5, <2>6 DEF Types
<1>3. pc \in [Tasks -> Places] BY InPlaces DEF Init
<1>4. DentsOK(dent, upper, ldent) /\ FilesOK(dent, file) BY <1>1 DEF DentsOK, FilesOK
<1>5. UppersOK(upper) BY <1>1 DEF UppersOK, NoUpper
<1>6. TasksOK(dent, upper, ldent, file, pc, job) BY <1>1, Idle DEF TasksOK
<1>7. Distinct(pc, job) BY <1>1 DEF Distinct, Raw
<1>8. Counted(dent, dref, file, pc, job)
  <2> SUFFICES ASSUME NEW x \in LDents \cup Names PROVE dref[x] = Count(dent, file, pc, job, x) BY DEF Counted
  <2>1. DentsOf(dent, x) = {} /\ FilesOf(file, x) = {} BY <1>1 DEF DentsOf, FilesOf
  <2>2. TasksOf(dent, pc, job, x, 1) = {} /\ TasksOf(dent, pc, job, x, 2) = {}
    <3>1. \A t \in Tasks : Held(dent, pc[t], job[t], x) = 0 BY <1>1, Idle
    <3> QED BY <3>1 DEF TasksOf
  <2>3. Cardinality({}) = 0 BY FS_EmptySet
  <2> QED BY <1>1, <2>1, <2>2, <2>3 DEF Count
<1>9. Numbers
  <2> DEFINE A(i) == Cardinality({x \in LDents : ldent[x] # None /\ ldent[x].ino = i})
  <2>1. ASSUME NEW i PROVE A(i) \in Nat
    <3>1. {x \in LDents : ldent[x] # None /\ ldent[x].ino = i} \subseteq LDents OBVIOUS
    <3> QED BY <3>1, FiniteAssumption, FS_Subset, FS_CardinalityType
  <2>2. iref = [i \in Lowers |-> A(i)] BY DEF Init
  <2> HIDE DEF A
  <2>3. iref \in [Lowers -> Int] BY <2>1, <2>2
  <2> QED BY <2>3, BoundAssumption DEF Init, Numbers
<1> QED BY <1>2, <1>3, <1>4, <1>5, <1>6, <1>7, <1>8, <1>9 DEF IInv, Inv

\* Every step keeps the invariant.
LEMMA StepInv == IInv /\ [Next]_vars => IInv'
<1> SUFFICES ASSUME IInv, [Next]_vars PROVE IInv' OBVIOUS
<1>1. NowInv /\ Numbers /\ lsize \in [Lowers -> Nat] BY DEF IInv, NowInv, Numbers
<1>2. ThenInv /\ Numbers' => IInv' BY DEF ThenInv, IInv, Inv, Types, DentsOK, DentOK, UppersOK, FilesOK, FileOK,
                                          TasksOK, Distinct, Counted
<1>3. CASE UNCHANGED vars BY <1>1, <1>3 DEF IInv, vars, Numbers, Inv, Types
<1>4. CASE Next
  <2>1. Numbers' BY <1>1, <1>4, NumbersStep
  <2>2. ThenInv
    <3>1. ASSUME NEW t \in Tasks,
                 \/ trfs_lookup(t) \/ new_dentry_private_data(t) \/ LookupLower(t)
                 \/ iget5_locked(t) \/ trfs_iget(t) \/ d_splice_alias(t) \/ LookupReturn(t)
                 \/ trfs_create(t) \/ trfs_link(t) \/ RestoreSize(t) \/ CreateReturn(t)
                 \/ trfs_unlink(t) \/ VfsUnlink(t) \/ UnlinkReturn(t)
          PROVE  ThenInv
      BY <1>1, <3>1, BeginLookup, NewPrivateData, LooksUp, Igets, Grabs, Splices, LookupReturns, Creates, Links,
         Restores, CreateReturns, BeginUnlink, Unlinks, UnlinkReturns
    <3>2. ASSUME NEW t \in Tasks,
                 \/ trfs_d_revalidate(t) \/ trfs_statfs(t) \/ trfs_getattr(t) \/ trfs_setattr(t)
                 \/ trfs_setxattr(t) \/ trfs_readlink(t) \/ trfs_fsync(t)
          PROVE  ThenInv
      BY <1>1, <3>2, BeginPath
    <3>3. ASSUME NEW t \in Tasks,
                 \/ trfs_put_lower_path(t) \/ trfs_open(t) \/ OpenReturn(t) \/ trfs_mmap(t) \/ MmapReturn(t)
                 \/ trfs_write(t) \/ AioDone(t) \/ CopySize(t) \/ WriteReturn(t) \/ Truncate(t) \/ notify_change(t)
          PROVE  ThenInv
      BY <1>1, <3>3, PathReturns, BeginOpen, OpenReturns, BeginMmap, MmapReturns, BeginWrite, CopiesSize,
         WriteReturns, BeginTruncate, Notifies
    <3>4. ASSUME NEW f \in Files, trfs_file_release(f) \/ Munmap(f) PROVE ThenInv
      BY <1>1, <3>4, ReleasesFile, Unmaps
    <3>5. ASSUME NEW d \in Dents, Prune(d) PROVE ThenInv BY <1>1, <3>5, Prunes
    <3>6. ASSUME NEW x \in LDents, LowerUnlink(x) PROVE ThenInv BY <1>1, <3>6, UnlinksBelow
    <3> QED BY <1>4, <3>1, <3>2, <3>3, <3>4, <3>5, <3>6 DEF Next
  <2> QED BY <1>2, <2>1, <2>2
<1> QED BY <1>3, <1>4

\* The invariant holds.
LEMMA InvHolds == Spec => []IInv
BY InitInv, StepInv, PTL DEF Spec

\* Only a write and the end of one change the number of queued writes.
LEMMA QueuedStep ==
  ASSUME queued \in [Files -> Nat], [Next]_vars
  PROVE  queued' \in [Files -> Nat]
<1>1. CASE queued' = queued BY <1>1
<1>2. CASE UNCHANGED vars BY <1>2 DEF vars
<1>3. ASSUME NEW dn, NEW ld, NEW rf, Settle(dn, ld, rf, iref) PROVE queued' = queued BY <1>3 DEF Settle, aside
<1>4. ASSUME NEW t \in Tasks,
             \/ trfs_lookup(t) \/ LookupReturn(t) \/ CreateReturn(t) \/ UnlinkReturn(t)
             \/ trfs_put_lower_path(t) \/ OpenReturn(t) \/ MmapReturn(t) \/ WriteReturn(t)
      PROVE  queued' = queued
  BY <1>3, <1>4, Zenon DEF trfs_lookup, LookupReturn, CreateReturn, UnlinkReturn, trfs_put_lower_path, OpenReturn,
                           MmapReturn, WriteReturn
<1>5. ASSUME NEW t \in Tasks,
             \/ new_dentry_private_data(t) \/ LookupLower(t) \/ iget5_locked(t) \/ trfs_iget(t)
             \/ d_splice_alias(t) \/ trfs_create(t) \/ trfs_link(t) \/ RestoreSize(t) \/ VfsUnlink(t)
             \/ CopySize(t) \/ notify_change(t) \/ trfs_unlink(t) \/ trfs_open(t) \/ trfs_mmap(t) \/ Truncate(t)
      PROVE  queued' = queued
  BY <1>5 DEF new_dentry_private_data, LookupLower, iget5_locked, trfs_iget, d_splice_alias, trfs_create, trfs_link,
              RestoreSize, VfsUnlink, CopySize, notify_change, trfs_unlink, trfs_open, trfs_mmap, Truncate, aside
<1>6. ASSUME NEW t \in Tasks,
             \/ trfs_d_revalidate(t) \/ trfs_statfs(t) \/ trfs_getattr(t) \/ trfs_setattr(t)
             \/ trfs_setxattr(t) \/ trfs_readlink(t) \/ trfs_fsync(t)
      PROVE  queued' = queued
  BY <1>6 DEF trfs_d_revalidate, trfs_statfs, trfs_getattr, trfs_setattr, trfs_setxattr, trfs_readlink, trfs_fsync,
              PathCall, trfs_get_lower_path, aside
<1>7. ASSUME NEW t \in Tasks, trfs_write(t) PROVE queued' \in [Files -> Nat]
  <2>1. queued' = queued \/ \E f \in Files : queued' = [queued EXCEPT ![f] = @ + 1] BY <1>7 DEF trfs_write
  <2> QED BY <2>1
<1>8. ASSUME NEW t \in Tasks, AioDone(t) PROVE queued' \in [Files -> Nat]
  <2>1. PICK f \in Files : queued[f] > 0 /\ queued' = [queued EXCEPT ![f] = @ - 1] BY <1>8 DEF AioDone
  <2> QED BY <2>1
<1>9. ASSUME NEW f \in Files, trfs_file_release(f) \/ Munmap(f) PROVE queued' = queued
  BY <1>3, <1>9 DEF trfs_file_release, Munmap, aside
<1>10. ASSUME NEW d \in Dents, Prune(d) PROVE queued' = queued BY <1>3, <1>10 DEF Prune
<1>11. ASSUME NEW x \in LDents, LowerUnlink(x) PROVE queued' = queued BY <1>11 DEF LowerUnlink, aside
<1> QED BY <1>1, <1>2, <1>4, <1>5, <1>6, <1>7, <1>8, <1>9, <1>10, <1>11 DEF Next

\* A number of writes is queued for every file.
QueuedOK == queued \in [Files -> Nat]

LEMMA QueuedHolds == Spec => []QueuedOK
<1>1. Init => QueuedOK BY DEF Init, QueuedOK
<1>2. QueuedOK /\ [Next]_vars => QueuedOK' BY QueuedStep DEF QueuedOK
<1> QED BY <1>1, <1>2, PTL DEF Spec

\* All values are of their types; no count of references on a lower dentry
\* goes below zero, whatever fails and however the operations interleave.
THEOREM TypeCorrect == Spec => []TypeOK
<1>1. IInv /\ QueuedOK => TypeOK
  <2> SUFFICES ASSUME IInv, QueuedOK PROVE TypeOK OBVIOUS
  <2>1. NowInv /\ Numbers BY DEF IInv, NowInv
  <2>2. \A x \in LDents \cup Names : dref[x] \in Nat BY <2>1, CountFacts
  <2>3. dref \in [LDents \cup Names -> Nat] BY <2>1, <2>2, Now DEF Types
  <2> QED BY <2>1, <2>3, Now DEF Types, TypeOK, Numbers, UpperRecords, QueuedOK
<1> QED BY <1>1, InvHolds, QueuedHolds, PTL

\* References on lower dentries balance: what trfs holds is what its dentries,
\* its open files and the operations under way will put.
THEOREM DentriesBalance == Spec => []LowerDentriesCounted
<1>1. IInv => LowerDentriesCounted
  <2> SUFFICES ASSUME IInv, NEW x \in LDents \cup Names
               PROVE  dref[x] = Cardinality({d \in Dents : dent[d] # None /\ dent[d].lower = x})
                                + Cardinality({f \in Files : file[f] # None /\ file[f].lower = x})
                                + Cardinality({t \in Tasks : HeldByTask(t, x) >= 1})
                                + Cardinality({t \in Tasks : HeldByTask(t, x) >= 2})
    BY DEF LowerDentriesCounted
  <2>1. dref[x] = Count(dent, file, pc, job, x) BY DEF IInv, Inv, Counted
  <2>2. /\ {t \in Tasks : HeldByTask(t, x) >= 1} = TasksOf(dent, pc, job, x, 1)
        /\ {t \in Tasks : HeldByTask(t, x) >= 2} = TasksOf(dent, pc, job, x, 2)
    BY HeldIs DEF TasksOf
  <2> QED BY <2>1, <2>2 DEF Count, DentsOf, FilesOf
<1> QED BY <1>1, InvHolds, PTL

\* The lower path of a positive dentry leads to the lower inode of its inode.
THEOREM PathsLead == Spec => []PathsAgree
<1>1. IInv => PathsAgree
  <2> SUFFICES ASSUME IInv, NEW d \in Dents, Positive(d)
               PROVE  /\ dent[d].info /\ dent[d].lower # None
                      /\ ldent[dent[d].lower] # None
                      /\ upper[dent[d].inode].state = "live"
                      /\ ldent[dent[d].lower].ino = upper[dent[d].inode].lower
    BY DEF PathsAgree
  <2> QED BY DEF IInv, Inv, DentsOK, DentOK, Positive
<1> QED BY <1>1, InvHolds, PTL

\* A file that is mapped has the operations of the lower mapping.
THEOREM FaultsFind == Spec => []FaultFindsOps
<1>1. IInv => FaultFindsOps BY DEF IInv, Inv, FilesOK, FileOK, FaultFindsOps, FaultBug
<1> QED BY <1>1, InvHolds, PTL


=============================================================================
