--------------------------- MODULE TrfsOpsProofs ---------------------------
(***************************************************************************)
(* Proofs about TrfsOps: types, the order of the records in the log, and   *)
(* the names of the upper dentries.                                        *)
(***************************************************************************)
EXTENDS TrfsOps, SequenceTheorems, TLAPS

ControlType ==
  /\ lock \in [Dents -> Tasks \cup {NoTask}]
  /\ pc \in [Tasks -> {"idle", "log", "ret", "oops"}]
  /\ op \in [Tasks -> OpRecords]
  /\ log \in Seq(LogRecords)
  /\ nops \in 0 .. MaxOps

TreeType ==
  /\ kind \in [Dents -> {"free", "file", "dir", "symlink", "dev"}]
  /\ ino \in [Dents -> Dents]
  /\ lo \in [Dents -> Locs \cup {None}]
  /\ up \in [Dents -> Locs \cup {None}]
  /\ hashed \subseteq Dents \ {Root}
  /\ data \in [Dents -> Seq(1 .. MaxOps)]
  /\ fd \in [Tasks -> [d : Dents, pos : Nat, append : BOOLEAN] \cup {None}]

\* The directory of a place is the root or has a place itself.
Placed(l) == l.par = Root \/ up[l.par] \in Locs

\* Every dentry that a lookup finds or a task has open has a place, and so has
\* every directory on the way to it; the root stays a directory.
PlaceInv ==
  /\ \A d \in hashed : up[d] \in Locs
  /\ \A d \in Dents : up[d] \in Locs => Placed(up[d])
  /\ \A t \in Tasks : fd[t] # None => up[fd[t].d] \in Locs
  /\ kind[Root] = "dir"

PathTypes == {"FWRITE", "LINK", "RENAME"}

\* The operation a task runs has the places that its record will name.
OpInv == \A t \in Tasks :
  /\ op[t].loc \in Locs => Placed(op[t].loc)
  /\ op[t].loc2 \in Locs => Placed(op[t].loc2)
  /\ op[t].type = "RENAME" => op[t].loc2 \in Locs
  /\ pc[t] = "log" =>
       /\ op[t].type \in RecTypes
       /\ op[t].type \in PathTypes => up[op[t].d] \in Locs
       /\ op[t].type \notin PathTypes => op[t].loc \in Locs
       /\ op[t].type = "FWRITE" => fd[t] # None

TreeInv == ControlType /\ TreeType /\ PlaceInv /\ OpInv

\* The parts make up the type invariant.
LEMMA TypeParts == TypeOK <=> ControlType /\ TreeType
BY Zenon DEF TypeOK, ControlType, TreeType

\* A dentry that has a place keeps having one.
UpGrows == \A d \in Dents : up[d] \in Locs => up'[d] \in Locs

\* Placed, in the next state.
PlacedNext(l) == l.par = Root \/ up'[l.par] \in Locs

\* What was placed stays placed.
LEMMA PlacedStays ==
  ASSUME TreeType, UpGrows
  PROVE  \A l \in Locs : Placed(l) => PlacedNext(l)
BY DEF TreeType, UpGrows, Placed, PlacedNext, Locs

\* The arguments with which every operation begins: they have their types, and
\* the record's places are placed.
BeginArgs(t, type, d, loc, loc2, held, err, next) ==
  /\ type \in RecTypes \cup {"none"} /\ d \in Dents
  /\ loc \in Locs \cup {None} /\ loc2 \in Locs \cup {None}
  /\ held \in SUBSET Dents /\ err \in {0, -1} /\ next \in {"log", "ret", "oops"}
  /\ loc \in Locs => Placed(loc)
  /\ loc2 \in Locs => Placed(loc2)
  /\ type = "RENAME" => loc2 \in Locs
  /\ next = "log" => /\ type \in RecTypes
                     /\ type \in PathTypes => up[d] \in Locs
                     /\ type \notin PathTypes => loc \in Locs
                     /\ type = "FWRITE" => fd[t] # None

\* The step leaves every open file open and opens none.
SameOpen == \A u \in Tasks : fd'[u] # None <=> fd[u] # None

\* Begin with such arguments keeps the control state typed and OpInv.
LEMMA BeginType ==
  ASSUME TreeInv, UpGrows, SameOpen, NEW t \in Tasks,
         NEW type, NEW d, NEW loc, NEW loc2, NEW held, NEW err, NEW next,
         Begin(t, type, d, loc, loc2, held, err, next),
         BeginArgs(t, type, d, loc, loc2, held, err, next)
  PROVE  ControlType' /\ OpInv'
<1> USE DEF BeginArgs, SameOpen
<1> DEFINE o == [type |-> type, d |-> d, loc |-> loc, loc2 |-> loc2,
                 held |-> held, seq |-> nops + 1, err |-> err]
<1>1. /\ pc[t] = "idle" /\ nops < MaxOps
      /\ lock' = [x \in Dents |-> IF x \in held THEN t ELSE lock[x]]
      /\ nops' = nops + 1
      /\ op' = [op EXCEPT ![t] = o]
      /\ pc' = [pc EXCEPT ![t] = next]
      /\ log' = log
  BY DEF Begin
<1>2. o \in OpRecords
  BY <1>1, BoundAssumption DEF OpRecords, TreeInv, ControlType
<1>3. /\ o.loc = loc /\ o.loc2 = loc2 /\ o.type = type /\ o.d = d
  OBVIOUS
<1> HIDE DEF o
<1>4. ControlType'
  BY <1>1, <1>2, BoundAssumption DEF TreeInv, ControlType
<1>5. ASSUME NEW u \in Tasks, u # t PROVE op'[u] = op[u] /\ pc'[u] = pc[u]
  BY <1>1, <1>5 DEF TreeInv, ControlType
<1>6. op'[t] = o /\ pc'[t] = next
  BY <1>1 DEF TreeInv, ControlType
<1>7. TreeType
  BY DEF TreeInv
<1>8. \A l \in Locs : Placed(l) => PlacedNext(l)
  BY <1>7, PlacedStays
<1>9. ASSUME NEW u \in Tasks
      PROVE /\ op[u].loc \in Locs => Placed(op[u].loc)
            /\ op[u].loc2 \in Locs => Placed(op[u].loc2)
            /\ op[u].type = "RENAME" => op[u].loc2 \in Locs
            /\ op[u].d \in Dents
            /\ pc[u] = "log" =>
                 /\ op[u].type \in RecTypes
                 /\ op[u].type \in PathTypes => up[op[u].d] \in Locs
                 /\ op[u].type \notin PathTypes => op[u].loc \in Locs
                 /\ op[u].type = "FWRITE" => fd[u] # None
  BY DEF TreeInv, OpInv, ControlType, OpRecords
<1>10. ASSUME NEW u \in Tasks
       PROVE  /\ op'[u].loc \in Locs => PlacedNext(op'[u].loc)
              /\ op'[u].loc2 \in Locs => PlacedNext(op'[u].loc2)
              /\ op'[u].type = "RENAME" => op'[u].loc2 \in Locs
              /\ pc'[u] = "log" =>
                   /\ op'[u].type \in RecTypes
                   /\ op'[u].type \in PathTypes => up'[op'[u].d] \in Locs
                   /\ op'[u].type \notin PathTypes => op'[u].loc \in Locs
                   /\ op'[u].type = "FWRITE" => fd'[u] # None
  <2>1. CASE u = t
    BY <2>1, <1>3, <1>6, <1>8 DEF UpGrows
  <2>2. CASE u # t
    BY <2>2, <1>5, <1>9, <1>8 DEF UpGrows
  <2> QED BY <2>1, <2>2
<1> QED BY <1>4, <1>10 DEF OpInv, Placed, PlacedNext

\* PlaceInv survives a step that only adds places, each in a placed directory.
LEMMA PlaceStep ==
  ASSUME TreeInv, TreeType',
         \A x \in Dents : up'[x] = up[x] \/ (up'[x] \in Locs /\ Placed(up'[x])),
         \A x \in hashed' : x \in hashed \/ up'[x] \in Locs,
         \A u \in Tasks : fd'[u] # None => up[fd'[u].d] \in Locs,
         kind'[Root] = "dir"
  PROVE  PlaceInv' /\ UpGrows
<1>1. TreeType /\ PlaceInv
  BY DEF TreeInv
<1>2. UpGrows
  BY DEF UpGrows
<1>3. \A l \in Locs : Placed(l) => PlacedNext(l)
  BY <1>1, <1>2, PlacedStays
<1>4. \A x \in hashed' : up'[x] \in Locs
  BY <1>1, <1>2 DEF TreeType, PlaceInv, UpGrows
<1>5. \A x \in Dents : up'[x] \in Locs => PlacedNext(up'[x])
  BY <1>1, <1>3 DEF PlaceInv
<1>6. \A u \in Tasks : fd'[u] # None => up'[fd'[u].d] \in Locs
  BY <1>2 DEF UpGrows, TreeType
<1> QED BY <1>2, <1>4, <1>5, <1>6 DEF PlaceInv, Placed, PlacedNext

\* A directory that a lookup finds places what is made in it.
LEMMA DirPlaces ==
  ASSUME TreeInv, NEW dir \in Dirs, NEW n \in Names
  PROVE  dir \in Dents /\ Loc(dir, n) \in Locs /\ Placed(Loc(dir, n)) /\ Loc(dir, n) # None
BY RootAssumption, NoneAssumption DEF TreeInv, TreeType, PlaceInv, Dirs, Loc, Locs, Placed

\* create, mkdir, symlink and mknod keep the invariant.
LEMMA MakeNodeStep ==
  ASSUME TreeInv, NEW t \in Tasks, NEW k \in {"file", "dir", "symlink", "dev"},
         NEW type \in (RecTypes \cup {"none"}) \ PathTypes,
         NEW next \in {"log", "ret", "oops"}, NEW onerr \in {"log", "ret", "oops"},
         type = "none" => next # "log" /\ onerr # "log",
         MakeNode(t, k, type, next, onerr)
  PROVE  TreeInv'
<1>0. TreeType /\ PlaceInv /\ None \in Locs \cup {None}
  BY DEF TreeInv
<1>1. PICK dir \in Dirs, n \in Names, d \in Free :
        LET loc == Loc(dir, n) IN
        /\ UNCHANGED <<ino, data, fd>>
        /\ \/ /\ Begin(t, type, d, loc, None, {dir}, 0, next)
              /\ kind' = [kind EXCEPT ![d] = k]
              /\ lo' = [lo EXCEPT ![d] = loc]
              /\ up' = [up EXCEPT ![d] = loc]
              /\ hashed' = hashed \cup {d}
           \/ /\ Begin(t, type, d, loc, None, {dir}, -1, onerr)
              /\ kind' = [kind EXCEPT ![d] = k]
              /\ lo' = [lo EXCEPT ![d] = loc]
              /\ UNCHANGED <<up, hashed>>
           \/ /\ Begin(t, type, d, loc, None, {dir}, -1, onerr)
              /\ UNCHANGED <<kind, lo, up, hashed>>
  BY DEF MakeNode
<1> DEFINE loc == Loc(dir, n)
<1>2. dir \in Dents /\ loc \in Locs /\ Placed(loc) /\ loc # None
  BY DirPlaces
<1>3. d \in Dents
  BY DEF Free
<1> HIDE DEF loc
<1>4. None \notin Locs
  BY NoneAssumption DEF Locs
<1>b. d # Root
  BY DEF Free, TreeInv, PlaceInv
<1>c. ASSUME NEW err \in {0, -1}, NEW nx \in {next, onerr}
      PROVE  BeginArgs(t, type, d, loc, None, {dir}, err, nx)
  BY <1>2, <1>3, <1>4 DEF BeginArgs, PathTypes
<1>d. SameOpen
  BY <1>1 DEF SameOpen
<1>5. CASE /\ Begin(t, type, d, loc, None, {dir}, 0, next)
           /\ kind' = [kind EXCEPT ![d] = k]
           /\ lo' = [lo EXCEPT ![d] = loc]
           /\ up' = [up EXCEPT ![d] = loc]
           /\ hashed' = hashed \cup {d}
  <2>2. TreeType'
    BY <1>0, <1>1, <1>2, <1>3, <1>5, <1>b DEF TreeType
  <2>3. PlaceInv' /\ UpGrows
    BY <2>2, <1>0, <1>1, <1>2, <1>3, <1>5, <1>b, PlaceStep DEF TreeType, PlaceInv
  <2>4. BeginArgs(t, type, d, loc, None, {dir}, 0, next)
    BY <1>c
  <2>5. ControlType' /\ OpInv'
    BY <2>3, <2>4, <1>5, <1>d, BeginType
  <2> QED BY <2>2, <2>3, <2>5 DEF TreeInv
<1>6. CASE /\ Begin(t, type, d, loc, None, {dir}, -1, onerr)
           /\ kind' = [kind EXCEPT ![d] = k]
           /\ lo' = [lo EXCEPT ![d] = loc]
           /\ UNCHANGED <<up, hashed>>
  <2>2. TreeType'
    BY <1>0, <1>1, <1>2, <1>3, <1>6 DEF TreeType
  <2>3. PlaceInv' /\ UpGrows
    BY <2>2, <1>0, <1>1, <1>3, <1>6, <1>b, PlaceStep DEF TreeType, PlaceInv
  <2>4. BeginArgs(t, type, d, loc, None, {dir}, -1, onerr)
    BY <1>c
  <2>5. ControlType' /\ OpInv'
    BY <2>3, <2>4, <1>6, <1>d, BeginType
  <2> QED BY <2>2, <2>3, <2>5 DEF TreeInv
<1>7. CASE /\ Begin(t, type, d, loc, None, {dir}, -1, onerr)
           /\ UNCHANGED <<kind, lo, up, hashed>>
  <2>2. TreeType'
    BY <1>0, <1>1, <1>7 DEF TreeType
  <2>3. PlaceInv' /\ UpGrows
    BY <2>2, <1>0, <1>1, <1>7, PlaceStep DEF TreeType, PlaceInv
  <2>4. BeginArgs(t, type, d, loc, None, {dir}, -1, onerr)
    BY <1>c
  <2>5. ControlType' /\ OpInv'
    BY <2>3, <2>4, <1>7, <1>d, BeginType
  <2> QED BY <2>2, <2>3, <2>5 DEF TreeInv
<1> QED BY <1>1, <1>5, <1>6, <1>7 DEF loc

\* A step that begins an operation and gives no dentry a place keeps the
\* invariant.
LEMMA QuietStep ==
  ASSUME TreeInv, SameOpen, NEW t \in Tasks,
         NEW type, NEW d, NEW loc, NEW loc2, NEW held, NEW err, NEW next,
         Begin(t, type, d, loc, loc2, held, err, next),
         BeginArgs(t, type, d, loc, loc2, held, err, next),
         UNCHANGED <<kind, ino, up>>,
         hashed' \subseteq hashed,
         lo' \in [Dents -> Locs \cup {None}],
         data' \in [Dents -> Seq(1 .. MaxOps)],
         fd' \in [Tasks -> [d : Dents, pos : Nat, append : BOOLEAN] \cup {None}],
         \A u \in Tasks : fd'[u] # None => fd'[u].d = fd[u].d
  PROVE  TreeInv'
<1>1. TreeType'
  BY DEF TreeInv, TreeType
<1>2. PlaceInv' /\ UpGrows
  BY <1>1, PlaceStep DEF TreeInv, PlaceInv, SameOpen
<1>3. ControlType' /\ OpInv'
  BY <1>2, BeginType
<1> QED BY <1>1, <1>2, <1>3 DEF TreeInv

\* What PlaceInv and TreeType say of a dentry that a lookup finds.
LEMMA HashedPlace ==
  ASSUME TreeInv, NEW d \in hashed
  PROVE  /\ d \in Dents /\ d # Root /\ up[d] \in Locs /\ Placed(up[d])
         /\ up[d].par \in Dents /\ ino[d] \in Dents /\ lo[d] \in Locs \cup {None}
         /\ None \notin Locs
BY NoneAssumption DEF TreeInv, TreeType, PlaceInv, Locs

\* unlink keeps the invariant.
LEMMA UnlinkStep ==
  ASSUME TreeInv, NEW t \in Tasks, Unlink(t)
  PROVE  TreeInv'
<1>1. PICK d \in hashed, err \in {0, -1} :
        /\ UNCHANGED <<kind, ino, up, data, fd>>
        /\ Begin(t, "UNLINK", d, up[d], None, {up[d].par, ino[d]}, err, "log")
        /\ lo' = [lo EXCEPT ![d] = None] \/ lo' = lo
        /\ hashed' \subseteq hashed
  BY DEF Unlink
<1>2. BeginArgs(t, "UNLINK", d, up[d], None, {up[d].par, ino[d]}, err, "log")
  BY HashedPlace DEF BeginArgs, PathTypes, RecTypes
<1>3. SameOpen /\ lo' \in [Dents -> Locs \cup {None}]
  BY <1>1, HashedPlace DEF SameOpen, TreeInv, TreeType
<1> QED BY <1>1, <1>2, <1>3, QuietStep DEF TreeInv, TreeType

\* rmdir keeps the invariant.
LEMMA RmdirStep ==
  ASSUME TreeInv, NEW t \in Tasks, Rmdir(t)
  PROVE  TreeInv'
<1>1. PICK d \in hashed, err \in {0, -1} :
        /\ UNCHANGED <<kind, ino, up, data, fd>>
        /\ Begin(t, "UNLINK", d, up[d], None, {up[d].par, d}, err, "log")
        /\ lo' = [lo EXCEPT ![d] = None] \/ lo' = lo
        /\ hashed' \subseteq hashed
  BY DEF Rmdir
<1>2. BeginArgs(t, "UNLINK", d, up[d], None, {up[d].par, d}, err, "log")
  BY HashedPlace DEF BeginArgs, PathTypes, RecTypes
<1>3. SameOpen /\ lo' \in [Dents -> Locs \cup {None}]
  BY <1>1, HashedPlace DEF SameOpen, TreeInv, TreeType
<1> QED BY <1>1, <1>2, <1>3, QuietStep DEF TreeInv, TreeType

\* link keeps the invariant.
LEMMA LinkStep ==
  ASSUME TreeInv, NEW t \in Tasks, Link(t)
  PROVE  TreeInv'
<1>1. PICK d \in hashed, dir \in Dirs, n \in Names, e \in Free :
        LET loc == Loc(dir, n) IN
        /\ UNCHANGED <<data, fd>>
        /\ \/ /\ Begin(t, "LINK", d, up[d], loc, {dir, ino[d]}, 0, "log")
              /\ kind' = [kind EXCEPT ![e] = kind[d]]
              /\ ino' = [ino EXCEPT ![e] = ino[d]]
              /\ lo' = [lo EXCEPT ![e] = loc]
              /\ up' = [up EXCEPT ![e] = loc]
              /\ hashed' = hashed \cup {e}
           \/ /\ Begin(t, "LINK", d, up[d], loc, {dir, ino[d]}, -1, "log")
              /\ UNCHANGED <<kind, ino, lo, up, hashed>>
  BY DEF Link
<1> DEFINE loc == Loc(dir, n)
<1>2. dir \in Dents /\ loc \in Locs /\ Placed(loc)
  BY DirPlaces
<1>3. e \in Dents /\ e # Root
  BY DEF Free, TreeInv, PlaceInv
<1> HIDE DEF loc
<1>4. ASSUME NEW err \in {0, -1}
      PROVE  BeginArgs(t, "LINK", d, up[d], loc, {dir, ino[d]}, err, "log")
  BY <1>2, HashedPlace DEF BeginArgs, PathTypes, RecTypes
<1>5. SameOpen
  BY <1>1 DEF SameOpen
<1>6. CASE /\ Begin(t, "LINK", d, up[d], loc, {dir, ino[d]}, 0, "log")
           /\ kind' = [kind EXCEPT ![e] = kind[d]]
           /\ ino' = [ino EXCEPT ![e] = ino[d]]
           /\ lo' = [lo EXCEPT ![e] = loc]
           /\ up' = [up EXCEPT ![e] = loc]
           /\ hashed' = hashed \cup {e}
  <2>1. TreeType'
    BY <1>1, <1>2, <1>3, <1>6, HashedPlace DEF TreeInv, TreeType
  <2>2. PlaceInv' /\ UpGrows
    BY <2>1, <1>1, <1>2, <1>3, <1>6, PlaceStep DEF TreeInv, TreeType, PlaceInv
  <2>3. BeginArgs(t, "LINK", d, up[d], loc, {dir, ino[d]}, 0, "log")
    BY <1>4
  <2>4. ControlType' /\ OpInv'
    BY <2>2, <2>3, <1>5, <1>6, BeginType
  <2> QED BY <2>1, <2>2, <2>4 DEF TreeInv
<1>7. CASE /\ Begin(t, "LINK", d, up[d], loc, {dir, ino[d]}, -1, "log")
           /\ UNCHANGED <<kind, ino, lo, up, hashed>>
  <2>1. BeginArgs(t, "LINK", d, up[d], loc, {dir, ino[d]}, -1, "log")
    BY <1>4
  <2> QED BY <2>1, <1>1, <1>5, <1>7, QuietStep DEF TreeInv, TreeType
<1> QED BY <1>1, <1>6, <1>7 DEF loc

\* The locks that rename holds: the two directories, what it replaces, and the
\* file it moves.
RenameHeld(d, dir, n) ==
  {up[d].par, dir} \cup {ino[x] : x \in UpperChild(Loc(dir, n))} \cup (IF kind[d] = "dir" THEN {} ELSE {ino[d]})

\* rename keeps the invariant.
LEMMA RenameStep ==
  ASSUME TreeInv, NEW t \in Tasks, Rename(t)
  PROVE  TreeInv'
<1>1. PICK d \in hashed, dir \in Dirs, n \in Names, err \in {0, -1} :
        /\ UNCHANGED <<kind, ino, up, hashed, data, fd>>
        /\ Begin(t, "RENAME", d, up[d], Loc(dir, n), RenameHeld(d, dir, n), err, "log")
        /\ \/ lo' = [x \in Dents |-> IF x = d THEN Loc(dir, n)
                                     ELSE IF lo[x] = Loc(dir, n) THEN None ELSE lo[x]]
           \/ lo' = lo
  BY DEF Rename, RenameHeld
<1>2. dir \in Dents /\ Loc(dir, n) \in Locs /\ Placed(Loc(dir, n))
  BY DirPlaces
<1>3. RenameHeld(d, dir, n) \in SUBSET Dents
  BY <1>2, HashedPlace DEF RenameHeld, UpperChild, TreeInv, TreeType
<1>4. BeginArgs(t, "RENAME", d, up[d], Loc(dir, n), RenameHeld(d, dir, n), err, "log")
  BY <1>2, <1>3, HashedPlace DEF BeginArgs, PathTypes, RecTypes
<1>5. SameOpen /\ lo' \in [Dents -> Locs \cup {None}]
  BY <1>1, <1>2, HashedPlace DEF SameOpen, TreeInv, TreeType
<1> QED BY <1>1, <1>4, <1>5, QuietStep DEF TreeInv, TreeType

\* A unit put into a file's contents leaves a sequence of units.
LEMMA PutType ==
  ASSUME NEW s \in Seq(1 .. MaxOps), NEW pos \in Nat, NEW x \in 1 .. MaxOps
  PROVE  Put(s, pos, x) \in Seq(1 .. MaxOps)
<1>1. CASE pos < Len(s)
  <2>1. pos + 1 \in 1 .. Len(s)
    BY <1>1
  <2>2. [s EXCEPT ![pos + 1] = x] \in Seq(1 .. MaxOps)
    BY <2>1, ExceptSeq
  <2> QED BY <2>2, <1>1 DEF Put
<1>2. CASE ~(pos < Len(s))
  BY <1>2 DEF Put
<1> QED BY <1>1, <1>2

\* A file that a task has open is placed and has an inode.
LEMMA OpenPlace ==
  ASSUME TreeInv, NEW t \in Tasks, fd[t] # None
  PROVE  /\ fd[t] \in [d : Dents, pos : Nat, append : BOOLEAN]
         /\ fd[t].d \in Dents /\ up[fd[t].d] \in Locs /\ ino[fd[t].d] \in Dents
         /\ None \notin Locs
BY NoneAssumption DEF TreeInv, TreeType, PlaceInv, Locs

\* write and writev keep the invariant.
LEMMA LowerWriteStep ==
  ASSUME TreeInv, NEW t \in Tasks, NEW type, NEW next,
         <<type, next>> \in {<<"FWRITE", "log">>, <<"none", "ret">>},
         LowerWrite(t, type, next)
  PROVE  TreeInv'
<1> DEFINE i   == ino[fd[t].d]
           pos == IF fd[t].append THEN Len(data[i]) ELSE fd[t].pos
<1>1. /\ fd[t] # None
      /\ UNCHANGED <<kind, ino, lo, up, hashed>>
      /\ \/ /\ Begin(t, type, fd[t].d, None, None, {}, 0, next)
            /\ data' = [data EXCEPT ![i] = Put(@, pos, nops + 1)]
            /\ fd' = [fd EXCEPT ![t].pos = pos + 1]
         \/ /\ Begin(t, type, fd[t].d, None, None, {}, -1, next)
            /\ UNCHANGED <<data, fd>>
  BY DEF LowerWrite
<1>2. ASSUME NEW err \in {0, -1}
      PROVE  BeginArgs(t, type, fd[t].d, None, None, {}, err, next)
  BY <1>1, OpenPlace DEF BeginArgs, PathTypes, RecTypes
<1>3. CASE /\ Begin(t, type, fd[t].d, None, None, {}, 0, next)
           /\ data' = [data EXCEPT ![i] = Put(@, pos, nops + 1)]
           /\ fd' = [fd EXCEPT ![t].pos = pos + 1]
  <2>1. nops + 1 \in 1 .. MaxOps
    BY <1>3, BoundAssumption DEF Begin, TreeInv, ControlType
  <2>2. i \in Dents /\ data[i] \in Seq(1 .. MaxOps) /\ pos \in Nat
    BY <1>1, OpenPlace DEF TreeInv, TreeType
  <2> HIDE DEF i, pos
  <2>3. Put(data[i], pos, nops + 1) \in Seq(1 .. MaxOps)
    BY <2>1, <2>2, PutType
  <2>4. data' \in [Dents -> Seq(1 .. MaxOps)]
    BY <2>2, <2>3, <1>3 DEF TreeInv, TreeType
  <2>5. fd' = [fd EXCEPT ![t] = [fd[t] EXCEPT !.pos = pos + 1]]
    BY <1>3
  <2>6. /\ [fd[t] EXCEPT !.pos = pos + 1] \in [d : Dents, pos : Nat, append : BOOLEAN]
        /\ [fd[t] EXCEPT !.pos = pos + 1].d = fd[t].d
    BY <2>2, <1>1, OpenPlace
  <2>7. fd' \in [Tasks -> [d : Dents, pos : Nat, append : BOOLEAN] \cup {None}]
    BY <2>5, <2>6 DEF TreeInv, TreeType
  <2>8. SameOpen
    BY <2>5, <2>6, <1>1, NoneAssumption DEF SameOpen, TreeInv, TreeType
  <2>9. \A u \in Tasks : fd'[u] # None => fd'[u].d = fd[u].d
    BY <2>5, <2>6 DEF TreeInv, TreeType
  <2>10. BeginArgs(t, type, fd[t].d, None, None, {}, 0, next)
    BY <1>2
  <2> QED BY <2>4, <2>7, <2>8, <2>9, <2>10, <1>1, <1>3, QuietStep DEF TreeInv, TreeType
<1>4. CASE /\ Begin(t, type, fd[t].d, None, None, {}, -1, next)
           /\ UNCHANGED <<data, fd>>
  <2>1. BeginArgs(t, type, fd[t].d, None, None, {}, -1, next)
    BY <1>2
  <2>2. SameOpen
    BY <1>4 DEF SameOpen
  <2> QED BY <2>1, <2>2, <1>1, <1>4, QuietStep DEF TreeInv, TreeType
<1> QED BY <1>1, <1>3, <1>4

\* open and close keep the invariant: the task has no operation under way.
LEMMA OpenCloseStep ==
  ASSUME TreeInv, NEW t \in Tasks, Open(t) \/ Close(t)
  PROVE  TreeInv'
<1>1. PICK f : /\ pc[t] = "idle"
               /\ fd' = [fd EXCEPT ![t] = f]
               /\ \/ f = None
                  \/ /\ f \in [d : Dents, pos : Nat, append : BOOLEAN]
                     /\ f.d \in hashed
               /\ UNCHANGED <<trees, lock, pc, op, log, nops>>
  <2>1. CASE Close(t)
    BY <2>1 DEF Close
  <2>2. CASE Open(t)
    <3>1. PICK d \in hashed, a \in AppendModes :
            fd' = [fd EXCEPT ![t] = [d |-> d, pos |-> 0, append |-> a]]
      BY <2>2 DEF Open
    <3>2. d \in Dents /\ a \in BOOLEAN
      BY SwitchAssumption DEF TreeInv, TreeType
    <3>3. /\ [d |-> d, pos |-> 0, append |-> a] \in [d : Dents, pos : Nat, append : BOOLEAN]
          /\ [d |-> d, pos |-> 0, append |-> a].d \in hashed
      BY <3>2
    <3> QED BY <3>1, <3>3, <2>2 DEF Open
  <2> QED BY <2>1, <2>2
<1>2. TreeType'
  BY <1>1 DEF TreeInv, TreeType, trees
<1>3. PlaceInv' /\ UpGrows
  BY <1>1, <1>2, PlaceStep DEF TreeInv, TreeType, PlaceInv, trees
<1>4. OpInv'
  BY <1>1 DEF TreeInv, TreeType, OpInv, Placed, trees
<1>5. ControlType'
  BY <1>1 DEF TreeInv, ControlType
<1> QED BY <1>2, <1>3, <1>4, <1>5 DEF TreeInv

\* The path of a placed location is a sequence of names.
LEMMA PathType ==
  ASSUME TreeType, NEW l \in Locs, Placed(l)
  PROVE  PathOf(l) \in Seq(Names)
<1>1. CASE l.par = Root
  BY <1>1 DEF PathOf, Locs
<1>2. CASE l.par # Root
  BY <1>2 DEF PathOf, Locs, Placed
<1> QED BY <1>1, <1>2

\* The logging tail keeps the invariant: its record has well-formed paths.
LEMMA LogRecordStep ==
  ASSUME TreeInv, NEW t \in Tasks, LogRecord(t)
  PROVE  TreeInv'
<1> DEFINE o   == op[t]
           loc == IF o.type \in PathTypes THEN up[o.d] ELSE o.loc
           aux == IF o.loc2 = None THEN <<>> ELSE PathOf(o.loc2)
           app == o.type = "FWRITE" /\ fd[t].append
           r   == [type |-> o.type, path |-> PathOf(loc), aux |-> aux, append |-> app,
                   err |-> o.err, seq |-> o.seq, held |-> o.held]
<1>1. /\ pc[t] = "log" /\ log' = Append(log, r) /\ pc' = [pc EXCEPT ![t] = "ret"]
      /\ UNCHANGED <<trees, fd, lock, op, nops>>
  BY DEF LogRecord, PathTypes
<1>2. TreeType /\ o \in OpRecords
  BY DEF TreeInv, ControlType
<1>3. loc \in Locs /\ Placed(loc) /\ o.type \in RecTypes
  BY <1>1, <1>2 DEF TreeInv, OpInv, PlaceInv, OpRecords
<1>4. PathOf(loc) \in Seq(Names)
  BY <1>2, <1>3, PathType
<1>5. aux \in Seq(Names)
  <2>1. CASE o.loc2 = None
    BY <2>1
  <2>2. CASE o.loc2 # None
    <3>1. o.loc2 \in Locs /\ Placed(o.loc2)
      BY <2>2, <1>2 DEF OpRecords, TreeInv, OpInv
    <3> QED BY <3>1, <2>2, <1>2, PathType
  <2> QED BY <2>1, <2>2
<1>6. app \in BOOLEAN
  OBVIOUS
<1>7. o.err \in {0, -1} /\ o.seq \in 0 .. MaxOps /\ o.held \in SUBSET Dents
  BY <1>2 DEF OpRecords
<1>8. r \in LogRecords
  <2> HIDE DEF o, aux, app, loc
  <2> QED BY <1>3, <1>4, <1>5, <1>6, <1>7 DEF LogRecords
<1> HIDE DEF r
<1>9. ControlType'
  BY <1>1, <1>8 DEF TreeInv, ControlType
<1>10. TreeType' /\ PlaceInv'
  BY <1>1 DEF TreeInv, TreeType, PlaceInv, Placed, trees
<1>11. OpInv'
  BY <1>1 DEF TreeInv, ControlType, OpInv, Placed, trees
<1> QED BY <1>9, <1>10, <1>11 DEF TreeInv

\* The return keeps the invariant, the d_move of a rename included.
LEMMA ReturnStep ==
  ASSUME TreeInv, NEW t \in Tasks, Return(t)
  PROVE  TreeInv'
<1> DEFINE o == op[t]
           moved == o.type = "RENAME" /\ o.err = 0
<1>1. /\ up' = IF moved THEN [up EXCEPT ![o.d] = o.loc2] ELSE up
      /\ hashed' = IF moved THEN hashed \ UpperChild(o.loc2) ELSE hashed
      /\ lock' = [x \in Dents |-> IF x \in o.held THEN NoTask ELSE lock[x]]
      /\ op' = [op EXCEPT ![t] = NoOp]
      /\ pc' = [pc EXCEPT ![t] = "idle"]
      /\ UNCHANGED <<kind, ino, lo, data, fd, log, nops>>
  BY DEF Return
<1>2. o \in OpRecords /\ o.d \in Dents
      /\ (moved => o.loc2 \in Locs /\ Placed(o.loc2))
  BY DEF TreeInv, ControlType, OpInv, OpRecords
<1>3. NoOp \in OpRecords /\ NoOp.loc = None /\ NoOp.loc2 = None /\ NoOp.type = "none"
  BY RootAssumption, BoundAssumption DEF NoOp, OpRecords
<1>4. None \notin Locs
  BY NoneAssumption DEF Locs
<1> HIDE DEF o, moved
<1>5. TreeType'
  BY <1>1, <1>2 DEF TreeInv, TreeType
<1>6. PlaceInv' /\ UpGrows
  BY <1>1, <1>2, <1>5, PlaceStep DEF TreeInv, TreeType, PlaceInv
<1>7. ControlType'
  BY <1>1, <1>3 DEF TreeInv, ControlType
<1>8. \A l \in Locs : Placed(l) => PlacedNext(l)
  BY <1>6, PlacedStays DEF TreeInv
<1>9. ASSUME NEW u \in Tasks
      PROVE  /\ op'[u].loc \in Locs => PlacedNext(op'[u].loc)
             /\ op'[u].loc2 \in Locs => PlacedNext(op'[u].loc2)
             /\ op'[u].type = "RENAME" => op'[u].loc2 \in Locs
             /\ pc'[u] = "log" =>
                  /\ op'[u].type \in RecTypes
                  /\ op'[u].type \in PathTypes => up'[op'[u].d] \in Locs
                  /\ op'[u].type \notin PathTypes => op'[u].loc \in Locs
                  /\ op'[u].type = "FWRITE" => fd'[u] # None
  <2>1. CASE u = t
    BY <2>1, <1>1, <1>3, <1>4 DEF TreeInv, ControlType
  <2>2. CASE u # t
    <3>1. op'[u] = op[u] /\ pc'[u] = pc[u] /\ fd'[u] = fd[u] /\ op[u].d \in Dents
      BY <2>2, <1>1 DEF TreeInv, ControlType, OpRecords
    <3> QED BY <3>1, <1>6, <1>8 DEF TreeInv, OpInv, UpGrows
  <2> QED BY <2>1, <2>2
<1> QED BY <1>5, <1>6, <1>7, <1>9 DEF TreeInv, OpInv, Placed, PlacedNext

\* The initial state satisfies the invariant.
LEMMA TreeInit == Init => TreeInv
<1> SUFFICES ASSUME Init PROVE TreeInv
  OBVIOUS
<1>1. NoOp \in OpRecords /\ NoOp.loc = None /\ NoOp.loc2 = None /\ NoOp.type = "none"
  BY RootAssumption, BoundAssumption DEF NoOp, OpRecords
<1>2. None \notin Locs
  BY NoneAssumption DEF Locs
<1>3. ControlType
  BY <1>1, BoundAssumption DEF Init, ControlType
<1>4. TreeType
  BY RootAssumption DEF Init, TreeType
<1>5. PlaceInv
  BY <1>2, RootAssumption DEF Init, PlaceInv
<1>6. OpInv
  BY <1>1, <1>2 DEF Init, OpInv
<1> QED BY <1>3, <1>4, <1>5, <1>6 DEF TreeInv

\* Every step keeps the invariant.
LEMMA TreeNext == TreeInv /\ [Next]_vars => TreeInv'
<1> SUFFICES ASSUME TreeInv, [Next]_vars PROVE TreeInv'
  OBVIOUS
<1>1. CASE UNCHANGED vars
  BY <1>1 DEF vars, TreeInv, ControlType, TreeType, PlaceInv, OpInv, Placed
<1>2. CASE Next
  <2>1. PICK t \in Tasks :
          \/ Create(t) \/ Mkdir(t) \/ Symlink(t) \/ Mknod(t)
          \/ Unlink(t) \/ Rmdir(t) \/ Link(t) \/ Rename(t)
          \/ Open(t) \/ Close(t) \/ Write(t) \/ WriteIter(t)
          \/ LogRecord(t) \/ Return(t)
    BY <1>2 DEF Next
  <2>2. CASE Create(t)
    BY <2>2, MakeNodeStep DEF Create, RecTypes, PathTypes
  <2>3. CASE Mkdir(t)
    BY <2>3, MakeNodeStep DEF Mkdir, RecTypes, PathTypes
  <2>4. CASE Symlink(t)
    BY <2>4, MakeNodeStep DEF Symlink, RecTypes, PathTypes
  <2>5. CASE Mknod(t)
    BY <2>5, MakeNodeStep DEF Mknod, RecTypes, PathTypes
  <2>6. CASE Unlink(t)
    BY <2>6, UnlinkStep
  <2>7. CASE Rmdir(t)
    BY <2>7, RmdirStep
  <2>8. CASE Link(t)
    BY <2>8, LinkStep
  <2>9. CASE Rename(t)
    BY <2>9, RenameStep
  <2>10. CASE Open(t) \/ Close(t)
    BY <2>10, OpenCloseStep
  <2>11. CASE Write(t)
    BY <2>11, LowerWriteStep DEF Write
  <2>12. CASE WriteIter(t)
    BY <2>12, LowerWriteStep DEF WriteIter
  <2>13. CASE LogRecord(t)
    BY <2>13, LogRecordStep
  <2>14. CASE Return(t)
    BY <2>14, ReturnStep
  <2> QED BY <2>1, <2>2, <2>3, <2>4, <2>5, <2>6, <2>7, <2>8, <2>9, <2>10, <2>11,
             <2>12, <2>13, <2>14
<1> QED BY <1>1, <1>2

\* The inductive invariant of the trees holds throughout.
THEOREM TreeCorrect == Spec => []TreeInv
<1>1. QED BY TreeInit, TreeNext, PTL DEF Spec

\* Types, for any tasks, names and dentries: every record that the logging
\* tails write has well-formed paths, and no write moves a file position
\* below 0.
THEOREM TypeCorrect == Spec => []TypeOK
<1>1. TreeInv => TypeOK
  BY TypeParts DEF TreeInv
<1> QED BY <1>1, TreeCorrect, PTL

-----------------------------------------------------------------------------
(* The order of the log *)

\* A task holds the locks of its operation until it returns, also when it died.
OwnsLocks == \A t \in Tasks : pc[t] # "idle" => \A x \in op[t].held : lock[x] = t

\* Nothing is numbered beyond the last operation begun.
SeqBound ==
  /\ \A t \in Tasks : op[t].seq <= nops
  /\ \A i \in DOMAIN log : log[i].seq <= nops

\* An operation still to be logged is younger than every record that it shares
\* a lock with.
PendingLater ==
  \A t \in Tasks : pc[t] = "log" =>
    \A i \in DOMAIN log : log[i].held \cap op[t].held # {} => log[i].seq < op[t].seq

OrderInv == OwnsLocks /\ SeqBound /\ PendingLater /\ LogOrder

\* Begin keeps the order: the locks were free, and the operation is the youngest.
LEMMA BeginOrder ==
  ASSUME TypeOK, TypeOK', OrderInv, NEW t \in Tasks,
         NEW type, NEW d, NEW loc, NEW loc2, NEW held, NEW err, NEW next,
         Begin(t, type, d, loc, loc2, held, err, next)
  PROVE  OrderInv'
<1> DEFINE o == [type |-> type, d |-> d, loc |-> loc, loc2 |-> loc2,
                 held |-> held, seq |-> nops + 1, err |-> err]
<1>1. /\ \A x \in held : lock[x] = NoTask
      /\ lock' = [x \in Dents |-> IF x \in held THEN t ELSE lock[x]]
      /\ nops' = nops + 1
      /\ op' = [op EXCEPT ![t] = o]
      /\ pc' = [pc EXCEPT ![t] = next]
      /\ log' = log
  BY DEF Begin
<1>2. o.held = held /\ o.seq = nops + 1
  OBVIOUS
<1> HIDE DEF o
<1>3. op'[t] = o /\ \A u \in Tasks : u # t => op'[u] = op[u] /\ pc'[u] = pc[u]
  BY <1>1 DEF TypeOK
<1>4. \A u \in Tasks : op'[u].held \subseteq Dents
  BY DEF TypeOK, OpRecords
<1>5. /\ nops \in Nat
      /\ \A u \in Tasks : op[u].seq \in Nat
      /\ \A i \in DOMAIN log : log[i].seq \in Nat
  <2>1. nops \in Nat /\ \A u \in Tasks : op[u].seq \in Nat
    BY BoundAssumption DEF TypeOK, OpRecords
  <2>2. \A i \in DOMAIN log : log[i] \in LogRecords
    BY DEF TypeOK
  <2> QED BY <2>1, <2>2, BoundAssumption DEF LogRecords
<1>6. OwnsLocks'
  <2> SUFFICES ASSUME NEW u \in Tasks, pc'[u] # "idle", NEW x \in op'[u].held
               PROVE  lock'[x] = u
    BY DEF OwnsLocks
  <2>1. CASE u = t
    BY <2>1, <1>1, <1>2, <1>3, <1>4
  <2>2. CASE u # t
    BY <2>2, <1>1, <1>3, <1>4, TasksAssumption DEF OrderInv, OwnsLocks
  <2> QED BY <2>1, <2>2
<1>7. SeqBound'
  BY <1>1, <1>2, <1>3, <1>5 DEF OrderInv, SeqBound
<1>8. PendingLater'
  BY <1>1, <1>2, <1>3, <1>5 DEF OrderInv, SeqBound, PendingLater
<1>9. LogOrder'
  BY <1>1 DEF OrderInv, LogOrder
<1> QED BY <1>6, <1>7, <1>8, <1>9 DEF OrderInv

\* The logging tail keeps the order: another operation that waits to be logged
\* has no lock in common with it.
LEMMA LogRecordOrder ==
  ASSUME TypeOK, OrderInv, NEW t \in Tasks, LogRecord(t)
  PROVE  OrderInv'
<1> DEFINE n == Len(log) + 1
<1>1. PICK r : /\ pc[t] = "log"
               /\ r.seq = op[t].seq /\ r.held = op[t].held
               /\ log' = Append(log, r)
               /\ pc' = [pc EXCEPT ![t] = "ret"]
               /\ UNCHANGED <<lock, op, nops>>
  BY DEF LogRecord
<1>2. /\ DOMAIN log = 1 .. Len(log) /\ Len(log) \in Nat
      /\ DOMAIN log' = 1 .. n
      /\ log'[n] = r
      /\ \A i \in 1 .. Len(log) : log'[i] = log[i]
  BY <1>1 DEF TypeOK
<1>3. pc'[t] = "ret" /\ \A u \in Tasks : u # t => pc'[u] = pc[u]
  BY <1>1 DEF TypeOK
<1>4. OwnsLocks'
  BY <1>1, <1>3 DEF OrderInv, OwnsLocks
<1>5. SeqBound'
  BY <1>1, <1>2 DEF OrderInv, SeqBound
<1>6. PendingLater'
  <2> SUFFICES ASSUME NEW u \in Tasks, pc'[u] = "log", NEW i \in 1 .. n,
                      log'[i].held \cap op[u].held # {}
               PROVE  log'[i].seq < op[u].seq
    BY <1>1, <1>2 DEF PendingLater
  <2>1. u # t /\ pc[u] = "log"
    BY <1>3
  <2>2. op[t].held \cap op[u].held = {}
    BY <2>1, <1>1 DEF OrderInv, OwnsLocks
  <2>3. i # n
    BY <2>2, <1>1, <1>2
  <2>4. i \in DOMAIN log /\ log'[i] = log[i]
    BY <2>3, <1>2
  <2> QED BY <2>1, <2>4 DEF OrderInv, PendingLater
<1>7. LogOrder'
  <2> SUFFICES ASSUME NEW i \in 1 .. n, NEW j \in 1 .. n, i < j,
                      log'[i].held \cap log'[j].held # {}
               PROVE  log'[i].seq < log'[j].seq
    BY <1>2 DEF LogOrder
  <2>1. i \in DOMAIN log /\ log'[i] = log[i]
    BY <1>2
  <2>2. CASE j = n
    BY <2>1, <2>2, <1>1, <1>2 DEF OrderInv, PendingLater
  <2>3. CASE j # n
    <3>1. j \in DOMAIN log /\ log'[j] = log[j]
      BY <2>3, <1>2
    <3> QED BY <2>1, <3>1 DEF OrderInv, LogOrder
  <2> QED BY <2>2, <2>3
<1> QED BY <1>4, <1>5, <1>6, <1>7 DEF OrderInv

\* The return keeps the order: it frees no lock of another task.
LEMMA ReturnOrder ==
  ASSUME TypeOK, OrderInv, NEW t \in Tasks, Return(t)
  PROVE  OrderInv'
<1>1. /\ pc[t] = "ret"
      /\ lock' = [x \in Dents |-> IF x \in op[t].held THEN NoTask ELSE lock[x]]
      /\ op' = [op EXCEPT ![t] = NoOp]
      /\ pc' = [pc EXCEPT ![t] = "idle"]
      /\ UNCHANGED <<log, nops>>
  BY DEF Return
<1>2. op'[t].seq = 0 /\ pc'[t] = "idle" /\ nops \in Nat
  BY <1>1, BoundAssumption DEF TypeOK, NoOp
<1>3. \A u \in Tasks : u # t => op'[u] = op[u] /\ pc'[u] = pc[u] /\ op[u].held \subseteq Dents
  BY <1>1 DEF TypeOK, OpRecords
<1>4. OwnsLocks'
  BY <1>1, <1>2, <1>3 DEF OrderInv, OwnsLocks
<1>5. SeqBound'
  BY <1>1, <1>2, <1>3 DEF OrderInv, SeqBound
<1>6. PendingLater'
  BY <1>1, <1>2, <1>3 DEF OrderInv, PendingLater
<1>7. LogOrder'
  BY <1>1 DEF OrderInv, LogOrder
<1> QED BY <1>4, <1>5, <1>6, <1>7 DEF OrderInv

\* Every step keeps the order.
LEMMA OrderNext == TypeOK /\ TypeOK' /\ OrderInv /\ [Next]_vars => OrderInv'
<1> SUFFICES ASSUME TypeOK, TypeOK', OrderInv, [Next]_vars PROVE OrderInv'
  OBVIOUS
<1>1. CASE UNCHANGED <<lock, pc, op, log, nops>>
  BY <1>1 DEF OrderInv, OwnsLocks, SeqBound, PendingLater, LogOrder
<1>2. CASE Next
  <2>1. PICK t \in Tasks :
          \/ Create(t) \/ Mkdir(t) \/ Symlink(t) \/ Mknod(t)
          \/ Unlink(t) \/ Rmdir(t) \/ Link(t) \/ Rename(t)
          \/ Open(t) \/ Close(t) \/ Write(t) \/ WriteIter(t)
          \/ LogRecord(t) \/ Return(t)
    BY <1>2 DEF Next
  <2>a. ASSUME NEW k, NEW type, NEW next, NEW onerr, MakeNode(t, k, type, next, onerr)
        PROVE  OrderInv'
    BY <2>a, BeginOrder DEF MakeNode
  <2>2. CASE Create(t) \/ Mkdir(t) \/ Symlink(t) \/ Mknod(t)
    BY <2>2, <2>a DEF Create, Mkdir, Symlink, Mknod
  <2>3. CASE Unlink(t) \/ Rmdir(t) \/ Link(t)
    BY <2>3, BeginOrder DEF Unlink, Rmdir, Link
  <2>4. CASE Rename(t)
    BY <2>4, BeginOrder DEF Rename
  <2>5. CASE Write(t) \/ WriteIter(t)
    BY <2>5, BeginOrder DEF Write, WriteIter, LowerWrite
  <2>6. CASE Open(t) \/ Close(t)
    BY <2>6, <1>1 DEF Open, Close
  <2>7. CASE LogRecord(t)
    BY <2>7, LogRecordOrder
  <2>8. CASE Return(t)
    BY <2>8, ReturnOrder
  <2> QED BY <2>1, <2>2, <2>3, <2>4, <2>5, <2>6, <2>7, <2>8
<1> QED BY <1>1, <1>2 DEF vars

\* The order invariant holds throughout.
LEMMA OrderCorrect == Spec => []OrderInv
<1>1. Init => OrderInv
  BY DEF Init, OrderInv, OwnsLocks, SeqBound, PendingLater, LogOrder, NoOp
<1> QED BY <1>1, OrderNext, TypeCorrect, PTL DEF Spec

\* Operations that share a directory or file lock reach the log in the order in
\* which they changed the lower file system, for any number of tasks,
\* operations and directory entries, and whatever fails below: every trfs_*
\* operation logs before the VFS drops the lock.
THEOREM LogInOrder == Spec => []LogOrder
<1>1. OrderInv => LogOrder
  BY DEF OrderInv
<1> QED BY <1>1, OrderCorrect, PTL

-----------------------------------------------------------------------------
(* Upper dentries name the lower ones *)

\* A rename that has moved the lower entry and not yet the upper dentry.
Moving(t) == pc[t] \in {"log", "ret"} /\ op[t].type = "RENAME" /\ op[t].err = 0

\* Such a rename knows where its lower entry is, and holds the directory that
\* the upper dentry is still in and the one that it goes to.
MoveInv == \A t \in Tasks : Moving(t) =>
  /\ lo[op[t].d] = op[t].loc2
  /\ up[op[t].d].par \in op[t].held /\ op[t].loc2.par \in op[t].held
  /\ kind[op[t].d] # "free"

\* A hashed dentry is in use.
InUseInv == \A d \in hashed : kind[d] # "free"

NameInv == MoveInv /\ InUseInv /\ UpperMatchesLower

\* What an operation that begins leaves alone, and the locks it found free.
LEMMA BeginMoves ==
  ASSUME ControlType, OwnsLocks, NEW t \in Tasks,
         NEW type, NEW d, NEW loc, NEW loc2, NEW held, NEW err, NEW next,
         Begin(t, type, d, loc, loc2, held, err, next)
  PROVE  /\ ~Moving(t)
         /\ Moving(t)' <=> next \in {"log", "ret"} /\ type = "RENAME" /\ err = 0
         /\ op'[t].d = d /\ op'[t].loc2 = loc2 /\ op'[t].held = held
         /\ \A u \in Tasks : u # t => op'[u] = op[u] /\ (Moving(u)' <=> Moving(u))
         /\ \A u \in Tasks : Moving(u) => op[u].held \cap held = {}
<1> DEFINE o == [type |-> type, d |-> d, loc |-> loc, loc2 |-> loc2,
                 held |-> held, seq |-> nops + 1, err |-> err]
<1>1. /\ pc[t] = "idle" /\ op' = [op EXCEPT ![t] = o] /\ pc' = [pc EXCEPT ![t] = next]
      /\ \A x \in held : lock[x] = NoTask
  BY DEF Begin
<1>2. o.d = d /\ o.loc2 = loc2 /\ o.held = held /\ o.type = type /\ o.err = err OBVIOUS
<1> HIDE DEF o
<1>3. /\ op'[t] = o /\ pc'[t] = next
      /\ \A u \in Tasks : u # t => op'[u] = op[u] /\ pc'[u] = pc[u]
  BY <1>1 DEF ControlType
<1>4. \A u \in Tasks : Moving(u) => op[u].held \cap held = {}
  BY <1>1, TasksAssumption DEF OwnsLocks, Moving
<1> QED BY <1>1, <1>2, <1>3, <1>4 DEF Moving

\* A step that moves no entry of a rename under way, and leaves the upper
\* dentry of every other one as it is or equal to the lower one, keeps the names.
LEMMA NamesKept ==
  ASSUME NameInv, NEW t \in Tasks, ~Moving(t), ~Moving(t)',
         \A u \in Tasks : u # t => op'[u] = op[u] /\ (Moving(u)' <=> Moving(u)),
         \A u \in Tasks : Moving(u) => /\ lo'[op[u].d] = lo[op[u].d] /\ up'[op[u].d] = up[op[u].d]
                                       /\ kind'[op[u].d] = kind[op[u].d],
         \A d \in hashed' : /\ (d \in hashed /\ up'[d] = up[d] /\ lo'[d] = lo[d]) \/ up'[d] = lo'[d]
                            /\ kind'[d] # "free"
  PROVE  NameInv'
<1>1. MoveInv' BY DEF NameInv, MoveInv
<1>2. InUseInv' BY DEF InUseInv
<1>3. UpperMatchesLower'
  <2> SUFFICES ASSUME NEW d \in hashed', up'[d] # lo'[d]
               PROVE  \E u \in Tasks : Moving(u)' /\ (d = op'[u].d \/ up'[d] = op'[u].loc2)
    BY DEF UpperMatchesLower, Moving
  <2>1. PICK u \in Tasks : Moving(u) /\ (d = op[u].d \/ up[d] = op[u].loc2)
    BY DEF NameInv, UpperMatchesLower, Moving
  <2> QED BY <2>1
<1> QED BY <1>1, <1>2, <1>3 DEF NameInv

AllOps == TreeInv /\ OrderInv /\ NameInv

\* What the invariant says of a rename under way.
LEMMA MovingFacts ==
  ASSUME AllOps, NEW u \in Tasks, Moving(u)
  PROVE  /\ op[u].d \in Dents /\ lo[op[u].d] = op[u].loc2 /\ kind[op[u].d] # "free"
         /\ up[op[u].d].par \in op[u].held /\ op[u].loc2.par \in op[u].held
         /\ op[u].held \subseteq Dents
  BY DEF AllOps, NameInv, MoveInv, TreeInv, ControlType, OpRecords

\* create, mkdir, symlink and mknod use a dentry that was free.
LEMMA MakeNodeNames ==
  ASSUME AllOps, NEW t \in Tasks, NEW k \in {"file", "dir", "symlink", "dev"}, NEW type, type # "RENAME",
         NEW next, NEW onerr, MakeNode(t, k, type, next, onerr)
  PROVE  NameInv'
<1>1. PICK dir \in Dirs, n \in Names, d \in Free :
        LET loc == Loc(dir, n) IN
        \/ /\ Begin(t, type, d, loc, None, {dir}, 0, next)
           /\ kind' = [kind EXCEPT ![d] = k]
           /\ lo' = [lo EXCEPT ![d] = loc]
           /\ up' = [up EXCEPT ![d] = loc]
           /\ hashed' = hashed \cup {d}
        \/ /\ Begin(t, type, d, loc, None, {dir}, -1, onerr)
           /\ kind' = [kind EXCEPT ![d] = k]
           /\ lo' = [lo EXCEPT ![d] = loc]
           /\ UNCHANGED <<up, hashed>>
        \/ /\ Begin(t, type, d, loc, None, {dir}, -1, onerr)
           /\ UNCHANGED <<kind, lo, up, hashed>>
  BY DEF MakeNode
<1>2. /\ ~Moving(t) /\ ~Moving(t)'
      /\ \A u \in Tasks : u # t => op'[u] = op[u] /\ (Moving(u)' <=> Moving(u))
  BY <1>1, BeginMoves DEF AllOps, TreeInv, OrderInv
<1>3. d \in Dents /\ d \notin hashed /\ kind[d] = "free"
  BY DEF AllOps, NameInv, InUseInv, Free
<1>4. \A x \in Dents : x # d => kind'[x] = kind[x] /\ lo'[x] = lo[x] /\ up'[x] = up[x]
  BY <1>1, <1>3 DEF AllOps, TreeInv, TreeType
<1>5. \A x \in hashed' : \/ x # d /\ x \in hashed
                         \/ x = d /\ kind'[d] # "free" /\ up'[d] = lo'[d]
  BY <1>1, <1>3 DEF AllOps, TreeInv, TreeType
<1>6. \A u \in Tasks : Moving(u) => op[u].d \in Dents /\ op[u].d # d
  BY <1>3, MovingFacts
<1>7. \A x \in hashed : x \in Dents /\ kind[x] # "free"
  BY DEF AllOps, TreeInv, TreeType, NameInv, InUseInv
<1> QED BY <1>2, <1>4, <1>5, <1>6, <1>7, NamesKept DEF AllOps

\* unlink and rmdir hold the directory of their entry: no rename of it is
\* under way.
LEMMA RemoveNames ==
  ASSUME AllOps, NEW t \in Tasks, Unlink(t) \/ Rmdir(t)
  PROVE  NameInv'
<1>1. PICK d \in hashed, held \in SUBSET Dents, err \in {0, -1} :
        /\ up[d].par \in held
        /\ UNCHANGED <<kind, up>>
        /\ Begin(t, "UNLINK", d, up[d], None, held, err, "log")
        /\ \/ lo' = [lo EXCEPT ![d] = None] /\ hashed' = hashed \ {d}
           \/ UNCHANGED <<lo, hashed>>
  <2>1. \A d \in hashed : {up[d].par, ino[d]} \in SUBSET Dents /\ {up[d].par, d} \in SUBSET Dents
    BY HashedPlace DEF AllOps
  <2>2. CASE Unlink(t)
    <3>1. PICK d \in hashed, err \in {0, -1} :
            /\ UNCHANGED <<kind, up>>
            /\ Begin(t, "UNLINK", d, up[d], None, {up[d].par, ino[d]}, err, "log")
            /\ \/ lo' = [lo EXCEPT ![d] = None] /\ hashed' = hashed \ {d}
               \/ UNCHANGED <<lo, hashed>>
      BY <2>2 DEF Unlink
    <3>2. up[d].par \in {up[d].par, ino[d]} OBVIOUS
    <3> QED BY <2>1, <3>1, <3>2
  <2>3. CASE Rmdir(t)
    <3>1. PICK d \in hashed, err \in {0, -1} :
            /\ UNCHANGED <<kind, up>>
            /\ Begin(t, "UNLINK", d, up[d], None, {up[d].par, d}, err, "log")
            /\ \/ lo' = [lo EXCEPT ![d] = None] /\ hashed' = hashed \ {d}
               \/ UNCHANGED <<lo, hashed>>
      BY <2>3 DEF Rmdir
    <3>2. up[d].par \in {up[d].par, d} OBVIOUS
    <3> QED BY <2>1, <3>1, <3>2
  <2> QED BY <2>2, <2>3
<1>2. /\ ~Moving(t) /\ ~Moving(t)'
      /\ \A u \in Tasks : u # t => op'[u] = op[u] /\ (Moving(u)' <=> Moving(u))
      /\ \A u \in Tasks : Moving(u) => op[u].held \cap held = {}
  BY <1>1, BeginMoves DEF AllOps, TreeInv, OrderInv
<1>3. \A u \in Tasks : Moving(u) => op[u].d \in Dents /\ op[u].d # d
  BY <1>1, <1>2, MovingFacts
<1>4. \A x \in Dents : x # d => lo'[x] = lo[x]
  BY <1>1 DEF AllOps, TreeInv, TreeType
<1>5. \A x \in hashed' : x \in hashed /\ (x # d \/ lo'[x] = lo[x])
  BY <1>1
<1>6. \A x \in hashed : x \in Dents /\ kind[x] # "free"
  BY DEF AllOps, TreeInv, TreeType, NameInv, InUseInv
<1> QED BY <1>1, <1>2, <1>3, <1>4, <1>5, <1>6, NamesKept DEF AllOps

\* link uses a dentry that was free.
LEMMA LinkNames ==
  ASSUME AllOps, NEW t \in Tasks, Link(t)
  PROVE  NameInv'
<1>1. PICK d \in hashed, dir \in Dirs, n \in Names, e \in Free :
        LET loc == Loc(dir, n) IN
        \/ /\ Begin(t, "LINK", d, up[d], loc, {dir, ino[d]}, 0, "log")
           /\ kind' = [kind EXCEPT ![e] = kind[d]]
           /\ lo' = [lo EXCEPT ![e] = loc]
           /\ up' = [up EXCEPT ![e] = loc]
           /\ hashed' = hashed \cup {e}
        \/ /\ Begin(t, "LINK", d, up[d], loc, {dir, ino[d]}, -1, "log")
           /\ UNCHANGED <<kind, lo, up, hashed>>
  BY DEF Link
<1>2. /\ ~Moving(t) /\ ~Moving(t)'
      /\ \A u \in Tasks : u # t => op'[u] = op[u] /\ (Moving(u)' <=> Moving(u))
  BY <1>1, BeginMoves DEF AllOps, TreeInv, OrderInv
<1>3. e \in Dents /\ e \notin hashed /\ kind[e] = "free" /\ kind[d] # "free"
  BY DEF AllOps, NameInv, InUseInv, Free
<1>4. \A x \in Dents : x # e => kind'[x] = kind[x] /\ lo'[x] = lo[x] /\ up'[x] = up[x]
  BY <1>1, <1>3 DEF AllOps, TreeInv, TreeType
<1>5. \A x \in hashed' : \/ x # e /\ x \in hashed
                         \/ x = e /\ kind'[e] # "free" /\ up'[e] = lo'[e]
  BY <1>1, <1>3 DEF AllOps, TreeInv, TreeType
<1>6. \A u \in Tasks : Moving(u) => op[u].d \in Dents /\ op[u].d # e
  BY <1>3, MovingFacts
<1>7. \A x \in hashed : x \in Dents /\ kind[x] # "free"
  BY DEF AllOps, TreeInv, TreeType, NameInv, InUseInv
<1> QED BY <1>2, <1>4, <1>5, <1>6, <1>7, NamesKept DEF AllOps

\* rename holds both directories: no other rename of the entry, or to the same
\* place, is under way.
LEMMA RenameNames ==
  ASSUME AllOps, NEW t \in Tasks, Rename(t)
  PROVE  NameInv'
<1>1. PICK d, dir, n, held :
        LET loc == Loc(dir, n) IN
        /\ d \in hashed /\ dir \in Dirs /\ n \in Names
        /\ {up[d].par, dir} \subseteq held
        /\ UNCHANGED <<kind, up, hashed>>
        /\ \/ /\ Begin(t, "RENAME", d, up[d], loc, held, 0, "log")
              /\ lo' = [x \in Dents |-> IF x = d THEN loc ELSE IF lo[x] = loc THEN None ELSE lo[x]]
           \/ /\ Begin(t, "RENAME", d, up[d], loc, held, -1, "log")
              /\ UNCHANGED lo
  BY DEF Rename
<1> DEFINE loc == Loc(dir, n)
<1>2. loc.par = dir /\ d \in Dents /\ kind[d] # "free" BY <1>1 DEF Loc, AllOps, TreeInv, TreeType, NameInv, InUseInv
<1> HIDE DEF loc
<1>3. CASE Begin(t, "RENAME", d, up[d], loc, held, -1, "log") /\ UNCHANGED lo
  <2>1. /\ ~Moving(t) /\ ~Moving(t)'
        /\ \A u \in Tasks : u # t => op'[u] = op[u] /\ (Moving(u)' <=> Moving(u))
    BY <1>3, BeginMoves DEF AllOps, TreeInv, OrderInv
  <2>2. \A x \in hashed : kind[x] # "free" BY DEF AllOps, NameInv, InUseInv
  <2> QED BY <1>1, <1>3, <2>1, <2>2, NamesKept DEF AllOps
<1>4. CASE /\ Begin(t, "RENAME", d, up[d], loc, held, 0, "log")
           /\ lo' = [x \in Dents |-> IF x = d THEN loc ELSE IF lo[x] = loc THEN None ELSE lo[x]]
  <2>1. /\ ~Moving(t) /\ Moving(t)' /\ op'[t].d = d /\ op'[t].loc2 = loc /\ op'[t].held = held
        /\ \A u \in Tasks : u # t => op'[u] = op[u] /\ (Moving(u)' <=> Moving(u))
        /\ \A u \in Tasks : Moving(u) => op[u].held \cap held = {}
    BY <1>4, BeginMoves DEF AllOps, TreeInv, OrderInv
  <2>2. \A u \in Tasks : Moving(u) => op[u].d # d /\ lo'[op[u].d] = lo[op[u].d]
    BY <1>1, <1>2, <1>4, <2>1, MovingFacts
  <2>3. MoveInv'
    BY <1>1, <1>2, <1>4, <2>1, <2>2 DEF AllOps, NameInv, MoveInv
  <2>4. InUseInv' BY <1>1 DEF AllOps, NameInv, InUseInv
  <2>5. UpperMatchesLower'
    <3> SUFFICES ASSUME NEW x \in hashed, up[x] # lo'[x]
                 PROVE  \E u \in Tasks : Moving(u)' /\ (x = op'[u].d \/ up[x] = op'[u].loc2)
      BY <1>1 DEF UpperMatchesLower, Moving
    <3>1. CASE x = d \/ up[x] = loc BY <2>1, <3>1
    <3>2. CASE x # d /\ up[x] # loc
      <4>1. x \in Dents BY DEF AllOps, TreeInv, TreeType
      <4>2. up[x] # lo[x] BY <1>4, <3>2, <4>1
      <4>3. PICK u \in Tasks : Moving(u) /\ (x = op[u].d \/ up[x] = op[u].loc2)
        BY <4>2 DEF AllOps, NameInv, UpperMatchesLower, Moving
      <4> QED BY <2>1, <4>3
    <3> QED BY <3>1, <3>2
  <2> QED BY <2>3, <2>4, <2>5 DEF NameInv
<1> QED BY <1>1, <1>3, <1>4 DEF loc

\* d_move makes the upper dentry of a rename name the lower entry, and unhashes
\* the dentries that named an entry the rename replaced.
LEMMA ReturnNames ==
  ASSUME AllOps, NEW t \in Tasks, Return(t)
  PROVE  NameInv'
<1>1. /\ pc[t] = "ret"
      /\ up' = IF Moving(t) THEN [up EXCEPT ![op[t].d] = op[t].loc2] ELSE up
      /\ hashed' = IF Moving(t) THEN hashed \ UpperChild(op[t].loc2) ELSE hashed
      /\ op' = [op EXCEPT ![t] = NoOp] /\ pc' = [pc EXCEPT ![t] = "idle"]
      /\ UNCHANGED <<kind, lo>>
  BY DEF Return, Moving
<1>2. /\ ~Moving(t)'
      /\ \A u \in Tasks : u # t => op'[u] = op[u] /\ (Moving(u)' <=> Moving(u))
  BY <1>1 DEF Moving, AllOps, TreeInv, ControlType
<1>3. CASE ~Moving(t)
  <2>1. up' = up /\ hashed' = hashed BY <1>1, <1>3
  <2>2. \A x \in hashed : kind[x] # "free" BY DEF AllOps, NameInv, InUseInv
  <2> QED BY <1>1, <1>2, <1>3, <2>1, <2>2, NamesKept DEF AllOps
<1>4. CASE Moving(t)
  <2>1. /\ op[t].d \in Dents /\ lo[op[t].d] = op[t].loc2
        /\ up' = [up EXCEPT ![op[t].d] = op[t].loc2] /\ hashed' = hashed \ UpperChild(op[t].loc2)
    BY <1>1, <1>4, MovingFacts
  <2>2. \A u \in Tasks : Moving(u) /\ u # t => op[u].d # op[t].d
    BY <1>4, MovingFacts DEF AllOps, OrderInv, OwnsLocks, Moving
  <2>3. /\ up'[op[t].d] = op[t].loc2
        /\ \A x \in Dents : x # op[t].d => up'[x] = up[x]
    BY <2>1 DEF AllOps, TreeInv, TreeType
  <2>4. MoveInv'
    BY <1>1, <1>2, <2>2, <2>3, MovingFacts DEF AllOps, NameInv, MoveInv
  <2>5. InUseInv' BY <1>1, <2>1 DEF AllOps, NameInv, InUseInv
  <2>6. UpperMatchesLower'
    <3> SUFFICES ASSUME NEW x \in hashed', up'[x] # lo[x]
                 PROVE  \E u \in Tasks : Moving(u)' /\ (x = op'[u].d \/ up'[x] = op'[u].loc2)
      BY <1>1 DEF UpperMatchesLower, Moving
    <3>1. x # op[t].d BY <2>1, <2>3
    <3>2. x \in hashed /\ x \in Dents /\ up'[x] = up[x] /\ up[x] # op[t].loc2
      BY <2>1, <2>3, <3>1 DEF AllOps, TreeInv, TreeType, UpperChild
    <3>3. PICK u \in Tasks : Moving(u) /\ (x = op[u].d \/ up[x] = op[u].loc2)
      BY <3>2 DEF AllOps, NameInv, UpperMatchesLower, Moving
    <3>4. u # t BY <3>1, <3>2, <3>3
    <3> QED BY <1>2, <3>2, <3>3, <3>4
  <2> QED BY <2>4, <2>5, <2>6 DEF NameInv
<1> QED BY <1>3, <1>4

\* Writes, open and close, and the logging tail leave the trees alone.
LEMMA OtherNames ==
  ASSUME AllOps, NEW t \in Tasks, Write(t) \/ WriteIter(t) \/ Open(t) \/ Close(t) \/ LogRecord(t)
  PROVE  NameInv'
<1>1. UNCHANGED <<kind, lo, up, hashed>>
  BY DEF Write, WriteIter, LowerWrite, Open, Close, LogRecord, trees
<1>2. \A x \in hashed : kind[x] # "free" BY DEF AllOps, NameInv, InUseInv
<1>3. CASE Write(t) \/ WriteIter(t)
  <2>1. PICK type, d, err, next :
          type \in {"FWRITE", "none"} /\ Begin(t, type, d, None, None, {}, err, next)
    BY <1>3 DEF Write, WriteIter, LowerWrite
  <2>2. /\ ~Moving(t) /\ ~Moving(t)'
        /\ \A u \in Tasks : u # t => op'[u] = op[u] /\ (Moving(u)' <=> Moving(u))
    BY <2>1, BeginMoves DEF AllOps, TreeInv, OrderInv
  <2> QED BY <1>1, <1>2, <2>2, NamesKept DEF AllOps
<1>4. CASE Open(t) \/ Close(t) \/ LogRecord(t)
  <2>1. op' = op /\ \A u \in Tasks : Moving(u)' <=> Moving(u)
    BY <1>4 DEF Open, Close, LogRecord, Moving, AllOps, TreeInv, ControlType
  <2>2. \A u \in Tasks : op'[u] = op[u] BY <2>1
  <2>3. MoveInv' BY <1>1, <2>1 DEF AllOps, NameInv, MoveInv
  <2>4. InUseInv' BY <1>1 DEF AllOps, NameInv, InUseInv
  <2>5. UpperMatchesLower'
    <3> SUFFICES ASSUME NEW x \in hashed, up[x] # lo[x]
                 PROVE  \E u \in Tasks : Moving(u)' /\ (x = op'[u].d \/ up[x] = op'[u].loc2)
      BY <1>1 DEF UpperMatchesLower, Moving
    <3>1. PICK u \in Tasks : Moving(u) /\ (x = op[u].d \/ up[x] = op[u].loc2)
      BY DEF AllOps, NameInv, UpperMatchesLower, Moving
    <3> QED BY <2>1, <3>1
  <2> QED BY <2>3, <2>4, <2>5 DEF NameInv
<1> QED BY <1>3, <1>4

\* Every step keeps the names.
LEMMA NamesNext == AllOps /\ [Next]_vars => NameInv'
<1> SUFFICES ASSUME AllOps, [Next]_vars PROVE NameInv'
  OBVIOUS
<1>1. CASE UNCHANGED vars
  BY <1>1 DEF vars, AllOps, NameInv, MoveInv, InUseInv, UpperMatchesLower, Moving
<1>2. ASSUME NEW t \in Tasks, Create(t) \/ Mkdir(t) \/ Symlink(t) \/ Mknod(t) PROVE NameInv'
  BY <1>2, MakeNodeNames DEF Create, Mkdir, Symlink, Mknod
<1> QED BY <1>1, <1>2, RemoveNames, LinkNames, RenameNames, ReturnNames, OtherNames DEF Next

\* Whatever fails, and however the operations of tasks interleave, an upper
\* dentry that a lookup finds names the place of its lower one, except while a
\* rename of it or onto it waits for the VFS's d_move.
THEOREM NamesAgree == Spec => []UpperMatchesLower
<1>1. Init => NameInv
  BY DEF Init, NameInv, MoveInv, InUseInv, UpperMatchesLower, Moving
<1>2. NameInv => UpperMatchesLower BY DEF NameInv
<1> QED BY <1>1, <1>2, NamesNext, TreeCorrect, OrderCorrect, PTL DEF Spec, AllOps
=============================================================================
