---------------------------- MODULE TraceReplay ----------------------------
(***************************************************************************)
(* A mount and the replay of its trace file.  treplay.c issues one system  *)
(* call per record (two for a write) in an empty directory; the operators  *)
(* here say what each does there, and the properties compare the result    *)
(* with the lower tree the operations of TrfsOps left.                     *)
(***************************************************************************)
EXTENDS TrfsOps, SequencesExt

\* The target directory: the inode of every path, and the inodes.
EmptyDir == [at |-> <<>>, inode |-> <<>>]

Exists(fs, p) == p \in DOMAIN fs.at
IsDir(fs, p)  == Exists(fs, p) /\ fs.inode[fs.at[p]].kind = "dir"
Below(fs, p)  == {q \in DOMAIN fs.at : IsStrictPrefix(p, q)}

\* The function g, and v at x.
With(g, x, v) == [y \in DOMAIN g \cup {x} |-> IF y = x THEN v ELSE g[y]]

\* A new entry can be made at p.
Vacant(fs, p) == ~Exists(fs, p) /\ (Len(p) = 1 \/ IsDir(fs, Front(p)))

\* open(O_CREAT), mkdir, symlink.  Failures leave the directory as it is.
MakeEntry(fs, p, id, k) ==
  IF Vacant(fs, p)
  THEN [at |-> With(fs.at, p, id), inode |-> With(fs.inode, id, [kind |-> k, data |-> <<>>])]
  ELSE fs

\* remove: unlink, or rmdir of an empty directory
RemoveEntry(fs, p) ==
  IF Exists(fs, p) /\ Below(fs, p) = {}
  THEN [fs EXCEPT !.at = Restrict(@, DOMAIN @ \ {p})]
  ELSE fs

LinkEntry(fs, p, q) ==
  IF Exists(fs, p) /\ ~IsDir(fs, p) /\ Vacant(fs, q)
  THEN [fs EXCEPT !.at = With(@, q, fs.at[p])]
  ELSE fs

\* rename: what is at q is replaced, what is below p moves along.
RenameEntry(fs, p, q) ==
  LET moved == {p} \cup Below(fs, p)
      dest(x) == q \o SubSeq(x, Len(p) + 1, Len(x))
      target == {dest(x) : x \in moved}
      origin(y) == CHOOSE x \in moved : dest(x) = y
  IN
  IF /\ Exists(fs, p)
     /\ Vacant(fs, q) \/ (/\ Exists(fs, q) /\ Below(fs, q) = {}
                          /\ IsDir(fs, p) <=> IsDir(fs, q)
                          /\ fs.at[p] # fs.at[q])
  THEN [fs EXCEPT !.at = [y \in ((DOMAIN @) \ moved) \cup target |->
                            IF y \in target THEN fs.at[origin(y)] ELSE fs.at[y]]]
  ELSE fs

\* open with the flags of the record, write of its aux data, close: at the
\* end of the file with O_APPEND, otherwise at offset 0.
WriteFile(fs, p, append, x) ==
  IF Exists(fs, p) /\ fs.inode[fs.at[p]].kind = "file"
  THEN [fs EXCEPT !.inode[fs.at[p]].data = Put(@, IF append THEN Len(@) ELSE 0, x)]
  ELSE fs

\* The switch of treplay's main loop (without -n and -s): records of failed
\* operations are replayed like the others.
ReplayRecord(fs, r) ==
  CASE r.type = "FCREAT"  -> MakeEntry(fs, r.path, r.seq, "file")
    [] r.type = "FWRITE"  -> WriteFile(fs, r.path, r.append, r.seq)
    [] r.type = "DCREAT"  -> MakeEntry(fs, r.path, r.seq, "dir")
    [] r.type = "RENAME"  -> RenameEntry(fs, r.path, r.aux)
    [] r.type = "LINK"    -> LinkEntry(fs, r.path, r.aux)
    [] r.type = "SYMLINK" -> MakeEntry(fs, r.path, r.seq, "symlink")
    [] r.type = "UNLINK"  -> RemoveEntry(fs, r.path)

\* The main loop: the directory after each record of the trace s.
Replay(s) == LET fs[n \in 0 .. Len(s)] == IF n = 0 THEN EmptyDir ELSE ReplayRecord(fs[n - 1], s[n])
             IN  fs

Replayed == Replay(log)[Len(log)]

-----------------------------------------------------------------------------
(* The lower tree, by paths. *)

Quiet == \A t \in Tasks : pc[t] = "idle"

LowerPath(d) == IF lo[d].par = Root THEN <<lo[d].name>> ELSE <<lo[lo[d].par].name, lo[d].name>>

LowerEntries == {d \in Dents : lo[d] # None}

\* When no operation is running, replaying the trace file in an empty directory
\* gives the tree that the operations made: the same paths, with the same
\* kind, contents and hard links.
ReplayReproduces ==
  Quiet =>
    LET fs == Replayed IN
    /\ DOMAIN fs.at = {LowerPath(d) : d \in LowerEntries}
    /\ \A d \in LowerEntries :
         LET r == fs.inode[fs.at[LowerPath(d)]] IN r.kind = kind[d] /\ r.data = data[ino[d]]
    /\ \A d, e \in LowerEntries :
         ino[d] = ino[e] <=> fs.at[LowerPath(d)] = fs.at[LowerPath(e)]
=============================================================================
