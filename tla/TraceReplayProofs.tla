------------------------- MODULE TraceReplayProofs -------------------------
(***************************************************************************)
(* Proof that replaying the trace file of a mount in an empty directory    *)
(* gives the lower tree again, for any number of tasks, entries and        *)
(* operations, if callers keep their operations apart, nothing fails below *)
(* for reasons of its own, and only what trfs logs is used.                *)
(***************************************************************************)
EXTENDS TraceReplay, TrfsOpsProofs, WellFoundedInduction

-----------------------------------------------------------------------------
(* Replay is defined by recursion over the trace.  That it exists, and that *)
(* a longer trace begins the same way, is shown by the least number of      *)
(* records for which it would not.                                          *)

\* A set of naturals that is not empty has a least element.
LEMMA LeastNat == ASSUME NEW T \in SUBSET Nat, T # {} PROVE \E x \in T : \A y \in T : x <= y
<1> DEFINE R == {ss \in Nat \X Nat : ss[1] < ss[2]}
<1>1. OpToRel(<, Nat) = R BY DEF OpToRel
<1>2. IsWellFoundedOn(R, Nat) BY <1>1, NatLessThanWellFounded
<1> HIDE DEF R
<1>3. PICK x \in T : \A y \in T : ~ (<<y, x>> \in R) BY <1>2, WFMin
<1>4. \A y \in T : ~(y < x) BY <1>3 DEF R
<1> QED BY <1>4

\* r is the replay of the first n records of s.
Runs(r, s, n) == r = [i \in 0 .. n |-> IF i = 0 THEN EmptyDir ELSE ReplayRecord(r[i - 1], s[i])]

\* Every number of records has a replay.
LEMMA RunsExists == ASSUME NEW s PROVE \A n \in Nat : \E r : Runs(r, s, n)
<1> DEFINE T == {n \in Nat : ~ \E r : Runs(r, s, n)}
<1> SUFFICES ASSUME T # {} PROVE FALSE OBVIOUS
<1>1. PICK n \in T : \A y \in T : n <= y
  <2>1. T \in SUBSET Nat OBVIOUS
  <2> HIDE DEF T
  <2> QED BY <2>1, LeastNat
<1>2. n \in Nat /\ ~ \E r : Runs(r, s, n) OBVIOUS
<1>3. n # 0
  <2> DEFINE z == [i \in 0 .. 0 |-> EmptyDir]
  <2>1. z = [i \in 0 .. 0 |-> IF i = 0 THEN EmptyDir ELSE ReplayRecord(z[i - 1], s[i])] OBVIOUS
  <2>2. Runs(z, s, 0) BY <2>1 DEF Runs
  <2> QED BY <1>2, <2>2
<1>4. n - 1 \in Nat /\ n - 1 \notin T BY <1>1, <1>2, <1>3
<1>5. PICK r : Runs(r, s, n - 1) BY <1>4
<1> DEFINE g == [i \in 0 .. n |-> IF i = 0 THEN EmptyDir ELSE ReplayRecord(r[i - 1], s[i])]
<1>6. \A i \in 0 .. n - 1 : g[i] = r[i]
  <2>1. r = [i \in 0 .. n - 1 |-> IF i = 0 THEN EmptyDir ELSE ReplayRecord(r[i - 1], s[i])] BY <1>5 DEF Runs
  <2>2. \A i \in 0 .. n - 1 : r[i] = IF i = 0 THEN EmptyDir ELSE ReplayRecord(r[i - 1], s[i]) BY <2>1, Zenon
  <2>3. \A i \in 0 .. n - 1 : i \in 0 .. n BY <1>2
  <2> QED BY <2>2, <2>3
<1>7. g = [i \in 0 .. n |-> IF i = 0 THEN EmptyDir ELSE ReplayRecord(g[i - 1], s[i])]
  <2>1. \A i \in 0 .. n : i # 0 => i - 1 \in 0 .. n - 1 BY <1>2
  <2> HIDE DEF g
  <2>2. g = [i \in 0 .. n |-> IF i = 0 THEN EmptyDir ELSE ReplayRecord(r[i - 1], s[i])] BY DEF g
  <2> QED BY <1>6, <2>1, <2>2
<1>8. Runs(g, s, n) BY <1>7 DEF Runs
<1> QED BY <1>2, <1>8

\* Replay is one.
LEMMA ReplayRuns == ASSUME NEW s, Len(s) \in Nat PROVE Runs(Replay(s), s, Len(s))
<1>1. Replay(s) = CHOOSE r : r = [i \in 0 .. Len(s) |-> IF i = 0 THEN EmptyDir ELSE ReplayRecord(r[i - 1], s[i])]
  BY DEF Replay
<1>2. Replay(s) = CHOOSE r : Runs(r, s, Len(s)) BY <1>1 DEF Runs
<1>3. \E r : Runs(r, s, Len(s)) BY RunsExists
<1> QED BY <1>2, <1>3, Zenon

\* The replay of no records is the empty directory.
LEMMA ReplayEmpty == Replay(<<>>)[Len(<<>>)] = EmptyDir
<1>1. Len(<<>>) = 0 OBVIOUS
<1>2. Runs(Replay(<<>>), <<>>, 0) BY <1>1, ReplayRuns
<1> DEFINE r == Replay(<<>>)
<1> HIDE DEF r
<1>3. r = [i \in 0 .. 0 |-> IF i = 0 THEN EmptyDir ELSE ReplayRecord(r[i - 1], <<>>[i])] BY <1>2 DEF Runs, r
<1>4. r[0] = EmptyDir BY <1>3
<1> QED BY <1>1, <1>4 DEF r

\* One more record is replayed after the others.
LEMMA ReplayAppend ==
  ASSUME NEW S, NEW s \in Seq(S), NEW x \in S, NEW z, z = Append(s, x)
  PROVE  Replay(z)[Len(z)] = ReplayRecord(Replay(s)[Len(s)], x)
<1>1. /\ Len(z) = Len(s) + 1 /\ Len(s) \in Nat /\ Len(z) \in Nat /\ z[Len(z)] = x
      /\ Len(s) <= Len(z) /\ \A i \in 1 .. Len(s) : s[i] = z[i]
  OBVIOUS
<1> DEFINE r == Replay(s)
<1> DEFINE q == Replay(z)
<1>2. Runs(r, s, Len(s)) /\ Runs(q, z, Len(z)) BY <1>1, ReplayRuns
<1> HIDE DEF r, q
<1>3. r[Len(s)] = q[Len(s)]
  <2> DEFINE T == {i \in 0 .. Len(s) : r[i] # q[i]}
  <2> SUFFICES ASSUME T # {} PROVE FALSE BY <1>1
  <2>1. PICK i \in T : \A y \in T : i <= y
    <3>1. T \in SUBSET Nat BY <1>1
    <3> HIDE DEF T
    <3> QED BY <3>1, LeastNat
  <2>2. i \in 0 .. Len(s) /\ i \in 0 .. Len(z) /\ r[i] # q[i] BY <1>1
  <2>3. r[i] = IF i = 0 THEN EmptyDir ELSE ReplayRecord(r[i - 1], s[i])
    <3>1. r = [j \in 0 .. Len(s) |-> IF j = 0 THEN EmptyDir ELSE ReplayRecord(r[j - 1], s[j])] BY <1>2 DEF Runs
    <3> QED BY <2>2, <3>1, Zenon
  <2>4. q[i] = IF i = 0 THEN EmptyDir ELSE ReplayRecord(q[i - 1], z[i])
    <3>1. q = [j \in 0 .. Len(z) |-> IF j = 0 THEN EmptyDir ELSE ReplayRecord(q[j - 1], z[j])] BY <1>2 DEF Runs
    <3> QED BY <2>2, <3>1, Zenon
  <2>5. i # 0 BY <2>2, <2>3, <2>4
  <2>6. i - 1 \in 0 .. Len(s) /\ i - 1 \notin T /\ i \in 1 .. Len(s) BY <1>1, <2>1, <2>2, <2>5
  <2>7. r[i - 1] = q[i - 1] /\ s[i] = z[i] BY <1>1, <2>6
  <2> QED BY <2>2, <2>3, <2>4, <2>5, <2>7
<1>4. q = [j \in 0 .. Len(z) |-> IF j = 0 THEN EmptyDir ELSE ReplayRecord(q[j - 1], z[j])] BY <1>2 DEF Runs
<1>5. Len(z) \in 0 .. Len(z) /\ Len(z) # 0 /\ Len(z) - 1 = Len(s) BY <1>1
<1>6. q[Len(z)] = ReplayRecord(q[Len(z) - 1], z[Len(z)]) BY <1>4, <1>5, Zenon
<1> QED BY <1>1, <1>3, <1>5, <1>6 DEF r, q

-----------------------------------------------------------------------------
(* Trees.  A tree gives every dentry its place, or None.                    *)

\* The path of place l in tree f.
PathIn(f, l) == IF l.par = Root THEN <<l.name>> ELSE <<f[l.par].name, l.name>>

Live(f) == {d \in Dents : f[d] # None}

\* The directory of place l is in f, in the root.
Home(f, l) == l.par = Root \/ (f[l.par] # None /\ f[l.par].par = Root /\ kind[l.par] = "dir")

Childless(f, d) == \A c \in Dents : f[c] # None => f[c].par # d

\* No two dentries in one place, and every place in a directory of the tree.
WellFormed(f) ==
  /\ f \in [Dents -> Locs \cup {None}]
  /\ f[Root] = None
  /\ \A d, e \in Dents : f[d] # None /\ f[d] = f[e] => d = e
  /\ \A d \in Dents : f[d] # None => Home(f, f[d]) /\ (kind[d] = "dir" => f[d].par = Root)

\* The directory fs has the paths of tree f, with the kinds and hard links of
\* its dentries and the contents dat.
Shows(fs, f, dat) ==
  /\ fs = [at |-> fs.at, inode |-> fs.inode]
  /\ DOMAIN fs.at = {PathIn(f, f[d]) : d \in Live(f)}
  /\ \A d \in Live(f) : LET i == fs.at[PathIn(f, f[d])] IN
       i \in DOMAIN fs.inode /\ fs.inode[i] = [kind |-> kind[d], data |-> dat[ino[d]]]
  /\ \A d, e \in Live(f) : ino[d] = ino[e] <=> fs.at[PathIn(f, f[d])] = fs.at[PathIn(f, f[e])]

\* What a place is.
LEMMA Places ==
  /\ None \notin Locs
  /\ \A l \in Locs : l.par \in Dents /\ l.name \in Names
  /\ \A l, m \in Locs : l.par = m.par /\ l.name = m.name => l = m
  BY NoneAssumption DEF Locs

\* What a live dentry of a tree has.
LEMMA LiveFacts ==
  ASSUME NEW f, WellFormed(f), NEW d \in Live(f)
  PROVE  /\ d \in Dents /\ d # Root /\ f[d] \in Locs /\ Home(f, f[d]) /\ f[d].par \in Dents /\ f[d].name \in Names
         /\ f[d].par # Root => /\ f[d].par \in Live(f) /\ f[f[d].par] \in Locs /\ f[f[d].par].par = Root
                              /\ f[f[d].par].name \in Names /\ kind[f[d].par] = "dir"
<1>1. d \in Dents /\ d # Root /\ f[d] \in Locs /\ Home(f, f[d]) BY DEF WellFormed, Live
<1>2. f[d].par \in Dents /\ f[d].name \in Names BY <1>1, Places
<1>3. ASSUME f[d].par # Root
      PROVE  /\ f[d].par \in Live(f) /\ f[f[d].par] \in Locs /\ f[f[d].par].par = Root
             /\ f[f[d].par].name \in Names /\ kind[f[d].par] = "dir"
  <2>1. f[f[d].par] # None /\ f[f[d].par].par = Root /\ kind[f[d].par] = "dir" BY <1>1, <1>3 DEF Home
  <2>2. f[f[d].par] \in Locs BY <1>2, <2>1 DEF WellFormed
  <2> QED BY <1>2, <2>1, <2>2, Places DEF Live
<1> QED BY <1>1, <1>2, <1>3

\* Different places have different paths.
LEMMA PathsDiffer ==
  ASSUME NEW f, WellFormed(f), NEW l \in Locs, NEW m \in Locs, Home(f, l), Home(f, m),
         PathIn(f, l) = PathIn(f, m)
  PROVE  l = m
<1>1. l.par \in Dents /\ m.par \in Dents BY Places
<1>2. CASE l.par = Root /\ m.par = Root BY <1>2, Places DEF PathIn
<1>3. CASE l.par # Root /\ m.par # Root
  <2>1. l.name = m.name /\ f[l.par].name = f[m.par].name BY <1>3 DEF PathIn
  <2>2. f[l.par] \in Locs /\ f[m.par] \in Locs /\ f[l.par].par = Root /\ f[m.par].par = Root
    BY <1>1, <1>3 DEF Home, WellFormed
  <2>3. f[l.par] = f[m.par] BY <2>1, <2>2, Places
  <2>4. l.par = m.par BY <1>1, <2>2, <2>3, Places DEF WellFormed
  <2> QED BY <2>1, <2>4, Places
<1>4. CASE (l.par = Root) # (m.par = Root)
  <2>1. Len(PathIn(f, l)) # Len(PathIn(f, m)) BY <1>4 DEF PathIn
  <2> QED BY <2>1
<1> QED BY <1>2, <1>3, <1>4

\* A path and a longer one.
LEMMA PrefixCases ==
  /\ \A a, b \in Names : ~IsStrictPrefix(<<a>>, <<b>>)
  /\ \A a, b, c \in Names : IsStrictPrefix(<<a>>, <<b, c>>) <=> a = b
  /\ \A a, b, c \in Names : ~IsStrictPrefix(<<a, b>>, <<c>>)
  /\ \A a, b, c, d \in Names : ~IsStrictPrefix(<<a, b>>, <<c, d>>)
<1>1. ASSUME NEW a \in Names, NEW b \in Names PROVE ~IsStrictPrefix(<<a>>, <<b>>)
  BY DEF IsStrictPrefix, IsPrefix
<1>2. ASSUME NEW a \in Names, NEW b \in Names, NEW c \in Names PROVE IsStrictPrefix(<<a>>, <<b, c>>) <=> a = b
  BY DEF IsStrictPrefix, IsPrefix
<1>3. ASSUME NEW a \in Names, NEW b \in Names, NEW c \in Names PROVE ~IsStrictPrefix(<<a, b>>, <<c>>)
  BY DEF IsStrictPrefix, IsPrefix
<1>4. ASSUME NEW a \in Names, NEW b \in Names, NEW c \in Names, NEW d \in Names
      PROVE  ~IsStrictPrefix(<<a, b>>, <<c, d>>)
  BY DEF IsStrictPrefix, IsPrefix
<1> QED BY <1>1, <1>2, <1>3, <1>4

\* What is below a path in the directory is what the tree has in it.
LEMMA BelowIs ==
  ASSUME NEW fs, NEW f, NEW dat, WellFormed(f), Shows(fs, f, dat), NEW d \in Live(f)
  PROVE  Below(fs, PathIn(f, f[d])) = {PathIn(f, f[c]) : c \in {x \in Live(f) : f[x].par = d}}
<1> DEFINE p == PathIn(f, f[d])
<1>1. d \in Dents /\ f[d] \in Locs /\ f[d].name \in Names BY LiveFacts
<1>2. ASSUME NEW c \in Live(f) PROVE IsStrictPrefix(p, PathIn(f, f[c])) <=> f[c].par = d
  <2>1. /\ c \in Dents /\ f[c] \in Locs /\ f[c].name \in Names
        /\ f[c].par # Root => /\ f[c].par \in Live(f) /\ f[f[c].par] \in Locs /\ f[f[c].par].par = Root
                              /\ f[f[c].par].name \in Names
    BY LiveFacts
  <2>2. d # Root BY LiveFacts
  <2>3. CASE f[d].par = Root
    <3>1. p = <<f[d].name>> BY <2>3 DEF PathIn
    <3>2. CASE f[c].par = Root
      <4>1. PathIn(f, f[c]) = <<f[c].name>> BY <3>2 DEF PathIn
      <4>2. ~IsStrictPrefix(<<f[d].name>>, <<f[c].name>>) BY <1>1, <2>1, PrefixCases, Zenon
      <4> QED BY <2>2, <3>1, <3>2, <4>1, <4>2
    <3>3. CASE f[c].par # Root
      <4>1. PathIn(f, f[c]) = <<f[f[c].par].name, f[c].name>> BY <3>3 DEF PathIn
      <4>2. IsStrictPrefix(p, PathIn(f, f[c])) <=> f[d].name = f[f[c].par].name
        <5>1. f[f[c].par].name \in Names BY <2>1, <3>3
        <5>2. IsStrictPrefix(<<f[d].name>>, <<f[f[c].par].name, f[c].name>>) <=> f[d].name = f[f[c].par].name
          BY <1>1, <2>1, <5>1, PrefixCases
        <5> QED BY <3>1, <4>1, <5>2
      <4>3. f[d].name = f[f[c].par].name => f[d] = f[f[c].par] BY <1>1, <2>1, <2>3, <3>3, Places
      <4>4. f[d] = f[f[c].par] => d = f[c].par BY <1>1, <2>1, <3>3 DEF WellFormed, Live
      <4> QED BY <4>2, <4>3, <4>4
    <3> QED BY <3>2, <3>3
  <2>4. CASE f[d].par # Root
    <3>1. p = <<f[f[d].par].name, f[d].name>> /\ f[f[d].par].name \in Names BY <2>4, LiveFacts DEF PathIn
    <3>2. f[c].par # d BY <2>1, <2>2, <2>4
    <3>3. ~IsStrictPrefix(p, PathIn(f, f[c]))
      <4>1. CASE f[c].par = Root
        <5>1. PathIn(f, f[c]) = <<f[c].name>> BY <4>1 DEF PathIn
        <5>2. ~IsStrictPrefix(<<f[f[d].par].name, f[d].name>>, <<f[c].name>>) BY <1>1, <2>1, <3>1, PrefixCases, Zenon
        <5> QED BY <3>1, <5>1, <5>2
      <4>2. CASE f[c].par # Root
        <5>1. PathIn(f, f[c]) = <<f[f[c].par].name, f[c].name>> BY <4>2 DEF PathIn
        <5>2. f[f[c].par].name \in Names BY <2>1, <4>2
        <5>3. ~IsStrictPrefix(<<f[f[d].par].name, f[d].name>>, <<f[f[c].par].name, f[c].name>>)
          BY <1>1, <2>1, <3>1, <5>2, PrefixCases
        <5> QED BY <3>1, <5>1, <5>3
      <4> QED BY <4>1, <4>2
    <3> QED BY <3>2, <3>3
  <2> QED BY <2>3, <2>4
<1>3. DOMAIN fs.at = {PathIn(f, f[c]) : c \in Live(f)} BY DEF Shows
<1> QED BY <1>2, <1>3 DEF Below

\* The system calls find the dentry of a place.
LEMMA AtPlace ==
  ASSUME NEW fs, NEW f, NEW dat, WellFormed(f), Shows(fs, f, dat), NEW l \in Locs, Home(f, l)
  PROVE  /\ Exists(fs, PathIn(f, l)) <=> \E e \in Live(f) : f[e] = l
         /\ \A e \in Live(f) : f[e] = l => (IsDir(fs, PathIn(f, l)) <=> kind[e] = "dir")
<1>1. DOMAIN fs.at = {PathIn(f, f[c]) : c \in Live(f)} BY DEF Shows
<1>2. ASSUME NEW e \in Live(f), PathIn(f, l) = PathIn(f, f[e]) PROVE l = f[e]
  <2>1. f[e] \in Locs /\ Home(f, f[e]) BY LiveFacts
  <2> QED BY <1>2, <2>1, PathsDiffer
<1>3. Exists(fs, PathIn(f, l)) <=> \E e \in Live(f) : f[e] = l BY <1>1, <1>2 DEF Exists
<1>4. ASSUME NEW e \in Live(f), f[e] = l PROVE IsDir(fs, PathIn(f, l)) <=> kind[e] = "dir"
  <2>1. fs.inode[fs.at[PathIn(f, f[e])]] = [kind |-> kind[e], data |-> dat[ino[e]]] BY Zenon DEF Shows
  <2>2. fs.inode[fs.at[PathIn(f, l)]].kind = kind[e] BY <1>4, <2>1
  <2> QED BY <1>3, <1>4, <2>2 DEF IsDir
<1> QED BY <1>3, <1>4

\* The first name of a path with two.
LEMMA FrontOfTwo == ASSUME NEW a \in Names, NEW b \in Names PROVE Front(<<a, b>>) = <<a>>
<1> DEFINE s == SubSeq(<<a, b>>, 1, 1)
<1>1. s \in Seq(Names) /\ Len(s) = 1 /\ s[1] = a
  <2>1. \A i \in 1 .. 1 : <<a, b>>[i] \in Names OBVIOUS
  <2>2. s \in Seq(Names) /\ Len(s) = (IF 1 <= 1 THEN 1 - 1 + 1 ELSE 0) /\ \A i \in 1 .. 1 - 1 + 1 : s[i] = <<a, b>>[1 + i - 1]
    BY <2>1, SubSeqProperties
  <2> QED BY <2>2
<1> HIDE DEF s
<1>2. s = <<a>> BY <1>1
<1>3. Len(<<a, b>>) - 1 = 1 OBVIOUS
<1> QED BY <1>2, <1>3 DEF s, Front

\* An entry can be made at a place in the tree that no dentry has.
LEMMA VacantIs ==
  ASSUME NEW fs, NEW f, NEW dat, WellFormed(f), Shows(fs, f, dat), NEW l \in Locs, Home(f, l)
  PROVE  Vacant(fs, PathIn(f, l)) <=> \A e \in Dents : f[e] # l
<1>1. Exists(fs, PathIn(f, l)) <=> \E e \in Dents : f[e] = l BY AtPlace, Places DEF Live
<1>2. l.name \in Names /\ l.par \in Dents BY Places
<1>3. CASE l.par = Root
  <2>1. Len(PathIn(f, l)) = 1 BY <1>3 DEF PathIn
  <2> QED BY <1>1, <2>1 DEF Vacant
<1>4. CASE l.par # Root
  <2>1. l.par \in Live(f) /\ f[l.par].par = Root /\ kind[l.par] = "dir" BY <1>2, <1>4 DEF Home, Live
  <2>2. f[l.par].name \in Names /\ f[l.par] \in Locs /\ Home(f, f[l.par]) BY <2>1, LiveFacts
  <2>3. Front(PathIn(f, l)) = <<f[l.par].name>> BY <1>2, <1>4, <2>2, FrontOfTwo DEF PathIn
  <2>4. PathIn(f, f[l.par]) = <<f[l.par].name>> BY <2>1 DEF PathIn
  <2>5. IsDir(fs, Front(PathIn(f, l))) BY <2>1, <2>2, <2>3, <2>4, AtPlace
  <2> QED BY <1>1, <2>5 DEF Vacant
<1> QED BY <1>3, <1>4

-----------------------------------------------------------------------------
(* What each system call of treplay does to a directory that shows a tree.  *)

\* Dentry d is not in tree f and can be put at place l.
Fits(f, d, l) ==
  /\ d \in Dents \ {Root} /\ f[d] = None
  /\ l \in Locs /\ Home(f, l) /\ \A e \in Dents : f[e] # l
  /\ kind[d] = "dir" => l.par = Root

Placing(f, d, l) == [f EXCEPT ![d] = l]

\* A dentry is put into a tree.
LEMMA GrowTree ==
  ASSUME NEW f, WellFormed(f), NEW d, NEW l, Fits(f, d, l), NEW g, g = Placing(f, d, l)
  PROVE  /\ WellFormed(g) /\ Live(g) = Live(f) \cup {d} /\ g[d] = l
         /\ PathIn(g, l) = PathIn(f, l)
         /\ \A x \in Live(f) : x # d /\ g[x] = f[x] /\ PathIn(g, f[x]) = PathIn(f, f[x])
<1> USE DEF Fits
<1>1. f \in [Dents -> Locs \cup {None}] /\ f[Root] = None BY DEF WellFormed
<1>2. /\ g \in [Dents -> Locs \cup {None}] /\ g[d] = l /\ g[Root] = None
      /\ \A x \in Dents : x # d => g[x] = f[x]
  BY <1>1, RootAssumption DEF Placing
<1>3. Live(g) = Live(f) \cup {d} BY <1>2, Places DEF Live
<1>4. l.par \in Dents /\ l.par # d BY Places DEF Home
<1>5. PathIn(g, l) = PathIn(f, l) /\ Home(g, l) BY <1>2, <1>4 DEF PathIn, Home
<1>6. ASSUME NEW x \in Live(f)
      PROVE  x # d /\ x \in Dents /\ g[x] = f[x] /\ PathIn(g, f[x]) = PathIn(f, f[x]) /\ Home(g, f[x])
  <2>1. x # d /\ x \in Dents BY DEF Live
  <2>2. f[x].par # d /\ f[x].par \in Dents /\ Home(f, f[x]) BY LiveFacts DEF Live
  <2> QED BY <1>2, <2>1, <2>2 DEF PathIn, Home
<1>7. WellFormed(g)
  <2>1. \A x, y \in Dents : g[x] # None /\ g[x] = g[y] => x = y BY <1>2, <1>3 DEF WellFormed
  <2>2. \A x \in Dents : g[x] # None => Home(g, g[x]) /\ (kind[x] = "dir" => g[x].par = Root)
    BY <1>2, <1>3, <1>5, <1>6 DEF WellFormed, Live
  <2> QED BY <1>2, <2>1, <2>2 DEF WellFormed
<1> QED BY <1>2, <1>3, <1>5, <1>6, <1>7

\* A directory that gets the path of that dentry, for inode i, shows the tree.
LEMMA GrowShown ==
  ASSUME NEW fs, NEW f, NEW dat, WellFormed(f), Shows(fs, f, dat),
         NEW d, NEW l, Fits(f, d, l), NEW g, g = Placing(f, d, l),
         NEW i, NEW gs, gs = [at |-> gs.at, inode |-> gs.inode], gs.at = With(fs.at, PathIn(f, l), i),
         \A x \in Live(f) : ino[x] = ino[d] <=> fs.at[PathIn(f, f[x])] = i,
         \A j \in DOMAIN fs.inode : j \in DOMAIN gs.inode /\ gs.inode[j] = fs.inode[j],
         i \in DOMAIN gs.inode, gs.inode[i] = [kind |-> kind[d], data |-> dat[ino[d]]]
  PROVE  WellFormed(g) /\ Shows(gs, g, dat)
<1> DEFINE P(x) == PathIn(f, f[x])
<1>1. /\ WellFormed(g) /\ Live(g) = Live(f) \cup {d} /\ g[d] = l /\ PathIn(g, l) = PathIn(f, l)
      /\ \A x \in Live(f) : x # d /\ g[x] = f[x] /\ PathIn(g, f[x]) = P(x)
  BY GrowTree
<1>2. DOMAIN fs.at = {P(x) : x \in Live(f)} BY DEF Shows
<1>3. PathIn(f, l) \notin DOMAIN fs.at
  <2>1. ~Exists(fs, PathIn(f, l)) BY AtPlace DEF Live, Fits
  <2> QED BY <2>1 DEF Exists
<1>4. /\ DOMAIN gs.at = DOMAIN fs.at \cup {PathIn(f, l)} /\ gs.at[PathIn(f, l)] = i
      /\ \A p \in DOMAIN fs.at : gs.at[p] = fs.at[p]
  BY <1>3 DEF With
<1>5. \A x \in Live(f) : PathIn(g, g[x]) = P(x) /\ gs.at[PathIn(g, g[x])] = fs.at[P(x)] BY <1>1, <1>2, <1>4
<1>6. PathIn(g, g[d]) = PathIn(f, l) /\ gs.at[PathIn(g, g[d])] = i BY <1>1, <1>4
<1>7. DOMAIN gs.at = {PathIn(g, g[x]) : x \in Live(g)}
  <2>1. \A p \in DOMAIN gs.at : \E x \in Live(g) : p = PathIn(g, g[x]) BY <1>1, <1>2, <1>4, <1>5, <1>6
  <2>2. \A x \in Live(g) : PathIn(g, g[x]) \in DOMAIN gs.at BY <1>1, <1>2, <1>4, <1>5, <1>6
  <2> QED BY <2>1, <2>2
<1>8. ASSUME NEW x \in Live(g)
      PROVE  /\ gs.at[PathIn(g, g[x])] \in DOMAIN gs.inode
             /\ gs.inode[gs.at[PathIn(g, g[x])]] = [kind |-> kind[x], data |-> dat[ino[x]]]
  <2>1. CASE x = d BY <1>6, <2>1
  <2>2. CASE x \in Live(f)
    <3>1. fs.at[P(x)] \in DOMAIN fs.inode /\ fs.inode[fs.at[P(x)]] = [kind |-> kind[x], data |-> dat[ino[x]]]
      BY <2>2, Zenon DEF Shows
    <3> QED BY <1>5, <2>2, <3>1
  <2> QED BY <1>1, <2>1, <2>2
<1>9. ASSUME NEW x \in Live(g), NEW y \in Live(g)
      PROVE  ino[x] = ino[y] <=> gs.at[PathIn(g, g[x])] = gs.at[PathIn(g, g[y])]
  <2>1. CASE x \in Live(f) /\ y \in Live(f)
    <3>1. ino[x] = ino[y] <=> fs.at[P(x)] = fs.at[P(y)] BY <2>1, Zenon DEF Shows
    <3> QED BY <1>5, <2>1, <3>1
  <2>2. CASE x = d /\ y = d BY <2>2
  <2>3. CASE x = d /\ y \in Live(f) BY <1>5, <1>6, <2>3
  <2>4. CASE x \in Live(f) /\ y = d BY <1>5, <1>6, <2>4
  <2> QED BY <1>1, <2>1, <2>2, <2>3, <2>4
<1> QED BY <1>1, <1>7, <1>8, <1>9, Zenon DEF Shows

\* open(O_CREAT), mkdir and symlink make the entry that the lower file system has.
LEMMA MakeShown ==
  ASSUME NEW fs, NEW f, NEW dat, WellFormed(f), Shows(fs, f, dat),
         NEW d, NEW l, Fits(f, d, l), \A e \in Live(f) : ino[e] # ino[d], dat[ino[d]] = <<>>,
         NEW id, id \notin DOMAIN fs.inode,
         NEW g, g = Placing(f, d, l), NEW gs, gs = MakeEntry(fs, PathIn(f, l), id, kind[d])
  PROVE  WellFormed(g) /\ Shows(gs, g, dat) /\ DOMAIN gs.inode = DOMAIN fs.inode \cup {id}
<1>1. Vacant(fs, PathIn(f, l)) BY VacantIs DEF Fits
<1>2. gs = [at |-> With(fs.at, PathIn(f, l), id), inode |-> With(fs.inode, id, [kind |-> kind[d], data |-> <<>>])]
  BY <1>1 DEF MakeEntry
<1>3. gs = [at |-> gs.at, inode |-> gs.inode] /\ gs.at = With(fs.at, PathIn(f, l), id)
  BY <1>2
<1>4. gs.inode = With(fs.inode, id, [kind |-> kind[d], data |-> <<>>]) BY <1>2
<1>5. /\ DOMAIN gs.inode = DOMAIN fs.inode \cup {id} /\ gs.inode[id] = [kind |-> kind[d], data |-> dat[ino[d]]]
      /\ \A j \in DOMAIN fs.inode : j \in DOMAIN gs.inode /\ gs.inode[j] = fs.inode[j]
  BY <1>4 DEF With
<1>6. \A x \in Live(f) : ino[x] = ino[d] <=> fs.at[PathIn(f, f[x])] = id
  <2>1. \A x \in Live(f) : fs.at[PathIn(f, f[x])] \in DOMAIN fs.inode BY DEF Shows
  <2> QED BY <2>1
<1>7. id \in DOMAIN gs.inode BY <1>5
<1> QED BY <1>3, <1>5, <1>6, <1>7, GrowShown

\* link makes the hard link that the lower file system has.
LEMMA LinkShown ==
  ASSUME NEW fs, NEW f, NEW dat, WellFormed(f), Shows(fs, f, dat),
         NEW d, NEW l, Fits(f, d, l),
         NEW c \in Live(f), kind[c] # "dir", ino[d] = ino[c], kind[d] = kind[c],
         NEW g, g = Placing(f, d, l), NEW gs, gs = LinkEntry(fs, PathIn(f, f[c]), PathIn(f, l))
  PROVE  WellFormed(g) /\ Shows(gs, g, dat) /\ gs.inode = fs.inode
<1> DEFINE i == fs.at[PathIn(f, f[c])]
<1>1. Vacant(fs, PathIn(f, l)) BY VacantIs DEF Fits
<1>2. f[c] \in Locs /\ Home(f, f[c]) BY LiveFacts
<1>3. Exists(fs, PathIn(f, f[c])) /\ ~IsDir(fs, PathIn(f, f[c])) BY <1>2, AtPlace
<1>4. fs = [at |-> fs.at, inode |-> fs.inode] BY DEF Shows
<1>5. gs = [fs EXCEPT !.at = With(@, PathIn(f, l), i)] BY <1>1, <1>3 DEF LinkEntry
<1> HIDE DEF i
<1>6. gs = [at |-> With(fs.at, PathIn(f, l), i), inode |-> fs.inode] BY <1>4, <1>5
<1>7. gs = [at |-> gs.at, inode |-> gs.inode] /\ gs.at = With(fs.at, PathIn(f, l), i) /\ gs.inode = fs.inode
  BY <1>6
<1>8. \A x \in Live(f) : ino[x] = ino[d] <=> fs.at[PathIn(f, f[x])] = i BY Zenon DEF Shows, i
<1>9. i \in DOMAIN fs.inode /\ fs.inode[i] = [kind |-> kind[c], data |-> dat[ino[c]]] BY Zenon DEF Shows, i
<1>10. i \in DOMAIN gs.inode /\ gs.inode[i] = [kind |-> kind[d], data |-> dat[ino[d]]] BY <1>7, <1>9
<1> QED BY <1>7, <1>8, <1>10, GrowShown

\* A dentry with nothing in it is taken out of a tree.
LEMMA ShrinkTree ==
  ASSUME NEW f, WellFormed(f), NEW d \in Live(f), Childless(f, d), NEW g, g = Placing(f, d, None)
  PROVE  /\ WellFormed(g) /\ Live(g) = Live(f) \ {d}
         /\ \A x \in Live(g) : g[x] = f[x] /\ PathIn(g, f[x]) = PathIn(f, f[x])
<1>1. f \in [Dents -> Locs \cup {None}] /\ f[Root] = None /\ d \in Dents BY DEF WellFormed, Live
<1>2. /\ g \in [Dents -> Locs \cup {None}] /\ g[d] = None /\ g[Root] = None
      /\ \A x \in Dents : x # d => g[x] = f[x]
  BY <1>1, RootAssumption DEF Placing
<1>3. Live(g) = Live(f) \ {d} BY <1>1, <1>2 DEF Live
<1>4. ASSUME NEW x \in Live(g)
      PROVE  g[x] = f[x] /\ PathIn(g, f[x]) = PathIn(f, f[x]) /\ Home(g, f[x])
  <2>1. x # d /\ x \in Dents /\ x \in Live(f) BY <1>3 DEF Live
  <2>2. f[x].par # d /\ f[x].par \in Dents /\ Home(f, f[x]) BY <2>1, LiveFacts DEF Live, Childless
  <2> QED BY <1>2, <2>1, <2>2 DEF PathIn, Home
<1>5. WellFormed(g)
  <2>1. \A x, y \in Dents : g[x] # None /\ g[x] = g[y] => x = y BY <1>2, <1>3 DEF WellFormed
  <2>2. \A x \in Dents : g[x] # None => Home(g, g[x]) /\ (kind[x] = "dir" => g[x].par = Root)
    BY <1>2, <1>3, <1>4 DEF WellFormed, Live
  <2> QED BY <1>2, <2>1, <2>2 DEF WellFormed
<1> QED BY <1>3, <1>4, <1>5

\* remove does what unlink and rmdir did below.
LEMMA RemoveShown ==
  ASSUME NEW fs, NEW f, NEW dat, WellFormed(f), Shows(fs, f, dat), NEW d \in Live(f), Childless(f, d),
         NEW g, g = Placing(f, d, None), NEW gs, gs = RemoveEntry(fs, PathIn(f, f[d]))
  PROVE  WellFormed(g) /\ Shows(gs, g, dat) /\ gs.inode = fs.inode
<1> DEFINE P(x) == PathIn(f, f[x])
<1>1. /\ WellFormed(g) /\ Live(g) = Live(f) \ {d}
      /\ \A x \in Live(g) : g[x] = f[x] /\ PathIn(g, f[x]) = P(x)
  BY ShrinkTree
<1>2. f[d] \in Locs /\ Home(f, f[d]) BY LiveFacts
<1>3. Exists(fs, P(d)) BY <1>2, AtPlace
<1>4. Below(fs, P(d)) = {} BY BelowIs DEF Childless, Live
<1>5. fs = [at |-> fs.at, inode |-> fs.inode] BY DEF Shows
<1>6. gs = [fs EXCEPT !.at = Restrict(@, DOMAIN @ \ {P(d)})] BY <1>3, <1>4 DEF RemoveEntry
<1>7. gs = [at |-> Restrict(fs.at, DOMAIN fs.at \ {P(d)}), inode |-> fs.inode] BY <1>5, <1>6
<1>8. gs = [at |-> gs.at, inode |-> gs.inode] /\ gs.inode = fs.inode /\ gs.at = Restrict(fs.at, DOMAIN fs.at \ {P(d)})
  BY <1>7
<1>9. DOMAIN gs.at = DOMAIN fs.at \ {P(d)} /\ \A p \in DOMAIN gs.at : gs.at[p] = fs.at[p]
  BY <1>8 DEF Restrict
<1>10. DOMAIN fs.at = {P(x) : x \in Live(f)} BY DEF Shows
<1>11. \A x \in Live(g) : P(x) # P(d)
  <2> SUFFICES ASSUME NEW x \in Live(g), P(x) = P(d) PROVE FALSE OBVIOUS
  <2>1. x \in Live(f) /\ x # d BY <1>1
  <2>2. f[x] \in Locs /\ Home(f, f[x]) BY <2>1, LiveFacts
  <2>3. f[x] = f[d] BY <1>2, <2>2, PathsDiffer
  <2> QED BY <2>1, <2>3 DEF WellFormed, Live
<1>12. \A x \in Live(g) : x \in Live(f) /\ PathIn(g, g[x]) = P(x) /\ P(x) \in DOMAIN gs.at /\ gs.at[P(x)] = fs.at[P(x)]
  BY <1>1, <1>9, <1>10, <1>11
<1>13. DOMAIN gs.at = {PathIn(g, g[x]) : x \in Live(g)}
  <2>1. \A p \in DOMAIN gs.at : \E x \in Live(g) : p = PathIn(g, g[x]) BY <1>1, <1>9, <1>10, <1>12
  <2> QED BY <1>12, <2>1
<1>14. ASSUME NEW x \in Live(g)
       PROVE  /\ gs.at[PathIn(g, g[x])] \in DOMAIN gs.inode
              /\ gs.inode[gs.at[PathIn(g, g[x])]] = [kind |-> kind[x], data |-> dat[ino[x]]]
  <2>1. x \in Live(f) BY <1>12
  <2>2. fs.at[P(x)] \in DOMAIN fs.inode /\ fs.inode[fs.at[P(x)]] = [kind |-> kind[x], data |-> dat[ino[x]]]
    BY <2>1, Zenon DEF Shows
  <2> QED BY <1>8, <1>12, <2>2
<1>15. ASSUME NEW x \in Live(g), NEW y \in Live(g)
       PROVE  ino[x] = ino[y] <=> gs.at[PathIn(g, g[x])] = gs.at[PathIn(g, g[y])]
  <2>1. x \in Live(f) /\ y \in Live(f) BY <1>12
  <2>2. ino[x] = ino[y] <=> fs.at[P(x)] = fs.at[P(y)] BY <2>1, Zenon DEF Shows
  <2> QED BY <1>12, <2>2
<1>16. Shows(gs, g, dat) BY <1>8, <1>13, <1>14, <1>15, Zenon DEF Shows
<1> QED BY <1>1, <1>8, <1>16

\* remove fails on a directory that is not empty, as rmdir did.
LEMMA RemoveRefused ==
  ASSUME NEW fs, NEW f, NEW dat, WellFormed(f), Shows(fs, f, dat), NEW d \in Live(f), ~Childless(f, d)
  PROVE  RemoveEntry(fs, PathIn(f, f[d])) = fs
<1>1. Below(fs, PathIn(f, f[d])) # {} BY BelowIs DEF Childless, Live
<1> QED BY <1>1 DEF RemoveEntry

\* A unit written at the end.
LEMMA PutAtEnd == ASSUME NEW S, NEW s \in Seq(S), NEW x PROVE Put(s, Len(s), x) = Append(s, x)
  BY DEF Put

\* The open with O_APPEND, write and close of a write record.
AppendFile(fs, p, x) == WriteFile(fs, p, TRUE, x)

\* Contents e are dat with x at the end of inode i.
Appended(dat, e, i, x) == e[i] = Append(dat[i], x) /\ \A j \in Dents : j # i => e[j] = dat[j]

Contents(dat) == dat \in [Dents -> Seq(1 .. MaxOps)] /\ ino \in [Dents -> Dents]

\* They append to the same file.
LEMMA WriteShown ==
  ASSUME NEW fs, NEW f, NEW dat, Contents(dat),
         WellFormed(f), Shows(fs, f, dat),
         NEW d \in Live(f), kind[d] = "file", NEW x,
         NEW e, Appended(dat, e, ino[d], x),
         NEW gs, gs = AppendFile(fs, PathIn(f, f[d]), x)
  PROVE  Shows(gs, f, e) /\ DOMAIN gs.inode = DOMAIN fs.inode
<1> DEFINE P(y) == PathIn(f, f[y])
<1> DEFINE i == fs.at[P(d)]
<1>1. f[d] \in Locs /\ Home(f, f[d]) /\ d \in Dents BY LiveFacts
<1>2. Exists(fs, P(d)) BY <1>1, AtPlace
<1>3. i \in DOMAIN fs.inode /\ fs.inode[i] = [kind |-> kind[d], data |-> dat[ino[d]]] BY Zenon DEF Shows
<1>4. fs = [at |-> fs.at, inode |-> fs.inode] BY DEF Shows
<1>5. gs = [fs EXCEPT !.inode[i].data = Put(@, Len(@), x)] BY <1>2, <1>3 DEF WriteFile, AppendFile
<1> HIDE DEF i
<1>6. /\ gs = [at |-> gs.at, inode |-> gs.inode] /\ gs.at = fs.at
      /\ gs.inode = [fs.inode EXCEPT ![i].data = Put(@, Len(@), x)]
  BY <1>4, <1>5
<1>7. DOMAIN gs.inode = DOMAIN fs.inode /\ \A j \in DOMAIN fs.inode : j # i => gs.inode[j] = fs.inode[j] BY <1>6
<1>8. dat[ino[d]] \in Seq(1 .. MaxOps) /\ ino[d] \in Dents BY <1>1 DEF Contents
<1>9. gs.inode[i] = [kind |-> kind[d], data |-> Append(dat[ino[d]], x)]
  <2>1. gs.inode[i] = [fs.inode[i] EXCEPT !.data = Put(@, Len(@), x)] BY <1>3, <1>6
  <2>2. gs.inode[i] = [kind |-> kind[d], data |-> Put(dat[ino[d]], Len(dat[ino[d]]), x)] 
    <3> DEFINE r == fs.inode[i]
    <3> DEFINE k == kind[d]
    <3> DEFINE s == dat[ino[d]]
    <3>1. r = [kind |-> k, data |-> s] /\ gs.inode[i] = [r EXCEPT !.data = Put(@, Len(@), x)] BY <1>3, <2>1
    <3> HIDE DEF r, k, s
    <3>2. gs.inode[i] = [kind |-> k, data |-> Put(s, Len(s), x)] BY <3>1
    <3> QED BY <3>2 DEF k, s
  <2> QED BY <1>8, <2>2, PutAtEnd
<1>10. e[ino[d]] = Append(dat[ino[d]], x) /\ \A j \in Dents : j # ino[d] => e[j] = dat[j] BY DEF Appended
<1>11. ASSUME NEW y \in Live(f)
       PROVE  gs.at[P(y)] \in DOMAIN gs.inode /\ gs.inode[gs.at[P(y)]] = [kind |-> kind[y], data |-> e[ino[y]]]
  <2>1. fs.at[P(y)] \in DOMAIN fs.inode /\ fs.inode[fs.at[P(y)]] = [kind |-> kind[y], data |-> dat[ino[y]]]
    BY Zenon DEF Shows
  <2>2. ino[y] = ino[d] <=> fs.at[P(y)] = i BY Zenon DEF Shows, i
  <2>3. ino[y] \in Dents BY DEF Live, Contents
  <2>4. CASE ino[y] = ino[d]
    <3>1. kind[y] = kind[d]
      <4>1. [kind |-> kind[y], data |-> dat[ino[y]]].kind = [kind |-> kind[d], data |-> dat[ino[d]]].kind
        BY <1>3, <2>1, <2>2, <2>4
      <4> QED BY <4>1
    <3> QED BY <1>6, <1>7, <1>9, <1>10, <2>1, <2>2, <2>4, <3>1
  <2>5. CASE ino[y] # ino[d] BY <1>6, <1>7, <1>10, <2>1, <2>2, <2>3, <2>5
  <2> QED BY <2>4, <2>5
<1>12. DOMAIN gs.at = {P(y) : y \in Live(f)} BY <1>6 DEF Shows
<1>13. \A y, z \in Live(f) : ino[y] = ino[z] <=> gs.at[P(y)] = gs.at[P(z)]
  <2>1. \A y, z \in Live(f) : ino[y] = ino[z] <=> fs.at[P(y)] = fs.at[P(z)] BY Zenon DEF Shows
  <2> SUFFICES ASSUME NEW y \in Live(f), NEW z \in Live(f) PROVE ino[y] = ino[z] <=> gs.at[P(y)] = gs.at[P(z)]
    OBVIOUS
  <2>2. ino[y] = ino[z] <=> fs.at[P(y)] = fs.at[P(z)] BY <2>1
  <2>3. gs.at = fs.at BY <1>6
  <2> QED BY <2>2, <2>3
<1>14. Shows(gs, f, e) BY <1>6, <1>11, <1>12, <1>13, Zenon DEF Shows
<1> QED BY <1>7, <1>14

\* Dentry d goes to place l, and what is there goes.
Renaming(f, d, l) == [x \in Dents |-> IF x = d THEN l ELSE IF f[x] = l THEN None ELSE f[x]]

\* Dentry d can go to place l: what is there is of the same sort and empty.
CanMove(f, d, l) ==
  /\ d \in Live(f) /\ l \in Locs /\ Home(f, l) /\ f[d] # l
  /\ kind[d] = "dir" => l.par = Root
  /\ \A e \in Live(f) : f[e] = l => (kind[e] = "dir" <=> kind[d] = "dir") /\ ino[e] # ino[d] /\ Childless(f, e)

\* What the dentries that a rename leaves have.
LEMMA MoveTree ==
  ASSUME NEW f, WellFormed(f), NEW d, NEW l, CanMove(f, d, l), NEW g, g = Renaming(f, d, l)
  PROVE  /\ WellFormed(g) /\ Live(g) = {x \in Live(f) : f[x] # l} /\ g[d] = l /\ PathIn(g, l) = PathIn(f, l)
         /\ \A x \in Live(g) : x # d => g[x] = f[x]
         /\ \A x \in Live(g) : x # d /\ f[x].par # d => PathIn(g, f[x]) = PathIn(f, f[x])
<1> USE DEF CanMove
<1>1. f \in [Dents -> Locs \cup {None}] /\ f[Root] = None /\ d \in Dents /\ d # Root BY LiveFacts DEF WellFormed
<1>2. /\ g \in [Dents -> Locs \cup {None}] /\ g[d] = l /\ g[Root] = None
      /\ \A x \in Dents : x # d => g[x] = IF f[x] = l THEN None ELSE f[x]
  BY <1>1, RootAssumption, Places DEF Renaming
<1>3. Live(g) = {x \in Live(f) : f[x] # l} BY <1>1, <1>2, Places DEF Live
<1>4. l.par \in Dents /\ l.par # d BY <1>1, Places DEF Home
<1>5. l.par # Root => g[l.par] = f[l.par] BY <1>2, <1>4 DEF Home
<1>6. PathIn(g, l) = PathIn(f, l) /\ Home(g, l) BY <1>5 DEF PathIn, Home
<1>7. ASSUME NEW x \in Live(g), x # d
      PROVE  /\ g[x] = f[x] /\ x \in Dents /\ Home(g, f[x])
             /\ f[x].par # d => PathIn(g, f[x]) = PathIn(f, f[x])
  <2>1. x \in Live(f) /\ x \in Dents /\ f[x] # l BY <1>3 DEF Live
  <2>2. g[x] = f[x] BY <1>2, <1>7, <2>1
  <2>3. f[x].par \in Dents /\ Home(f, f[x]) BY <2>1, LiveFacts
  <2>4. f[x].par # Root /\ f[x].par # d => g[f[x].par] = f[f[x].par]
    <3> SUFFICES ASSUME f[x].par # Root, f[x].par # d, f[f[x].par] = l PROVE FALSE BY <1>2, <2>3
    <3>1. f[x].par \in Live(f) BY <2>1, LiveFacts
    <3>2. Childless(f, f[x].par) BY <3>1
    <3> QED BY <2>1, <3>2 DEF Childless, Live
  <2>5. f[x].par = d => Home(g, f[x]) BY <1>1, <1>2, <2>3, Places DEF Home
  <2>6. f[x].par # d => Home(g, f[x]) BY <2>3, <2>4 DEF Home
  <2>7. f[x].par # d => PathIn(g, f[x]) = PathIn(f, f[x]) BY <2>4 DEF PathIn
  <2> QED BY <2>1, <2>2, <2>5, <2>6, <2>7
<1>8. WellFormed(g)
  <2>1. \A x, y \in Dents : g[x] # None /\ g[x] = g[y] => x = y
    <3> SUFFICES ASSUME NEW x \in Dents, NEW y \in Dents, g[x] # None, g[x] = g[y] PROVE x = y OBVIOUS
    <3>1. x \in Live(g) /\ y \in Live(g) BY DEF Live
    <3>2. f[x] # l /\ f[y] # l BY <3>1, <1>3
    <3>3. CASE x # d /\ y # d BY <1>7, <3>1, <3>3 DEF WellFormed, Live
    <3>4. CASE x = d \/ y = d BY <1>2, <1>7, <3>1, <3>2, <3>4
    <3> QED BY <3>3, <3>4
  <2>2. \A x \in Dents : g[x] # None => Home(g, g[x]) /\ (kind[x] = "dir" => g[x].par = Root)
    <3> SUFFICES ASSUME NEW x \in Dents, g[x] # None PROVE Home(g, g[x]) /\ (kind[x] = "dir" => g[x].par = Root)
      OBVIOUS
    <3>1. x \in Live(g) BY DEF Live
    <3>2. CASE x = d BY <1>2, <1>6, <3>2
    <3>3. CASE x # d
      <4>1. g[x] = f[x] /\ Home(g, f[x]) BY <1>7, <3>1, <3>3
      <4> QED BY <4>1 DEF WellFormed
    <3> QED BY <3>2, <3>3
  <2> QED BY <1>2, <2>1, <2>2 DEF WellFormed
<1> QED BY <1>2, <1>3, <1>6, <1>7, <1>8

\* A path that moves: nothing is left of the moved path itself, and the last
\* name of a path with two.
LEMMA MovedPath ==
  ASSUME NEW q \in Seq(Names)
  PROVE  /\ \A p \in Seq(Names) : q \o SubSeq(p, Len(p) + 1, Len(p)) = q
         /\ \A a, b, c \in Names : <<c>> \o SubSeq(<<a, b>>, Len(<<a>>) + 1, Len(<<a, b>>)) = <<c, b>>
<1>1. ASSUME NEW p \in Seq(Names) PROVE q \o SubSeq(p, Len(p) + 1, Len(p)) = q
  <2>1. SubSeq(p, Len(p) + 1, Len(p)) = <<>> BY SubSeqEmpty
  <2>2. q \o <<>> = q BY ConcatEmptySeq
  <2> QED BY <2>1, <2>2
<1>2. ASSUME NEW a \in Names, NEW b \in Names, NEW c \in Names
      PROVE  <<c>> \o SubSeq(<<a, b>>, Len(<<a>>) + 1, Len(<<a, b>>)) = <<c, b>>
  <2> DEFINE s == SubSeq(<<a, b>>, 2, 2)
  <2>1. s \in Seq(Names) /\ Len(s) = 1 /\ s[1] = b
    <3>1. \A i \in 2 .. 2 : <<a, b>>[i] \in Names OBVIOUS
    <3>2. s \in Seq(Names) /\ Len(s) = (IF 2 <= 2 THEN 2 - 2 + 1 ELSE 0) /\ \A i \in 1 .. 2 - 2 + 1 : s[i] = <<a, b>>[2 + i - 1]
      BY <3>1, SubSeqProperties
    <3> QED BY <3>2
  <2> HIDE DEF s
  <2>2. s = <<b>> BY <2>1
  <2>3. <<c>> \o <<b>> = <<c, b>>
    <3> DEFINE z == <<c>> \o <<b>>
    <3>1. /\ z \in Seq(Names) /\ Len(z) = Len(<<c>>) + Len(<<b>>)
          /\ \A i \in 1 .. Len(<<c>>) + Len(<<b>>) :
               z[i] = IF i <= Len(<<c>>) THEN <<c>>[i] ELSE <<b>>[i - Len(<<c>>)]
      BY ConcatProperties
    <3> HIDE DEF z
    <3>2. Len(z) = 2 /\ z[1] = c /\ z[2] = b BY <3>1
    <3>3. z = <<c, b>> BY <3>1, <3>2
    <3> QED BY <3>3 DEF z
  <2>4. Len(<<a>>) + 1 = 2 /\ Len(<<a, b>>) = 2 OBVIOUS
  <2> QED BY <2>2, <2>3, <2>4 DEF s
<1> QED BY <1>1, <1>2

\* The path of place m when what is at place k goes to place l.
Along(f, k, l, m) == PathIn(f, l) \o SubSeq(PathIn(f, m), Len(PathIn(f, k)) + 1, Len(PathIn(f, m)))

\* The dentries whose path a rename of d changes, and what becomes of it.
LEMMA MovedPaths ==
  ASSUME NEW f, WellFormed(f), NEW d, NEW l, CanMove(f, d, l), NEW g, g = Renaming(f, d, l),
         NEW x \in Live(f), x = d \/ f[x].par = d
  PROVE  x \in Live(g) /\ PathIn(g, g[x]) = Along(f, f[d], l, f[x])
<1> USE DEF Along
<1>1. /\ WellFormed(g) /\ Live(g) = {y \in Live(f) : f[y] # l} /\ g[d] = l /\ PathIn(g, l) = PathIn(f, l)
      /\ \A y \in Live(g) : y # d => g[y] = f[y]
  BY MoveTree
<1>2. /\ d \in Live(f) /\ l \in Locs /\ Home(f, l) /\ f[d] # l /\ (kind[d] = "dir" => l.par = Root)
      /\ l.name \in Names /\ l.par \in Dents
  BY Places DEF CanMove
<1>3. f[d].name \in Names /\ d # Root BY <1>2, LiveFacts
<1>4. PathIn(f, l) \in Seq(Names)
  <2>1. CASE l.par = Root BY <1>2, <2>1 DEF PathIn
  <2>2. CASE l.par # Root
    <3>1. f[l.par] \in Locs BY <1>2, <2>2 DEF Home, WellFormed
    <3>2. f[l.par].name \in Names BY <3>1, Places
    <3> QED BY <1>2, <2>2, <3>2 DEF PathIn
  <2> QED BY <2>1, <2>2
<1>5. CASE x = d
  <2>1. x \in Live(g) BY <1>1, <1>2, <1>5
  <2>2. PathIn(f, f[d]) \in Seq(Names)
    <3>1. CASE f[d].par = Root BY <1>3, <3>1 DEF PathIn
    <3>2. CASE f[d].par # Root
      <4>1. f[f[d].par].name \in Names BY <1>2, <3>2, LiveFacts
      <4> QED BY <1>3, <3>2, <4>1 DEF PathIn
    <3> QED BY <3>1, <3>2
  <2>3. PathIn(f, l) \o SubSeq(PathIn(f, f[d]), Len(PathIn(f, f[d])) + 1, Len(PathIn(f, f[d]))) = PathIn(f, l)
    BY <1>4, <2>2, MovedPath
  <2> QED BY <1>1, <1>5, <2>1, <2>3
<1>6. CASE x # d
  <2>1. f[x].par = d /\ f[x].par # Root BY <1>3, <1>6
  <2>2. kind[d] = "dir" /\ f[d].par = Root /\ f[x].name \in Names BY <2>1, LiveFacts
  <2>3. l.par = Root BY <1>2, <2>2
  <2>4. x \in Live(g) /\ g[x] = f[x] BY <1>1, <1>6, <2>1, <2>3
  <2>5. PathIn(f, l) = <<l.name>> /\ PathIn(f, f[d]) = <<f[d].name>> /\ PathIn(f, f[x]) = <<f[d].name, f[x].name>>
    BY <2>1, <2>2, <2>3 DEF PathIn
  <2>6. PathIn(g, g[x]) = <<l.name, f[x].name>> BY <1>1, <2>1, <2>4 DEF PathIn
  <2>7. <<l.name>> \o SubSeq(<<f[d].name, f[x].name>>, Len(<<f[d].name>>) + 1, Len(<<f[d].name, f[x].name>>))
          = <<l.name, f[x].name>>
    BY <1>2, <1>3, <1>4, <2>2, MovedPath
  <2> QED BY <2>4, <2>5, <2>6, <2>7
<1> QED BY <1>5, <1>6

\* rename moves the paths that the rename below moved.
LEMMA RenameShown ==
  ASSUME NEW fs, NEW f, NEW dat, WellFormed(f), Shows(fs, f, dat), NEW d, NEW l, CanMove(f, d, l),
         NEW g, g = Renaming(f, d, l), NEW gs, gs = RenameEntry(fs, PathIn(f, f[d]), PathIn(f, l))
  PROVE  WellFormed(g) /\ Shows(gs, g, dat) /\ gs.inode = fs.inode
<1> DEFINE P(x) == PathIn(f, f[x])
<1> DEFINE Q(x) == PathIn(g, g[x])
<1> DEFINE q == PathIn(f, l)
<1> DEFINE M == {x \in Live(f) : x = d \/ f[x].par = d}
<1> DEFINE moved == {P(d)} \cup Below(fs, P(d))
<1> DEFINE dest(x) == q \o SubSeq(x, Len(P(d)) + 1, Len(x))
<1> DEFINE target == {dest(x) : x \in moved}
<1> DEFINE origin(y) == CHOOSE x \in moved : dest(x) = y
<1>1. /\ WellFormed(g) /\ Live(g) = {x \in Live(f) : f[x] # l} /\ Q(d) = q
      /\ \A x \in Live(g) : x # d => g[x] = f[x]
      /\ \A x \in Live(g) : x \notin M => Q(x) = P(x)
  BY MoveTree
<1>2. d \in Live(f) /\ l \in Locs /\ Home(f, l) BY DEF CanMove
<1>3. f[d] \in Locs /\ Home(f, f[d]) BY <1>2, LiveFacts
<1>4. moved = {P(x) : x \in M}
  <2>1. Below(fs, P(d)) = {P(x) : x \in {y \in Live(f) : f[y].par = d}} BY <1>2, BelowIs
  <2> QED BY <1>2, <2>1
<1>5. \A x \in M : x \in Live(g) /\ dest(P(x)) = Q(x)
  <2> SUFFICES ASSUME NEW x \in Live(f), x = d \/ f[x].par = d PROVE x \in Live(g) /\ dest(P(x)) = Q(x) OBVIOUS
  <2>1. x \in Live(g) /\ PathIn(g, g[x]) = Along(f, f[d], l, f[x]) BY MovedPaths
  <2> QED BY <2>1 DEF Along
<1>6. \A x, y \in Live(f) : P(x) = P(y) => x = y
  <2> SUFFICES ASSUME NEW x \in Live(f), NEW y \in Live(f), P(x) = P(y) PROVE x = y OBVIOUS
  <2>1. f[x] \in Locs /\ Home(f, f[x]) /\ f[y] \in Locs /\ Home(f, f[y]) BY LiveFacts
  <2>2. f[x] = f[y] BY <2>1, PathsDiffer
  <2> QED BY <2>2 DEF WellFormed, Live
<1>7. \A x, y \in Live(g) : Q(x) = Q(y) => x = y
  <2> SUFFICES ASSUME NEW x \in Live(g), NEW y \in Live(g), Q(x) = Q(y) PROVE x = y OBVIOUS
  <2>1. g[x] \in Locs /\ Home(g, g[x]) /\ g[y] \in Locs /\ Home(g, g[y]) BY <1>1, LiveFacts
  <2>2. g[x] = g[y] BY <1>1, <2>1, PathsDiffer
  <2> QED BY <1>1, <2>2 DEF WellFormed, Live
<1>8. /\ Exists(fs, P(d))
      /\ Vacant(fs, q) \/ (/\ Exists(fs, q) /\ Below(fs, q) = {}
                           /\ IsDir(fs, P(d)) <=> IsDir(fs, q)
                           /\ fs.at[P(d)] # fs.at[q])
  <2>1. Exists(fs, P(d)) /\ (IsDir(fs, P(d)) <=> kind[d] = "dir") BY <1>2, <1>3, AtPlace
  <2>2. CASE \A e \in Dents : f[e] # l BY <1>2, <2>1, <2>2, VacantIs
  <2>3. CASE \E e \in Dents : f[e] = l
    <3>1. PICK e \in Live(f) : f[e] = l BY <1>2, <2>3, Places DEF Live
    <3>2. (kind[e] = "dir" <=> kind[d] = "dir") /\ ino[e] # ino[d] /\ Childless(f, e) BY <3>1 DEF CanMove
    <3>3. Exists(fs, q) /\ (IsDir(fs, q) <=> kind[e] = "dir") BY <1>2, <3>1, AtPlace
    <3>4. Below(fs, q) = {} 
      <4>1. Below(fs, P(e)) = {} BY <3>2, BelowIs DEF Childless, Live
      <4> QED BY <3>1, <4>1
    <3>5. fs.at[P(d)] # fs.at[q]
      <4>1. ino[d] = ino[e] <=> fs.at[P(d)] = fs.at[P(e)] BY <1>2, Zenon DEF Shows
      <4> QED BY <3>1, <3>2, <4>1
    <3> QED BY <2>1, <3>2, <3>3, <3>4, <3>5
  <2> QED BY <2>2, <2>3
<1>9. fs = [at |-> fs.at, inode |-> fs.inode] /\ DOMAIN fs.at = {P(x) : x \in Live(f)} BY DEF Shows
<1> DEFINE at == [y \in ((DOMAIN fs.at) \ moved) \cup target |->
                    IF y \in target THEN fs.at[origin(y)] ELSE fs.at[y]]
<1>10. gs = [fs EXCEPT !.at = at] BY <1>8 DEF RenameEntry
<1>11. target = {Q(x) : x \in M}
  <2> HIDE DEF moved, dest, M, P, Q
  <2> QED BY <1>4, <1>5
<1>12. \A x \in M : origin(Q(x)) = P(x)
  <2> SUFFICES ASSUME NEW x \in M PROVE origin(Q(x)) = P(x) OBVIOUS
  <2>1. \A y \in moved : dest(y) = Q(x) => y = P(x)
    <3> HIDE DEF moved, dest, M, P, Q
    <3> SUFFICES ASSUME NEW z \in M, dest(P(z)) = Q(x) PROVE z = x BY <1>4
    <3> QED BY <1>5, <1>7
  <2>2. P(x) \in moved /\ dest(P(x)) = Q(x) BY <1>4, <1>5
  <2> HIDE DEF moved, dest, P, Q
  <2> QED BY <2>1, <2>2
<1>13. \A x \in Live(g) : Q(x) \in DOMAIN at /\ at[Q(x)] = fs.at[P(x)]
  <2> SUFFICES ASSUME NEW x \in Live(g) PROVE Q(x) \in DOMAIN at /\ at[Q(x)] = fs.at[P(x)] OBVIOUS
  <2>1. CASE x \in M
    <3>1. Q(x) \in target /\ origin(Q(x)) = P(x) BY <1>11, <1>12, <2>1
    <3> HIDE DEF moved, target, origin, P, Q
    <3> QED BY <3>1
  <2>2. CASE x \notin M
    <3>1. Q(x) \notin target BY <1>5, <1>7, <1>11, <2>2
    <3>2. Q(x) = P(x) /\ x \in Live(f) BY <1>1, <2>2
    <3>3. P(x) \in DOMAIN fs.at /\ P(x) \notin moved BY <1>4, <1>6, <1>9, <2>2, <3>2
    <3> HIDE DEF moved, target, origin, P, Q
    <3> QED BY <3>1, <3>2, <3>3
  <2> QED BY <2>1, <2>2
<1>14. \A y \in DOMAIN at : \E x \in Live(g) : y = Q(x)
  <2> SUFFICES ASSUME NEW y \in ((DOMAIN fs.at) \ moved) \cup target PROVE \E x \in Live(g) : y = Q(x) OBVIOUS
  <2>1. CASE y \in target BY <1>5, <1>11, <2>1
  <2>2. CASE y \notin target
    <3>1. PICK x \in Live(f) : y = P(x) BY <1>9, <2>2
    <3>2. x \notin M BY <1>4, <2>2, <3>1
    <3>3. CASE f[x] = l
      <4>1. y = Q(d) /\ d \in M BY <1>1, <1>2, <3>1, <3>3
      <4> QED BY <1>5, <4>1
    <3>4. CASE f[x] # l BY <1>1, <3>1, <3>2, <3>4
    <3> QED BY <3>3, <3>4
  <2> QED BY <2>1, <2>2
<1> HIDE DEF at, moved, target, origin, dest
<1>15. gs = [at |-> gs.at, inode |-> gs.inode] /\ gs.at = at /\ gs.inode = fs.inode BY <1>9, <1>10
<1>16. DOMAIN gs.at = {Q(x) : x \in Live(g)} BY <1>13, <1>14, <1>15
<1>17. ASSUME NEW x \in Live(g)
       PROVE  gs.at[Q(x)] \in DOMAIN gs.inode /\ gs.inode[gs.at[Q(x)]] = [kind |-> kind[x], data |-> dat[ino[x]]]
  <2>1. x \in Live(f) BY <1>1
  <2>2. fs.at[P(x)] \in DOMAIN fs.inode /\ fs.inode[fs.at[P(x)]] = [kind |-> kind[x], data |-> dat[ino[x]]]
    BY <2>1, Zenon DEF Shows
  <2>3. gs.at[Q(x)] = fs.at[P(x)] BY <1>13, <1>15
  <2> QED BY <1>15, <2>2, <2>3
<1>18. ASSUME NEW x \in Live(g), NEW y \in Live(g) PROVE ino[x] = ino[y] <=> gs.at[Q(x)] = gs.at[Q(y)]
  <2>1. x \in Live(f) /\ y \in Live(f) BY <1>1
  <2>2. ino[x] = ino[y] <=> fs.at[P(x)] = fs.at[P(y)] BY <2>1, Zenon DEF Shows
  <2>3. gs.at[Q(x)] = fs.at[P(x)] /\ gs.at[Q(y)] = fs.at[P(y)] BY <1>13, <1>15
  <2> QED BY <2>2, <2>3
<1>19. Shows(gs, g, dat) BY <1>15, <1>16, <1>17, <1>18, Zenon DEF Shows
<1> QED BY <1>1, <1>15, <1>19

\* rename fails on a directory that is not empty, as the rename below did.
LEMMA RenameRefused ==
  ASSUME NEW fs, NEW f, NEW dat, WellFormed(f), Shows(fs, f, dat), NEW e \in Live(f), ~Childless(f, e), NEW p
  PROVE  RenameEntry(fs, p, PathIn(f, f[e])) = fs
<1>1. Below(fs, PathIn(f, f[e])) # {} BY BelowIs DEF Childless, Live
<1>2. f[e] \in Locs /\ Home(f, f[e]) BY LiveFacts
<1>3. Exists(fs, PathIn(f, f[e])) BY <1>2, AtPlace
<1> QED BY <1>1, <1>3 DEF RenameEntry, Vacant
-----------------------------------------------------------------------------
(* The state of the mount, seen through the trace.  Tree f and contents dat *)
(* are what the operations logged so far made; an operation that waits to   *)
(* be logged is still to be made in them.                                   *)

\* The dentries that an operation is about: its own, and those a lookup finds
\* at the new place of a link or rename.
About(o) == {o.d} \cup UpperChild(o.loc2)

\* A create, mkdir or symlink to be logged.
MakePending(o, f, dat) ==
  /\ o.type \in {"FCREAT", "DCREAT", "SYMLINK"} /\ o.loc # None /\ o.loc2 = None
  /\ f[o.d] = None /\ lo[o.d] = o.loc /\ up[o.d] = o.loc
  /\ ino[o.d] = o.d /\ dat[o.d] = <<>>
  /\ kind[o.d] = (CASE o.type = "FCREAT" -> "file" [] o.type = "DCREAT" -> "dir" [] OTHER -> "symlink")
  /\ o.type = "DCREAT" => o.loc.par = Root
  /\ \A e \in Dents : f[e] # o.loc /\ (f[e] # None => ino[e] # o.d)

\* An unlink or rmdir to be logged.
RemovePending(o, f) ==
  /\ o.type = "UNLINK" /\ o.loc # None /\ o.loc2 = None
  /\ f[o.d] = o.loc /\ up[o.d] = o.loc
  /\ kind[o.d] = "dir" => o.d \in o.held
  /\ \/ o.err = 0 /\ lo[o.d] = None /\ (kind[o.d] = "dir" => Childless(f, o.d))
     \/ o.err = -1 /\ lo[o.d] = o.loc /\ kind[o.d] = "dir" /\ ~Childless(f, o.d)

\* A link to be logged.
LinkPending(o, f) ==
  /\ o.type = "LINK" /\ o.loc # None /\ o.loc2 # None
  /\ f[o.d] = o.loc /\ up[o.d] = o.loc /\ lo[o.d] = o.loc /\ kind[o.d] # "dir"
  /\ \A e \in Dents : f[e] # o.loc2
  /\ \E e \in Dents : /\ UpperChild(o.loc2) = {e} /\ f[e] = None /\ lo[e] = o.loc2
                      /\ ino[e] = ino[o.d] /\ kind[e] = kind[o.d]

\* A rename to be logged.
RenamePending(o, f) ==
  /\ o.type = "RENAME" /\ o.loc # None /\ o.loc2 # None /\ o.loc # o.loc2
  /\ f[o.d] = o.loc /\ up[o.d] = o.loc
  /\ kind[o.d] = "dir" => o.loc2.par = Root
  /\ \A e \in Dents : f[e] = o.loc2 <=> e \in UpperChild(o.loc2)
  /\ \A e \in UpperChild(o.loc2) : (kind[e] = "dir" <=> kind[o.d] = "dir") /\ ino[e] # ino[o.d] /\ ino[e] \in o.held
  /\ \/ /\ o.err = 0 /\ lo[o.d] = o.loc2
        /\ \A e \in UpperChild(o.loc2) : lo[e] = None /\ (kind[e] = "dir" => Childless(f, e))
     \/ /\ o.err = -1 /\ lo[o.d] = o.loc
        /\ \A e \in UpperChild(o.loc2) : lo[e] = o.loc2
        /\ \E e \in UpperChild(o.loc2) : kind[e] = "dir" /\ ~Childless(f, e)

\* A write to be logged.
WritePending(t, o, f, dat) ==
  /\ o.type = "FWRITE" /\ o.loc = None /\ o.loc2 = None
  /\ f[o.d] # None /\ lo[o.d] = f[o.d] /\ up[o.d] = f[o.d] /\ kind[o.d] = "file"
  /\ fd[t] # None /\ fd[t].append
  /\ data[ino[o.d]] = Append(dat[ino[o.d]], o.seq)

\* The directories on an operation's paths are in f, where the upper dentries say.
Ways(o, f) == \A x \in Through(o) : x = Root \/ (f[x] # None /\ up[x] = f[x] /\ f[x].par = Root /\ kind[x] = "dir")

\* An operation to be logged.
Pending(t, f, dat) ==
  /\ Ways(op[t], f)
  /\ \/ MakePending(op[t], f, dat) \/ RemovePending(op[t], f) \/ LinkPending(op[t], f)
     \/ RenamePending(op[t], f) \/ WritePending(t, op[t], f, dat)

PendingInv(f, dat) == \A t \in Tasks : pc[t] = "log" => Pending(t, f, dat)

\* Where f is not the lower tree, and dat not its contents, an operation waits.
DifferInv(f, dat) ==
  /\ \A x \in Dents : f[x] # lo[x] => \E t \in Tasks : pc[t] = "log" /\ x \in About(op[t])
  /\ \A i \in Dents : dat[i] # data[i] =>
       \E t \in Tasks : pc[t] = "log" /\ op[t].type = "FWRITE" /\ ino[op[t].d] = i

\* Inodes of the replay are numbered by operations that were logged.
FreshInv == \A id \in DOMAIN Replayed.inode :
  id \in 0 .. nops /\ \A t \in Tasks : pc[t] = "log" => id # op[t].seq

\* Operations under way are kept apart.
ApartInv == \A t, u \in Tasks : t # u /\ pc[t] # "idle" /\ pc[u] # "idle" =>
  ~Clash(op[t], op[u]) /\ op[t].seq # op[u].seq

\* A directory and an unused dentry share their inode with no other.
NodeInv ==
  /\ \A d, e \in Dents : kind[d] \in {"free", "dir"} => (ino[e] = d <=> e = d)
  /\ \A d, e \in Dents : ino[d] = ino[e] => kind[d] = kind[e]
  /\ \A d \in Dents : kind[d] = "free" => data[d] = <<>>
  /\ \A d \in Dents : lo[d] # None => d \in hashed

\* What an operation under way is about, and holds.
Running(t) ==
  /\ pc[t] \in {"log", "ret"} /\ op[t].type \in RecTypes /\ kind[op[t].d] # "free"
  /\ op[t].loc # None /\ op[t].type # "LINK" => op[t].loc.par \in op[t].held
  /\ op[t].loc2 # None => op[t].loc2.par \in op[t].held
  /\ Moving(t) => \A x \in UpperChild(op[t].loc2) : lo[x] = None

RunInv == \A t \in Tasks : pc[t] # "idle" => Running(t)

\* An open file is in the lower tree, and open with O_APPEND.
OpenInv == \A t \in Tasks : fd[t] # None => lo[fd[t].d] # None /\ kind[fd[t].d] = "file" /\ fd[t].append

\* All of it, for the tree f and the contents dat that the trace gives.
Good(f, dat) ==
  /\ WellFormed(f) /\ \A x \in Dents : f[x] # None => kind[x] # "free"
  /\ dat \in [Dents -> Seq(1 .. MaxOps)]
  /\ \E fs : fs = Replayed /\ Shows(fs, f, dat)
  /\ PendingInv(f, dat) /\ DifferInv(f, dat)
  /\ FreshInv /\ ApartInv /\ NodeInv /\ RunInv /\ OpenInv

-----------------------------------------------------------------------------
(* Dentries that no operation under way is about have one place.            *)

\* The places of a dentry in the lower tree and, for a lookup, in the upper one.
Spots(x) == {lo[x]} \cup (IF x \in hashed THEN {up[x]} ELSE {})

\* The places of x are in directories that are held.
InHeld(x, f, held) == \A l \in Spots(x) \cup {f[x]} : l = None \/ l.par \in held

Settled(x, f) == f[x] = lo[x] /\ (x \in hashed => up[x] = lo[x])

\* Types of the trees.
LEMMA Trees ==
  ASSUME AllOps
  PROVE  /\ hashed \subseteq Dents /\ Root \notin hashed /\ kind[Root] = "dir" /\ UpperChild(None) = {}
         /\ \A d \in Dents : /\ ino[d] \in Dents /\ lo[d] \in Locs \cup {None} /\ up[d] \in Locs \cup {None}
                             /\ data[d] \in Seq(1 .. MaxOps)
         /\ \A d \in hashed : up[d] \in Locs /\ up[d] # None /\ kind[d] # "free"
<1>1. TreeType /\ PlaceInv /\ InUseInv BY DEF AllOps, TreeInv, NameInv
<1>2. \A d \in hashed : up[d] \in Locs /\ up[d] # None /\ kind[d] # "free" BY <1>1, Places DEF PlaceInv, InUseInv
<1>3. UpperChild(None) = {} BY <1>2 DEF UpperChild
<1>4. hashed \subseteq Dents /\ Root \notin hashed /\ kind[Root] = "dir" BY <1>1 DEF TreeType, PlaceInv
<1> QED BY <1>1, <1>2, <1>3, <1>4 DEF TreeType

\* Types of an operation under way, and the locks it has.
LEMMA UnderWay ==
  ASSUME AllOps, NEW t \in Tasks
  PROVE  /\ op[t].d \in Dents /\ op[t].loc \in Locs \cup {None} /\ op[t].loc2 \in Locs \cup {None}
         /\ op[t].held \subseteq Dents /\ op[t].seq <= nops /\ op[t].seq \in Nat
         /\ op[t].type = "RENAME" => op[t].loc2 # None
         /\ pc[t] # "idle" => \A x \in op[t].held : lock[x] = t /\ lock[x] # NoTask
<1>1. ControlType /\ OpInv /\ OwnsLocks /\ SeqBound BY DEF AllOps, TreeInv, OrderInv
<1>2. op[t] \in OpRecords BY <1>1 DEF ControlType
<1>3. /\ op[t].d \in Dents /\ op[t].loc \in Locs \cup {None} /\ op[t].loc2 \in Locs \cup {None}
      /\ op[t].held \subseteq Dents /\ op[t].seq \in Nat
  BY <1>2, BoundAssumption DEF OpRecords
<1>4. op[t].seq <= nops BY <1>1 DEF SeqBound
<1>5. op[t].type = "RENAME" => op[t].loc2 # None BY <1>1, Places DEF OpInv
<1>6. pc[t] # "idle" => \A x \in op[t].held : lock[x] = t /\ lock[x] # NoTask BY <1>1, TasksAssumption DEF OwnsLocks
<1> QED BY <1>3, <1>4, <1>5, <1>6

\* An operation works on the inodes of what it is about.
LEMMA AboutTouches ==
  ASSUME NEW o
  PROVE  Touches(o) = {ino[x] : x \in About(o)}
  BY DEF Touches, About

\* Two operations under way are about different dentries, with different inodes.
LEMMA AboutApart ==
  ASSUME ApartInv, NEW t \in Tasks, NEW u \in Tasks, pc[t] # "idle", pc[u] # "idle",
         NEW x \in About(op[t]), NEW y \in About(op[u]), ino[x] = ino[y]
  PROVE  t = u
<1>1. ino[x] \in Touches(op[t]) /\ ino[x] \in Touches(op[u]) BY AboutTouches
<1> QED BY <1>1 DEF ApartInv, Clash

\* A dentry that an operation waiting to be logged changed is in directories
\* that it holds.
LEMMA PendingHolds ==
  ASSUME AllOps, NEW f, NEW dat, Good(f, dat), NEW t \in Tasks, pc[t] = "log",
         NEW x \in About(op[t]), f[x] # lo[x]
  PROVE  InHeld(x, f, op[t].held)
<1> DEFINE o == op[t]
<1>1. PendingInv(f, dat) /\ RunInv BY DEF Good
<1>2. \/ MakePending(o, f, dat) \/ RemovePending(o, f) \/ LinkPending(o, f)
      \/ RenamePending(o, f) \/ WritePending(t, o, f, dat)
  BY <1>1 DEF PendingInv, Pending
<1>3. /\ o.loc # None /\ o.type # "LINK" => o.loc.par \in o.held
      /\ o.loc2 # None => o.loc2.par \in o.held
  BY <1>1 DEF RunInv, Running
<1>4. UpperChild(None) = {} BY Trees
<1> SUFFICES InHeld(x, f, o.held) OBVIOUS
<1>5. x = o.d \/ x \in UpperChild(o.loc2) BY DEF About
<1> HIDE DEF o
<1>6. CASE MakePending(o, f, dat) BY <1>3, <1>4, <1>5, <1>6 DEF MakePending, InHeld, Spots
<1>7. CASE RemovePending(o, f) BY <1>3, <1>4, <1>5, <1>7 DEF RemovePending, InHeld, Spots
<1>8. CASE LinkPending(o, f) BY <1>3, <1>5, <1>8 DEF LinkPending, InHeld, Spots, UpperChild
<1>9. CASE RenamePending(o, f)
  <2>1. CASE x = o.d BY <1>3, <1>9, <2>1 DEF RenamePending, InHeld, Spots
  <2>2. CASE x \in UpperChild(o.loc2)
    <3>1. x \in Dents /\ up[x] = o.loc2 BY <2>2, Trees DEF UpperChild
    <3>2. f[x] = o.loc2 BY <1>9, <2>2, <3>1 DEF RenamePending
    <3>3. lo[x] = None \/ lo[x] = o.loc2 BY <1>9, <2>2 DEF RenamePending
    <3> QED BY <1>3, <3>1, <3>2, <3>3 DEF InHeld, Spots
  <2> QED BY <1>5, <2>1, <2>2
<1>10. CASE WritePending(t, o, f, dat) BY <1>4, <1>5, <1>10 DEF WritePending
<1> QED BY <1>2, <1>6, <1>7, <1>8, <1>9, <1>10

\* So is one that a rename moves or replaces, until it returns.
LEMMA MovingHolds ==
  ASSUME AllOps, NEW f, NEW dat, Good(f, dat), NEW t \in Tasks, Moving(t),
         NEW x \in About(op[t])
  PROVE  InHeld(x, f, op[t].held)
<1> DEFINE o == op[t]
<1>1. x \in Dents
  <2>1. op[t].d \in Dents BY UnderWay
  <2>2. UpperChild(op[t].loc2) \subseteq Dents BY Trees DEF UpperChild
  <2> QED BY <2>1, <2>2 DEF About
<1>2. CASE f[x] # lo[x]
  <2>1. PICK u \in Tasks : pc[u] = "log" /\ x \in About(op[u]) BY <1>1, <1>2 DEF Good, DifferInv
  <2>2. u = t BY <2>1, AboutApart DEF Good, Moving
  <2> QED BY <1>2, <2>1, <2>2, PendingHolds
<1>3. CASE f[x] = lo[x]
  <2>1. lo[o.d] = o.loc2 /\ up[o.d].par \in o.held /\ o.loc2.par \in o.held BY MovingFacts
  <2>2. \A y \in UpperChild(o.loc2) : lo[y] = None BY DEF Good, RunInv, Running, Moving
  <2> SUFFICES InHeld(x, f, o.held) OBVIOUS
  <2>5. x = o.d \/ x \in UpperChild(o.loc2) BY DEF About
  <2> HIDE DEF o
  <2>3. CASE x = o.d BY <1>3, <2>1, <2>3 DEF InHeld, Spots
  <2>4. CASE x \in UpperChild(o.loc2) BY <1>3, <2>1, <2>2, <2>4 DEF InHeld, Spots, UpperChild
  <2> QED BY <2>3, <2>4, <2>5
<1> QED BY <1>2, <1>3

\* A dentry whose places differ is the concern of an operation under way that
\* holds their directories.
LEMMA Unsettled ==
  ASSUME AllOps, NEW f, NEW dat, Good(f, dat), NEW x \in Dents, ~Settled(x, f)
  PROVE  \E t \in Tasks : pc[t] # "idle" /\ x \in About(op[t]) /\ InHeld(x, f, op[t].held)
<1>1. CASE f[x] # lo[x]
  <2>1. PICK u \in Tasks : pc[u] = "log" /\ x \in About(op[u]) BY <1>1 DEF Good, DifferInv
  <2> QED BY <1>1, <2>1, PendingHolds
<1>2. CASE f[x] = lo[x]
  <2>1. x \in hashed /\ up[x] # lo[x] BY <1>2 DEF Settled
  <2>2. PICK u \in Tasks : Moving(u) /\ (x = op[u].d \/ up[x] = op[u].loc2)
    BY <2>1 DEF AllOps, NameInv, UpperMatchesLower, Moving
  <2>3. x \in About(op[u]) BY <2>1, <2>2 DEF About, UpperChild
  <2>4. pc[u] # "idle" BY <2>2 DEF Moving
  <2> QED BY <2>2, <2>3, <2>4, MovingHolds
<1> QED BY <1>1, <1>2

\* A dentry whose inode no operation under way works on has one place.
LEMMA Untouched ==
  ASSUME AllOps, NEW f, NEW dat, Good(f, dat), NEW x \in Dents,
         \A u \in Tasks : pc[u] # "idle" => ino[x] \notin Touches(op[u])
  PROVE  Settled(x, f)
  BY Unsettled, AboutTouches

\* What is in a directory that nobody holds is the same in all trees.
LEMMA AtRest ==
  ASSUME AllOps, NEW f, NEW dat, Good(f, dat), NEW l \in Locs, lock[l.par] = NoTask, NEW x \in Dents
  PROVE  (f[x] = l <=> lo[x] = l) /\ (x \in UpperChild(l) <=> lo[x] = l)
<1>1. l # None BY Places
<1>2. CASE Settled(x, f)
  <2>1. lo[x] # None => x \in hashed BY DEF Good, NodeInv
  <2> QED BY <1>1, <1>2, <2>1 DEF Settled, UpperChild
<1>3. CASE ~Settled(x, f)
  <2>1. PICK t \in Tasks : pc[t] # "idle" /\ InHeld(x, f, op[t].held) BY <1>3, Unsettled
  <2>2. l.par \notin op[t].held BY <2>1, UnderWay
  <2> QED BY <1>1, <2>1, <2>2 DEF InHeld, Spots, UpperChild
<1> QED BY <1>2, <1>3

\* A directory that nobody holds has entries in all trees or in none.
LEMMA EmptyAtRest ==
  ASSUME AllOps, NEW f, NEW dat, Good(f, dat), NEW d, lock[d] = NoTask
  PROVE  Childless(f, d) <=> LowerEmpty(d)
<1>1. ASSUME NEW x \in Dents PROVE (f[x] # None /\ f[x].par = d) <=> (lo[x] # None /\ lo[x].par = d)
  <2>1. CASE Settled(x, f) BY <2>1 DEF Settled
  <2>2. CASE ~Settled(x, f)
    <3>1. PICK t \in Tasks : pc[t] # "idle" /\ InHeld(x, f, op[t].held) BY <2>2, Unsettled
    <3>2. d \notin op[t].held BY <3>1, UnderWay
    <3> QED BY <3>1, <3>2 DEF InHeld, Spots
  <2> QED BY <2>1, <2>2
<1> QED BY <1>1 DEF Childless, LowerEmpty

-----------------------------------------------------------------------------
(* A step of one operation leaves what another is about as it is.           *)

Kept(x) == /\ kind'[x] = kind[x] /\ ino'[x] = ino[x] /\ lo'[x] = lo[x] /\ up'[x] = up[x]
           /\ x \in hashed' <=> x \in hashed

SpotsNext(x) == {lo'[x]} \cup (IF x \in hashed' THEN {up'[x]} ELSE {})

\* A step of operation o, with which tree f becomes g, changes dentries that
\* were free or whose inodes o works on, in directories that o holds.
Frame(o, f, g) == \A x \in Dents :
  \/ Kept(x) /\ g[x] = f[x]
  \/ /\ \/ kind[x] = "free" /\ g[x] = None
        \/ ino[x] \in Touches(o) /\ kind'[x] = kind[x] /\ ino'[x] = ino[x]
     /\ \A l \in Spots(x) \cup SpotsNext(x) \cup {f[x], g[x]} : l = None \/ l.par \in o.held

\* What such a step leaves alone.
LEMMA Undisturbed ==
  ASSUME AllOps, NEW f, NEW dat, Good(f, dat), PlaceInv', NEW o, NEW g, Frame(o, f, g),
         NEW u \in Tasks, pc[u] # "idle", ~Clash(op[u], o), op[u].held \cap o.held = {}
  PROVE  /\ \A x \in About(op[u]) : x \in Dents /\ Kept(x) /\ g[x] = f[x]
         /\ \A x \in Through(op[u]) : x \in Dents /\ kind[x] = "dir" => Kept(x) /\ g[x] = f[x]
         /\ {x \in hashed' : up'[x] = op[u].loc2} \cap Dents = UpperChild(op[u].loc2)
         /\ \A l \in Locs : l.par \in op[u].held => \A x \in Dents : g[x] = l <=> f[x] = l
         /\ \A d \in op[u].held : Childless(g, d) <=> Childless(f, d)
<1>1. Running(u) BY DEF Good, RunInv
<1>2. Touches(op[u]) \cap Touches(o) = {} /\ Touches(o) \cap Through(op[u]) = {} BY DEF Clash
<1>3. ASSUME NEW x \in About(op[u]) PROVE x \in Dents /\ Kept(x) /\ g[x] = f[x]
  <2>1. x \in Dents /\ kind[x] # "free"
    <3>1. op[u].d \in Dents /\ kind[op[u].d] # "free" BY <1>1, UnderWay DEF Running
    <3>2. \A y \in UpperChild(op[u].loc2) : y \in Dents /\ kind[y] # "free" BY Trees DEF UpperChild
    <3> QED BY <3>1, <3>2 DEF About
  <2>2. ino[x] \notin Touches(o) BY <1>2, AboutTouches
  <2> QED BY <2>1, <2>2 DEF Frame
<1>4. ASSUME NEW x \in Through(op[u]), x \in Dents, kind[x] = "dir" PROVE Kept(x) /\ g[x] = f[x]
  <2>1. ino[x] = x BY <1>4 DEF Good, NodeInv
  <2>2. ino[x] \notin Touches(o) BY <1>2, <2>1
  <2> QED BY <1>4, <2>2 DEF Frame
<1>5. ASSUME NEW l \in Locs, l.par \in op[u].held, NEW x \in Dents
      PROVE  (g[x] = l <=> f[x] = l) /\ (x \in UpperChild(l) <=> x \in hashed' /\ up'[x] = l)
  <2>1. CASE Kept(x) /\ g[x] = f[x] BY <2>1 DEF Kept, UpperChild
  <2>2. CASE ~(Kept(x) /\ g[x] = f[x])
    <3>1. \A k \in Spots(x) \cup SpotsNext(x) \cup {f[x], g[x]} : k = None \/ k.par \in o.held BY <2>2 DEF Frame
    <3>2. l # None /\ l.par \notin o.held BY <1>5, Places
    <3> QED BY <3>1, <3>2 DEF Spots, SpotsNext, UpperChild
  <2> QED BY <2>1, <2>2
<1>6. {x \in hashed' : up'[x] = op[u].loc2} \cap Dents = UpperChild(op[u].loc2)
  <2>1. op[u].loc2 \in Locs \cup {None} /\ UpperChild(op[u].loc2) \subseteq Dents BY Trees, UnderWay DEF UpperChild
  <2>2. CASE op[u].loc2 = None
    <3>1. UpperChild(op[u].loc2) = {} BY <2>2, Trees
    <3>2. \A x \in hashed' : up'[x] # None BY Places DEF PlaceInv
    <3> QED BY <2>2, <3>1, <3>2
  <2>3. CASE op[u].loc2 # None
    <3>1. op[u].loc2 \in Locs /\ op[u].loc2.par \in op[u].held BY <1>1, <2>1, <2>3 DEF Running
    <3> QED BY <1>5, <2>1, <3>1
  <2> QED BY <2>2, <2>3
<1>7. ASSUME NEW d \in op[u].held PROVE Childless(g, d) <=> Childless(f, d)
  <2>1. ASSUME NEW x \in Dents PROVE (g[x] # None /\ g[x].par = d) <=> (f[x] # None /\ f[x].par = d)
    <3>1. CASE Kept(x) /\ g[x] = f[x] BY <3>1
    <3>2. CASE ~(Kept(x) /\ g[x] = f[x])
      <4>1. \A k \in {f[x], g[x]} : k = None \/ k.par \in o.held BY <3>2 DEF Frame
      <4> QED BY <4>1
    <3> QED BY <3>1, <3>2
  <2> QED BY <2>1 DEF Childless
<1> QED BY <1>3, <1>4, <1>5, <1>6, <1>7

\* An operation that another step leaves alone is still to be logged.
LEMMA PendingStays ==
  ASSUME AllOps, NEW f, NEW dat, Good(f, dat), PlaceInv', hashed' \subseteq Dents, NEW o, NEW g, Frame(o, f, g),
         NEW u \in Tasks, pc[u] # "idle", ~Clash(op[u], o), op[u].held \cap o.held = {},
         op'[u] = op[u], fd'[u] = fd[u],
         NEW e, \A i \in Dents : i \notin Touches(o) => data'[i] = data[i] /\ e[i] = dat[i],
         Pending(u, f, dat)
  PROVE  Pending(u, g, e)'
<1> DEFINE p == op[u]
<1> DEFINE U == UpperChild(p.loc2)
<1>1. /\ \A x \in About(p) : x \in Dents /\ Kept(x) /\ g[x] = f[x]
      /\ \A x \in Through(p) : x \in Dents /\ kind[x] = "dir" => Kept(x) /\ g[x] = f[x]
      /\ {x \in hashed' : up'[x] = p.loc2} \cap Dents = U
      /\ \A l \in Locs : l.par \in p.held => \A x \in Dents : g[x] = l <=> f[x] = l
      /\ \A d \in p.held : Childless(g, d) <=> Childless(f, d)
  BY Undisturbed
<1>2. /\ p.loc # None /\ p.type # "LINK" => p.loc \in Locs /\ p.loc.par \in p.held
      /\ p.loc2 # None => p.loc2 \in Locs /\ p.loc2.par \in p.held
  <2>1. Running(u) BY DEF Good, RunInv
  <2>2. p.loc \in Locs \cup {None} /\ p.loc2 \in Locs \cup {None} BY UnderWay
  <2> QED BY <2>1, <2>2 DEF Running
<1>3. op'[u] = p OBVIOUS
<1>4. p.d \in Dents /\ Kept(p.d) /\ g[p.d] = f[p.d] /\ (\A x \in U : x \in Dents /\ Kept(x) /\ g[x] = f[x])
  BY <1>1 DEF About
<1>5. UpperChild(p.loc2)' = U
  <2>1. UpperChild(p.loc2)' = {x \in hashed' : up'[x] = p'.loc2} BY DEF UpperChild
  <2>2. p' = p OBVIOUS
  <2> HIDE DEF p
  <2> QED BY <1>1, <2>1, <2>2
<1>6. ino[p.d] \in Dents /\ \A x \in U : ino[x] \in Dents BY <1>4, Trees
<1>7. data'[ino[p.d]] = data[ino[p.d]] /\ e[ino[p.d]] = dat[ino[p.d]]
  <2>1. ino[p.d] \in Touches(p) BY DEF Touches
  <2> QED BY <1>6, <2>1 DEF Clash
<1>8. Ways(op[u], g)'
  <2>1. Ways(p, f) BY DEF Pending
  <2>2. Through(op[u])' = Through(p)
    <3>1. up'[p.d] = up[p.d] BY <1>4 DEF Kept
    <3> QED BY <3>1 DEF Through
  <2>3. ASSUME NEW x \in Through(p), x # Root
        PROVE  g[x] # None /\ up'[x] = g[x] /\ g[x].par = Root /\ kind'[x] = "dir"
    <3>1. f[x] # None /\ up[x] = f[x] /\ f[x].par = Root /\ kind[x] = "dir" BY <2>1, <2>3 DEF Ways
    <3>2. x \in Dents
      <4>1. p.loc \in Locs \cup {None} /\ p.loc2 \in Locs \cup {None} /\ up[p.d] \in Locs \cup {None} BY <1>4, UnderWay, Trees
      <4> QED BY <4>1, Places DEF Through
    <3>3. Kept(x) /\ g[x] = f[x] BY <1>1, <3>1, <3>2
    <3> QED BY <3>1, <3>3 DEF Kept
  <2> QED BY <2>2, <2>3 DEF Ways
<1>9. CASE MakePending(op[u], f, dat)
  <2>1. MakePending(p, f, dat) BY <1>9
  <2>2. \A x \in Dents : g[x] # p.loc BY <1>1, <1>2, <2>1 DEF MakePending
  <2>3. \A x \in Dents : g[x] # None => ino'[x] # p.d
    <3> SUFFICES ASSUME NEW x \in Dents, g[x] # None, ino'[x] = p.d PROVE FALSE OBVIOUS
    <3>1. CASE Kept(x) /\ g[x] = f[x] BY <2>1, <3>1 DEF MakePending, Kept
    <3>2. CASE ~(Kept(x) /\ g[x] = f[x])
      <4>1. ino'[x] \in Touches(o) BY <3>2 DEF Frame
      <4>2. p.d \in Touches(p) BY <2>1 DEF MakePending, Touches
      <4> QED BY <4>1, <4>2 DEF Clash
    <3> QED BY <3>1, <3>2
  <2>4. MakePending(op[u], g, e)'
    <3> HIDE DEF p, U
    <3> QED BY <1>3, <1>4, <1>7, <2>1, <2>2, <2>3 DEF MakePending, Kept
  <2> QED BY <1>8, <2>4 DEF Pending
<1>10. CASE RemovePending(op[u], f)
  <2>1. RemovePending(p, f) BY <1>10
  <2>2. RemovePending(op[u], g)'
    <3> HIDE DEF p, U
    <3>1. kind[p.d] = "dir" => (Childless(g, p.d) <=> Childless(f, p.d)) BY <1>1, <2>1 DEF RemovePending
    <3> QED BY <1>3, <1>4, <2>1, <3>1 DEF RemovePending, Kept, Childless
  <2> QED BY <1>8, <2>2 DEF Pending
<1>11. CASE LinkPending(op[u], f)
  <2>1. LinkPending(p, f) BY <1>11
  <2>2. LinkPending(op[u], g)'
    <3>0. UpperChild(op[u].loc2)' = U BY <1>5
    <3> HIDE DEF p, U
    <3>1. \A x \in Dents : g[x] # p.loc2 BY <1>1, <1>2, <2>1 DEF LinkPending
    <3>2. PICK x \in Dents : /\ UpperChild(p.loc2) = {x} /\ f[x] = None /\ lo[x] = p.loc2
                             /\ ino[x] = ino[p.d] /\ kind[x] = kind[p.d]
      BY <2>1 DEF LinkPending
    <3>3. U = {x} /\ x \in U BY <3>2 DEF U
    <3>4. Kept(x) /\ g[x] = f[x] BY <1>4, <3>3
    <3>5. g[x] = None /\ lo'[x] = p.loc2 /\ ino'[x] = ino'[p.d] /\ kind'[x] = kind'[p.d]
      BY <1>4, <3>2, <3>4 DEF Kept
    <3> QED BY <1>3, <1>4, <2>1, <3>0, <3>1, <3>3, <3>5 DEF LinkPending, Kept
  <2> QED BY <1>8, <2>2 DEF Pending
<1>12. CASE RenamePending(op[u], f)
  <2>1. RenamePending(p, f) BY <1>12
  <2>2. RenamePending(op[u], g)'
    <3>0. UpperChild(op[u].loc2)' = U BY <1>5
    <3>1. \A x \in Dents : g[x] = p.loc2 <=> x \in U BY <1>1, <1>2, <2>1 DEF RenamePending
    <3>2. \A x \in U : /\ kind'[x] = kind[x] /\ lo'[x] = lo[x] /\ ino'[x] = ino[x]
                       /\ kind[x] = "dir" => (Childless(g, x) <=> Childless(f, x))
      <4> SUFFICES ASSUME NEW x \in U
                   PROVE  /\ kind'[x] = kind[x] /\ lo'[x] = lo[x] /\ ino'[x] = ino[x]
                          /\ kind[x] = "dir" => (Childless(g, x) <=> Childless(f, x))
        OBVIOUS
      <4>1. kind'[x] = kind[x] /\ lo'[x] = lo[x] /\ ino'[x] = ino[x] /\ x \in Dents BY <1>4 DEF Kept
      <4>2. kind[x] = "dir" => x \in p.held
        <5>1. ino[x] \in p.held BY <2>1 DEF RenamePending
        <5>2. kind[x] = "dir" => ino[x] = x BY <4>1 DEF Good, NodeInv
        <5> QED BY <5>1, <5>2
      <4> QED BY <1>1, <4>1, <4>2
    <3>3. /\ p.type = "RENAME" /\ p.loc # None /\ p.loc2 # None /\ p.loc # p.loc2
          /\ f[p.d] = p.loc /\ up[p.d] = p.loc
          /\ kind[p.d] = "dir" => p.loc2.par = Root
      BY <2>1 DEF RenamePending
    <3>4. \A x \in U : (kind[x] = "dir" <=> kind[p.d] = "dir") /\ ino[x] # ino[p.d] /\ ino[x] \in p.held
      BY <2>1 DEF RenamePending
    <3>5. \/ /\ p.err = 0 /\ lo[p.d] = p.loc2
             /\ \A x \in U : lo[x] = None /\ (kind[x] = "dir" => Childless(f, x))
          \/ /\ p.err = -1 /\ lo[p.d] = p.loc
             /\ \A x \in U : lo[x] = p.loc2
             /\ \E x \in U : kind[x] = "dir" /\ ~Childless(f, x)
      BY <2>1 DEF RenamePending
    <3> HIDE DEF p, U
    <3>6. \/ /\ p.err = 0 /\ lo'[p.d] = p.loc2
             /\ \A x \in U : lo'[x] = None /\ (kind'[x] = "dir" => Childless(g, x))
          \/ /\ p.err = -1 /\ lo'[p.d] = p.loc
             /\ \A x \in U : lo'[x] = p.loc2
             /\ \E x \in U : kind'[x] = "dir" /\ ~Childless(g, x)
      BY <1>4, <3>2, <3>5 DEF Kept
    <3>7. \A x \in U : (kind'[x] = "dir" <=> kind'[p.d] = "dir") /\ ino'[x] # ino'[p.d] /\ ino'[x] \in p.held
      BY <1>4, <3>2, <3>4 DEF Kept
    <3>8. g[p.d] = p.loc /\ up'[p.d] = p.loc /\ (kind'[p.d] = "dir" => p.loc2.par = Root) BY <1>4, <3>3 DEF Kept
    <3> QED BY <1>3, <3>0, <3>1, <3>3, <3>6, <3>7, <3>8 DEF RenamePending, Childless
  <2> QED BY <1>8, <2>2 DEF Pending
<1>13. CASE WritePending(u, op[u], f, dat)
  <2>1. WritePending(u, p, f, dat) BY <1>13
  <2>2. WritePending(u, op[u], g, e)'
    <3> HIDE DEF p, U
    <3> QED BY <1>3, <1>4, <1>7, <2>1 DEF WritePending, Kept
  <2> QED BY <1>8, <2>2 DEF Pending
<1> QED BY <1>9, <1>10, <1>11, <1>12, <1>13 DEF Pending

\* It works on the same inodes and goes through the same directories.
LEMMA RunningStays ==
  ASSUME AllOps, NEW f, NEW dat, Good(f, dat), PlaceInv', hashed' \subseteq Dents, NEW o, NEW g, Frame(o, f, g),
         NEW u \in Tasks, pc[u] # "idle", ~Clash(op[u], o), op[u].held \cap o.held = {},
         op'[u] = op[u], pc'[u] = pc[u]
  PROVE  /\ Running(u)' /\ About(op[u])' = About(op[u])
         /\ Touches(op[u])' = Touches(op[u]) /\ Through(op[u])' = Through(op[u])
         /\ ino'[op[u].d] = ino[op[u].d]
<1> DEFINE p == op[u]
<1> DEFINE U == UpperChild(p.loc2)
<1>1. /\ \A x \in About(p) : x \in Dents /\ Kept(x)
      /\ {x \in hashed' : up'[x] = p.loc2} \cap Dents = U
  BY Undisturbed
<1>2. op'[u] = p OBVIOUS
<1>3. Kept(p.d) /\ (\A x \in U : Kept(x)) BY <1>1 DEF About
<1>4. UpperChild(op[u].loc2)' = U
  <2>1. UpperChild(op[u].loc2)' = {x \in hashed' : up'[x] = op'[u].loc2} BY DEF UpperChild
  <2> HIDE DEF p
  <2> QED BY <1>1, <1>2, <2>1
<1>5. About(op[u])' = About(op[u]) BY <1>4 DEF About
<1>6. Touches(op[u])' = Touches(op[u])
  <2>1. Touches(op[u])' = {ino'[p.d]} \cup {ino'[x] : x \in U} BY <1>4 DEF Touches
  <2>2. Touches(op[u]) = {ino[p.d]} \cup {ino[x] : x \in U} BY DEF Touches
  <2> HIDE DEF p, U
  <2>3. ino'[p.d] = ino[p.d] /\ \A x \in U : ino'[x] = ino[x] BY <1>3 DEF Kept
  <2> QED BY <2>1, <2>2, <2>3
<1>7. Through(op[u])' = Through(op[u]) BY <1>3 DEF Kept, Through
<1>8. Running(u)'
  <2>1. Running(u) BY DEF Good, RunInv
  <2>2. \A x \in U : lo'[x] = lo[x] BY <1>3 DEF Kept
  <2>3. Moving(u)' <=> Moving(u) BY DEF Moving
  <2>4. kind'[p.d] = kind[p.d] BY <1>3 DEF Kept
  <2>5. Moving(u)' => \A x \in UpperChild(op[u].loc2)' : lo'[x] = None BY <1>4, <2>1, <2>2, <2>3 DEF Running
  <2> QED BY <2>1, <2>4, <2>5 DEF Running
<1> QED BY <1>3, <1>5, <1>6, <1>7, <1>8 DEF Kept

\* The step is task t's, and operation o keeps apart from the others.
OthersStay(t, o) == \A u \in Tasks : u # t =>
  /\ op'[u] = op[u] /\ pc'[u] = pc[u] /\ fd'[u] = fd[u]
  /\ pc[u] # "idle" => ~Clash(op[u], o) /\ op[u].held \cap o.held = {}

\* Contents change only for inodes that o works on.
DataFrame(o, dat, e) == \A i \in Dents : i \notin Touches(o) => data'[i] = data[i] /\ e[i] = dat[i]

\* Where the trees or contents differ after the step, its operation waits to be
\* logged, or they did before and another operation waited.
StillDiffer(t, f, dat, g, e) ==
  /\ \A x \in Dents : g[x] # lo'[x] => \/ pc'[t] = "log" /\ x \in About(op[t])'
                                       \/ f[x] # lo[x] /\ ~(pc[t] = "log" /\ x \in About(op[t]))
  /\ \A i \in Dents : e[i] # data'[i] =>
       \/ pc'[t] = "log" /\ op'[t].type = "FWRITE" /\ ino'[op'[t].d] = i
       \/ dat[i] # data[i] /\ ~(pc[t] = "log" /\ op[t].type = "FWRITE" /\ ino[op[t].d] = i)

\* What task t runs after the step is apart from what the others run.
StaysApart(t, o) == pc'[t] # "idle" =>
  /\ Touches(op[t])' \subseteq Touches(o) /\ Through(op[t])' \subseteq Through(o)
  /\ \A u \in Tasks : u # t /\ pc[u] # "idle" => op'[t].seq # op[u].seq

\* Such a step keeps everything, if the replay shows tree g with contents e
\* after it.
LEMMA StepGood ==
  ASSUME AllOps, AllOps', NEW f, NEW dat, Good(f, dat), NEW t \in Tasks, NEW o, NEW g, NEW e,
         Frame(o, f, g), OthersStay(t, o), DataFrame(o, dat, e),
         WellFormed(g)', \A x \in Dents : g[x] # None => kind'[x] # "free", e \in [Dents -> Seq(1 .. MaxOps)],
         \E fs : fs = Replayed' /\ Shows(fs, g, e)',
         pc'[t] = "log" => Pending(t, g, e)', pc'[t] # "idle" => Running(t)',
         StillDiffer(t, f, dat, g, e), StaysApart(t, o), FreshInv', NodeInv', OpenInv'
  PROVE  Good(g, e)'
<1>1. PlaceInv' /\ hashed' \subseteq Dents BY DEF AllOps, TreeInv, TreeType
<1>2. ASSUME NEW u \in Tasks, u # t, pc[u] # "idle"
      PROVE  /\ Running(u)' /\ About(op[u])' = About(op[u])
             /\ Touches(op[u])' = Touches(op[u]) /\ Through(op[u])' = Through(op[u])
             /\ ino'[op[u].d] = ino[op[u].d]
  BY <1>1, <1>2, RunningStays DEF OthersStay
<1>3. PendingInv(g, e)'
  <2> SUFFICES ASSUME NEW u \in Tasks, pc'[u] = "log" PROVE Pending(u, g, e)' BY DEF PendingInv
  <2>1. CASE u = t BY <2>1
  <2>2. CASE u # t
    <3>1. /\ op'[u] = op[u] /\ pc[u] = "log" /\ pc[u] # "idle" /\ fd'[u] = fd[u] /\ ~Clash(op[u], o)
          /\ op[u].held \cap o.held = {}
      BY <2>2 DEF OthersStay
    <3>2. Pending(u, f, dat) BY <3>1 DEF Good, PendingInv
    <3> QED BY <1>1, <3>1, <3>2, PendingStays DEF DataFrame
  <2> QED BY <2>1, <2>2
<1>4. RunInv'
  <2> SUFFICES ASSUME NEW u \in Tasks, pc'[u] # "idle" PROVE Running(u)' BY DEF RunInv
  <2>1. CASE u = t BY <2>1
  <2>2. CASE u # t BY <1>2, <2>2 DEF OthersStay
  <2> QED BY <2>1, <2>2
<1>5. DifferInv(g, e)'
  <2>1. ASSUME NEW x \in Dents, g[x] # lo'[x] PROVE \E u \in Tasks : pc'[u] = "log" /\ x \in About(op[u])'
    <3>1. CASE pc'[t] = "log" /\ x \in About(op[t])' BY <3>1
    <3>2. CASE f[x] # lo[x] /\ ~(pc[t] = "log" /\ x \in About(op[t]))
      <4>1. PICK u \in Tasks : pc[u] = "log" /\ x \in About(op[u]) BY <3>2 DEF Good, DifferInv
      <4>2. u # t /\ pc[u] # "idle" BY <3>2, <4>1
      <4>3. pc'[u] = "log" /\ x \in About(op[u])' BY <1>2, <4>1, <4>2 DEF OthersStay
      <4> QED BY <4>3
    <3> QED BY <2>1, <3>1, <3>2 DEF StillDiffer
  <2>2. ASSUME NEW i \in Dents, e[i] # data'[i]
        PROVE  \E u \in Tasks : pc'[u] = "log" /\ op'[u].type = "FWRITE" /\ ino'[op'[u].d] = i
    <3>1. CASE pc'[t] = "log" /\ op'[t].type = "FWRITE" /\ ino'[op'[t].d] = i BY <3>1
    <3>2. CASE dat[i] # data[i] /\ ~(pc[t] = "log" /\ op[t].type = "FWRITE" /\ ino[op[t].d] = i)
      <4>1. PICK u \in Tasks : pc[u] = "log" /\ op[u].type = "FWRITE" /\ ino[op[u].d] = i BY <3>2 DEF Good, DifferInv
      <4>2. u # t /\ pc[u] # "idle" BY <3>2, <4>1
      <4>3. pc'[u] = "log" /\ op'[u] = op[u] /\ ino'[op[u].d] = i BY <1>2, <4>1, <4>2 DEF OthersStay
      <4> QED BY <4>1, <4>3
    <3> QED BY <2>2, <3>1, <3>2 DEF StillDiffer
  <2> QED BY <2>1, <2>2 DEF DifferInv
<1>6. ApartInv'
  <2>0. ASSUME NEW u \in Tasks, NEW v \in Tasks
        PROVE  Clash(op[u], op[v])' <=> \/ Touches(op[u])' \cap (Touches(op[v])' \cup Through(op[v])') # {}
                                        \/ Touches(op[v])' \cap Through(op[u])' # {}
    BY DEF Clash
  <2>1. ASSUME NEW u \in Tasks, u # t, pc'[t] # "idle", pc'[u] # "idle"
        PROVE  ~Clash(op[u], op[t])' /\ ~Clash(op[t], op[u])' /\ op'[t].seq # op'[u].seq
    <3>1. op'[u] = op[u] /\ pc[u] # "idle" /\ ~Clash(op[u], o) BY <2>1 DEF OthersStay
    <3>2. Touches(op[u])' = Touches(op[u]) /\ Through(op[u])' = Through(op[u]) BY <1>2, <2>1, <3>1
    <3>3. Touches(op[t])' \subseteq Touches(o) /\ Through(op[t])' \subseteq Through(o) /\ op'[t].seq # op[u].seq
      BY <2>1, <3>1 DEF StaysApart
    <3>4. Touches(op[u]) \cap (Touches(o) \cup Through(o)) = {} /\ Touches(o) \cap Through(op[u]) = {}
      BY <3>1 DEF Clash
    <3> QED BY <2>0, <3>1, <3>2, <3>3, <3>4
  <2>2. ASSUME NEW u \in Tasks, NEW v \in Tasks, u # v, u # t, v # t, pc'[u] # "idle", pc'[v] # "idle"
        PROVE  ~Clash(op[u], op[v])' /\ op'[u].seq # op'[v].seq
    <3>1. op'[u] = op[u] /\ pc[u] # "idle" /\ op'[v] = op[v] /\ pc[v] # "idle" BY <2>2 DEF OthersStay
    <3>2. /\ Touches(op[u])' = Touches(op[u]) /\ Through(op[u])' = Through(op[u])
          /\ Touches(op[v])' = Touches(op[v]) /\ Through(op[v])' = Through(op[v])
      BY <1>2, <2>2, <3>1
    <3>3. ~Clash(op[u], op[v]) /\ op[u].seq # op[v].seq BY <2>2, <3>1 DEF Good, ApartInv
    <3>4. ~Clash(op[u], op[v])' BY <2>0, <3>2, <3>3 DEF Clash
    <3> QED BY <3>1, <3>3, <3>4
  <2> QED BY <2>1, <2>2 DEF ApartInv
<1>7. (\E fs : fs = Replayed /\ Shows(fs, g, e))' OBVIOUS
<1> QED BY <1>3, <1>4, <1>5, <1>6, <1>7 DEF Good

-----------------------------------------------------------------------------
(* Operations begin.                                                        *)

\* The assumptions: callers keep their operations apart, the lower file system
\* fails nothing for reasons of its own, files are opened with O_APPEND, and
\* mknod and writev, which trfs does not log, are not used.
KeptApart == Isolated /\ ~LowerErrors /\ AppendModes \subseteq {TRUE} /\ Ops \cap {"mknod", "writev"} = {}

NewOp(type, d, loc, loc2, held, err) ==
  [type |-> type, d |-> d, loc |-> loc, loc2 |-> loc2, held |-> held, seq |-> nops + 1, err |-> err]

\* Task t begins operation o, which is then to be logged.
Began(t, o) ==
  /\ pc[t] = "idle" /\ pc'[t] = "log" /\ op'[t] = o /\ log' = log /\ nops' = nops + 1 /\ o.seq = nops + 1
  /\ \A x \in o.held : lock[x] = NoTask
  /\ \A u \in Tasks : u # t => op'[u] = op[u] /\ pc'[u] = pc[u]
  /\ \A u \in Tasks : pc[u] # "idle" => u # t /\ ~Clash(op[u], o) /\ op[u].held \cap o.held = {}

\* That is what Begin says.
LEMMA BeginFacts ==
  ASSUME AllOps, Isolated, NEW t \in Tasks, NEW type, NEW d, NEW loc, NEW loc2, NEW held, NEW err,
         Begin(t, type, d, loc, loc2, held, err, "log"), NEW o, o = NewOp(type, d, loc, loc2, held, err)
  PROVE  Began(t, o)
<1>1. /\ pc[t] = "idle" /\ op' = [op EXCEPT ![t] = o] /\ pc' = [pc EXCEPT ![t] = "log"] /\ log' = log /\ nops' = nops + 1
      /\ \A x \in held : lock[x] = NoTask
      /\ \A u \in Tasks : pc[u] # "idle" => ~Clash(op[u], o)
  BY DEF Begin, NewOp
<1>2. o.held = held /\ o.seq = nops + 1 BY DEF NewOp
<1>3. pc \in [Tasks -> {"idle", "log", "ret", "oops"}] /\ op \in [Tasks -> OpRecords] BY DEF AllOps, TreeInv, ControlType
<1>4. pc'[t] = "log" /\ op'[t] = o /\ \A u \in Tasks : u # t => op'[u] = op[u] /\ pc'[u] = pc[u] BY <1>1, <1>3
<1>5. \A u \in Tasks : pc[u] # "idle" => u # t /\ op[u].held \cap held = {} BY <1>1, UnderWay
<1> QED BY <1>1, <1>2, <1>4, <1>5 DEF Began

\* A tree that is shown stays so when its dentries keep their kind and inode.
LEMMA SameShown ==
  ASSUME NEW f, WellFormed(f), NEW fs, NEW dat, Shows(fs, f, dat),
         \A x \in Live(f) : kind'[x] = kind[x] /\ ino'[x] = ino[x]
  PROVE  WellFormed(f)' /\ Shows(fs, f, dat)'
<1>1. WellFormed(f)'
  <2>1. \A x \in Live(f) : /\ Home(f, f[x]) /\ (kind[x] = "dir" => f[x].par = Root)
                           /\ f[x].par # Root => f[x].par \in Live(f)
    BY LiveFacts DEF WellFormed, Live
  <2>2. \A x \in Live(f) : Home(f, f[x])' /\ (kind'[x] = "dir" => f[x].par = Root) BY <2>1 DEF Home
  <2> QED BY <2>2 DEF WellFormed, Live
<1>2. Shows(fs, f, dat)'
  <2>1. /\ fs = [at |-> fs.at, inode |-> fs.inode]
        /\ DOMAIN fs.at = {PathIn(f, f[d]) : d \in Live(f)}
    BY DEF Shows
  <2>2. \A d \in Live(f) : LET i == fs.at[PathIn(f, f[d])] IN
          i \in DOMAIN fs.inode /\ fs.inode[i] = [kind |-> kind'[d], data |-> dat[ino'[d]]]
    <3> SUFFICES ASSUME NEW d \in Live(f)
                 PROVE  LET i == fs.at[PathIn(f, f[d])] IN
                        i \in DOMAIN fs.inode /\ fs.inode[i] = [kind |-> kind'[d], data |-> dat[ino'[d]]]
      OBVIOUS
    <3>1. LET i == fs.at[PathIn(f, f[d])] IN
          i \in DOMAIN fs.inode /\ fs.inode[i] = [kind |-> kind[d], data |-> dat[ino[d]]]
      BY Zenon DEF Shows
    <3>2. kind'[d] = kind[d] /\ ino'[d] = ino[d] OBVIOUS
    <3> QED BY <3>1, <3>2
  <2>3. \A d, e \in Live(f) : ino'[d] = ino'[e] <=> fs.at[PathIn(f, f[d])] = fs.at[PathIn(f, f[e])]
    <3> SUFFICES ASSUME NEW d \in Live(f), NEW e \in Live(f)
                 PROVE  ino'[d] = ino'[e] <=> fs.at[PathIn(f, f[d])] = fs.at[PathIn(f, f[e])]
      OBVIOUS
    <3>1. ino[d] = ino[e] <=> fs.at[PathIn(f, f[d])] = fs.at[PathIn(f, f[e])] BY Zenon DEF Shows
    <3>2. ino'[d] = ino[d] /\ ino'[e] = ino[e] OBVIOUS
    <3> QED BY <3>1, <3>2
  <2> QED BY <2>1, <2>2, <2>3 DEF Shows, Live, PathIn
<1> QED BY <1>1, <1>2

\* What the operation that begins makes different.
NewlyDiffer(t, f, dat) ==
  /\ \A x \in Dents : f[x] # lo'[x] => x \in About(op[t])' \/ f[x] # lo[x]
  /\ \A i \in Dents : dat[i] # data'[i] => (op'[t].type = "FWRITE" /\ ino'[op'[t].d] = i) \/ dat[i] # data[i]

\* An operation that begins keeps everything if it is now to be logged.
LEMMA BeginGood ==
  ASSUME AllOps, AllOps', NEW f, NEW dat, Good(f, dat), NEW t \in Tasks, NEW o, Began(t, o),
         Frame(o, f, f), \A u \in Tasks : u # t => fd'[u] = fd[u], DataFrame(o, dat, dat),
         Pending(t, f, dat)', Running(t)', NewlyDiffer(t, f, dat),
         Touches(op[t])' \subseteq Touches(o), Through(op[t])' \subseteq Through(o),
         NodeInv', OpenInv'
  PROVE  Good(f, dat)'
<1>1. /\ pc[t] = "idle" /\ pc'[t] = "log" /\ op'[t] = o /\ log' = log /\ nops' = nops + 1
      /\ o.seq = nops + 1
      /\ \A u \in Tasks : u # t => op'[u] = op[u] /\ pc'[u] = pc[u]
      /\ \A u \in Tasks : pc[u] # "idle" => u # t /\ ~Clash(op[u], o) /\ op[u].held \cap o.held = {}
  BY DEF Began
<1>2. OthersStay(t, o) BY <1>1 DEF OthersStay
<1>3. WellFormed(f) /\ dat \in [Dents -> Seq(1 .. MaxOps)] /\ FreshInv
      /\ \A x \in Dents : f[x] # None => kind[x] # "free"
  BY DEF Good
<1>4. \A x \in Dents : kind[x] # "free" => kind'[x] = kind[x] /\ ino'[x] = ino[x] BY DEF Frame, Kept
<1>5. \A x \in Live(f) : kind'[x] = kind[x] /\ ino'[x] = ino[x] BY <1>3, <1>4 DEF Live
<1>6. PICK fs : fs = Replayed /\ Shows(fs, f, dat) BY DEF Good
<1>7. Replayed' = Replayed BY <1>1 DEF Replayed
<1>8. WellFormed(f)' /\ Shows(fs, f, dat)' BY <1>3, <1>5, <1>6, SameShown
<1>9. \E gs : gs = Replayed' /\ Shows(gs, f, dat)' BY <1>6, <1>7, <1>8
<1>10. \A x \in Dents : f[x] # None => kind'[x] # "free" BY <1>3, <1>4
<1>11. StillDiffer(t, f, dat, f, dat) BY <1>1 DEF NewlyDiffer, StillDiffer
<1>12. nops \in Nat BY BoundAssumption DEF AllOps, TreeInv, ControlType
<1>13. StaysApart(t, o)
  <2>1. \A u \in Tasks : op[u].seq <= nops /\ op[u].seq \in Nat BY UnderWay
  <2> QED BY <1>1, <1>12, <2>1 DEF StaysApart
<1>14. FreshInv'
  <2> SUFFICES ASSUME NEW id \in DOMAIN Replayed.inode
               PROVE  id \in 0 .. nops' /\ \A u \in Tasks : pc'[u] = "log" => id # op'[u].seq
    BY <1>7 DEF FreshInv
  <2>1. id \in 0 .. nops /\ \A u \in Tasks : pc[u] = "log" => id # op[u].seq BY <1>3 DEF FreshInv
  <2>2. id \in 0 .. nops' /\ id # nops + 1 BY <1>1, <1>12, <2>1
  <2> QED BY <1>1, <2>1, <2>2
<1> QED BY <1>1, <1>2, <1>3, <1>8, <1>9, <1>10, <1>11, <1>13, <1>14, StepGood

\* Nothing that is under way clashes with o.
NoClash(o) == \A u \in Tasks : pc[u] # "idle" => ~Clash(op[u], o)

\* A dentry that such an operation works on has one place.
LEMMA Worked ==
  ASSUME AllOps, NEW f, NEW dat, Good(f, dat), NEW o, NoClash(o), NEW x \in Dents, ino[x] \in Touches(o) \cup Through(o)
  PROVE  Settled(x, f)
  BY Untouched DEF NoClash, Clash

\* The directories it goes through are in the trees.
LEMMA Reach ==
  ASSUME AllOps, NEW f, NEW dat, Good(f, dat), NEW o, NoClash(o), NEW x \in Through(o),
         x \in Dirs \/ (x \in Dents /\ f[x] # None /\ kind[x] = "dir")
  PROVE  x \in Dents /\ kind[x] = "dir" /\ (x = Root \/ (f[x] # None /\ up[x] = f[x] /\ f[x].par = Root))
<1>1. CASE x = Root BY <1>1, RootAssumption, Trees
<1>2. CASE x # Root
  <2>1. x \in Dents /\ kind[x] = "dir" BY <1>2, Trees DEF Dirs
  <2>2. ino[x] = x BY <2>1 DEF Good, NodeInv
  <2>3. Settled(x, f) BY <2>1, <2>2, Worked
  <2>4. f[x] # None /\ x \in hashed
    <3>1. CASE x \in Dirs BY <1>2, <2>3, <3>1, Trees DEF Dirs, Settled
    <3>2. CASE f[x] # None BY <2>1, <2>3, <3>2 DEF Settled, Good, NodeInv
    <3> QED BY <3>1, <3>2
  <2>5. f[x].par = Root BY <2>1, <2>4 DEF Good, WellFormed
  <2> QED BY <2>1, <2>3, <2>4, <2>5 DEF Settled
<1> QED BY <1>1, <1>2

\* A free dentry is nowhere, and its inode has no contents.
LEMMA FreeFacts ==
  ASSUME AllOps, NEW f, NEW dat, Good(f, dat), NEW d \in Free
  PROVE  /\ d \in Dents /\ d # Root /\ d \notin hashed /\ kind[d] = "free" /\ lo[d] = None /\ f[d] = None
         /\ ino[d] = d /\ (\A e \in Dents : ino[e] = d => e = d) /\ data[d] = <<>> /\ Spots(d) = {None}
<1>1. d \in Dents /\ kind[d] = "free" BY DEF Free
<1>2. d # Root /\ d \notin hashed BY <1>1, Trees
<1>3. lo[d] = None /\ ino[d] = d /\ (\A e \in Dents : ino[e] = d => e = d) /\ data[d] = <<>>
  BY <1>1, <1>2 DEF Good, NodeInv
<1>4. f[d] = None BY <1>1 DEF Good
<1> QED BY <1>1, <1>2, <1>3, <1>4 DEF Spots

\* Contents of an inode that no operation under way works on were logged.
LEMMA SameData ==
  ASSUME AllOps, NEW f, NEW dat, Good(f, dat), NEW o, NoClash(o), NEW i \in Touches(o), i \in Dents
  PROVE  dat[i] = data[i]
<1> SUFFICES ASSUME dat[i] # data[i] PROVE FALSE OBVIOUS
<1>1. PICK u \in Tasks : pc[u] = "log" /\ ino[op[u].d] = i BY DEF Good, DifferInv
<1>2. i \in Touches(op[u]) BY <1>1 DEF Touches
<1> QED BY <1>1, <1>2 DEF NoClash, Clash

\* create, mkdir and symlink begin.
LEMMA MakeBegins ==
  ASSUME KeptApart, AllOps, AllOps', NEW f, NEW dat, Good(f, dat), NEW t \in Tasks, NEW type, NEW k, NEW onerr,
         <<type, k>> \in {<<"FCREAT", "file">>, <<"DCREAT", "dir">>, <<"SYMLINK", "symlink">>},
         MakeNode(t, k, type, "log", onerr)
  PROVE  Good(f, dat)'
<1>0. Isolated /\ ~LowerErrors BY DEF KeptApart
<1>1. PICK dir \in Dirs, n \in Names, d \in Free :
        LET loc == Loc(dir, n) IN
        /\ UpperChild(loc) = {}
        /\ k = "dir" => dir = Root
        /\ UNCHANGED <<ino, data, fd>>
        /\ \/ /\ LowerChild(loc) = {}
              /\ Begin(t, type, d, loc, None, {dir}, 0, "log")
              /\ kind' = [kind EXCEPT ![d] = k]
              /\ lo' = [lo EXCEPT ![d] = loc]
              /\ up' = [up EXCEPT ![d] = loc]
              /\ hashed' = hashed \cup {d}
           \/ /\ LowerChild(loc) # {}
              /\ Begin(t, type, d, loc, None, {dir}, -1, onerr)
  BY <1>0 DEF MakeNode
<1> DEFINE loc == Loc(dir, n)
<1> DEFINE o == NewOp(type, d, loc, None, {dir}, 0)
<1>2. loc \in Locs /\ loc.par = dir /\ loc # None /\ dir \in Dents BY DirPlaces DEF AllOps, Loc
<1>3. lock[dir] = NoTask BY <1>1 DEF Begin
<1> HIDE DEF loc
<1>4. \A x \in Dents : f[x] # loc /\ lo[x] # loc
  <2>1. UpperChild(loc) = {} BY <1>1 DEF loc
  <2> QED BY <1>2, <1>3, <2>1, AtRest
<1>5. /\ Begin(t, type, d, loc, None, {dir}, 0, "log")
      /\ kind' = [kind EXCEPT ![d] = k] /\ lo' = [lo EXCEPT ![d] = loc] /\ up' = [up EXCEPT ![d] = loc]
      /\ hashed' = hashed \cup {d} /\ UNCHANGED <<ino, data, fd>>
      /\ k = "dir" => dir = Root
  BY <1>1, <1>4 DEF LowerChild, loc
<1>6. /\ d \in Dents /\ d # Root /\ d \notin hashed /\ kind[d] = "free" /\ lo[d] = None /\ f[d] = None
      /\ ino[d] = d /\ (\A e \in Dents : ino[e] = d => e = d) /\ data[d] = <<>> /\ Spots(d) = {None}
  BY FreeFacts
<1>a. o = NewOp(type, d, loc, None, {dir}, 0) OBVIOUS
<1> HIDE DEF o
<1>7. Began(t, o) /\ pc[t] = "idle" /\ pc'[t] = "log" /\ op'[t] = o
  <2>1. Began(t, o) BY <1>0, <1>5, <1>a, BeginFacts
  <2> QED BY <2>1 DEF Began
<1>b. o.type = type /\ o.d = d /\ o.loc = loc /\ o.loc2 = None /\ o.held = {dir} /\ o.err = 0 BY <1>a DEF NewOp
<1>8. NoClash(o) BY <1>7 DEF NoClash, Began
<1>9. /\ kind'[d] = k /\ lo'[d] = loc /\ up'[d] = loc /\ d \in hashed'
      /\ \A x \in Dents : x # d => Kept(x)
  BY <1>5, <1>6 DEF Kept, AllOps, TreeInv, TreeType
<1>10. Touches(o) = {d} /\ dir \in Through(o)
  <2>1. UpperChild(None) = {} BY Trees
  <2> QED BY <1>2, <1>6, <1>7, <1>b, <2>1 DEF Touches, Through
<1>11. dir \in Dents /\ kind[dir] = "dir" /\ (dir = Root \/ (f[dir] # None /\ up[dir] = f[dir] /\ f[dir].par = Root))
  BY <1>8, <1>10, Reach
<1>12. Frame(o, f, f)
  <2>1. SpotsNext(d) = {loc} BY <1>9 DEF SpotsNext
  <2> QED BY <1>2, <1>6, <1>7, <1>b, <1>9, <2>1 DEF Frame
<1>13. UpperChild(None)' = {}
  <2>1. \A x \in hashed' : up'[x] \in Locs BY DEF AllOps, TreeInv, PlaceInv
  <2> QED BY <2>1, Places DEF UpperChild
<1>14. Touches(op[t])' = {d} /\ Through(op[t])' = {dir} /\ d \in About(op[t])'
  <2>1. UpperChild(op[t].loc2)' = UpperChild(None)' BY <1>7, <1>b DEF UpperChild
  <2>2. Through(op[t])' = {l.par : l \in {loc, None, loc} \ {None}} BY <1>7, <1>b, <1>9 DEF Through
  <2>3. Touches(op[t])' = {d} BY <1>5, <1>6, <1>7, <1>b, <1>13, <2>1 DEF Touches
  <2> QED BY <1>2, <1>7, <1>b, <2>2, <2>3 DEF About
<1>15. Pending(t, f, dat)'
  <2>1. Ways(op[t], f)'
    <3>1. kind'[dir] = kind[dir] /\ up'[dir] = up[dir] BY <1>6, <1>9, <1>11 DEF Kept
    <3> QED BY <1>11, <1>14, <3>1 DEF Ways
  <2>2. dat[d] = <<>> BY <1>6, <1>8, <1>10, SameData
  <2>3. \A e \in Dents : f[e] # None => ino'[e] # d BY <1>5, <1>6
  <2>4. kind'[d] = CASE type = "FCREAT" -> "file" [] type = "DCREAT" -> "dir" [] OTHER -> "symlink" BY <1>9
  <2>5. type \in {"FCREAT", "DCREAT", "SYMLINK"} /\ (type = "DCREAT" => loc.par = Root) BY <1>2, <1>5
  <2>6. MakePending(op[t], f, dat)' BY <1>2, <1>4, <1>5, <1>6, <1>7, <1>b, <1>9, <2>2, <2>3, <2>4, <2>5 DEF MakePending
  <2> QED BY <2>1, <2>6 DEF Pending
<1>16. Running(t)'
  <2>1. type \in RecTypes /\ type # "RENAME" /\ k # "free" BY DEF RecTypes
  <2> QED BY <1>2, <1>7, <1>b, <1>9, <2>1 DEF Running, Moving
<1>17. NewlyDiffer(t, f, dat) BY <1>5, <1>9, <1>14 DEF NewlyDiffer, Kept
<1>18. NodeInv'
  <2>1. NodeInv BY DEF Good
  <2>2. \A x \in Dents : x # d => kind'[x] = kind[x] BY <1>9 DEF Kept
  <2>3. \A x, y \in Dents : kind'[x] \in {"free", "dir"} => (ino'[y] = x <=> y = x) BY <1>5, <1>6, <2>1, <2>2 DEF NodeInv
  <2>4. \A x, y \in Dents : ino'[x] = ino'[y] => kind'[x] = kind'[y] BY <1>5, <1>6, <2>1, <2>2 DEF NodeInv
  <2>5. \A x \in Dents : kind'[x] = "free" => data'[x] = <<>> BY <1>5, <1>6, <2>1, <2>2 DEF NodeInv
  <2>6. \A x \in Dents : lo'[x] # None => x \in hashed' BY <1>9, <2>1 DEF NodeInv, Kept
  <2> QED BY <2>3, <2>4, <2>5, <2>6 DEF NodeInv
<1>19. OpenInv'
  <2>1. \A u \in Tasks : fd[u] # None => fd[u].d \in Dents BY OpenPlace DEF AllOps
  <2>2. \A u \in Tasks : fd[u] # None => fd[u].d # d BY <1>6 DEF Good, OpenInv
  <2> QED BY <1>5, <1>9, <2>1, <2>2 DEF Good, OpenInv, Kept
<1>20. DataFrame(o, dat, dat) BY <1>5 DEF DataFrame
<1>21. Touches(op[t])' \subseteq Touches(o) /\ Through(op[t])' \subseteq Through(o) BY <1>10, <1>14
<1> QED BY <1>5, <1>7, <1>12, <1>15, <1>16, <1>17, <1>18, <1>19, <1>20, <1>21, BeginGood

\* The upper dentries of a state have places.
LEMMA NoneNext == ASSUME AllOps' PROVE UpperChild(None)' = {}
<1>1. \A x \in hashed' : up'[x] \in Locs BY DEF AllOps, TreeInv, PlaceInv
<1> QED BY <1>1, Places DEF UpperChild

\* A dentry that a lookup finds and an operation begins on: its place in all
\* trees, and the directory it is in.
LEMMA Found ==
  ASSUME AllOps, NEW f, NEW dat, Good(f, dat), NEW o, NoClash(o), NEW d \in hashed,
         ino[d] \in Touches(o), up[d].par \in Through(o)
  PROVE  /\ d \in Dents /\ d # Root /\ ino[d] \in Dents /\ up[d] \in Locs /\ up[d] # None
         /\ f[d] = up[d] /\ lo[d] = up[d] /\ kind[d] # "free" /\ Spots(d) = {up[d]}
         /\ up[d].par \in Dents /\ kind[up[d].par] = "dir"
         /\ \/ up[d].par = Root
            \/ f[up[d].par] # None /\ up[up[d].par] = f[up[d].par] /\ f[up[d].par].par = Root
<1>1. d \in Dents /\ d # Root /\ ino[d] \in Dents /\ up[d] \in Locs /\ up[d] # None /\ kind[d] # "free" BY Trees
<1>2. Settled(d, f) BY <1>1, Worked
<1>3. f[d] = up[d] /\ lo[d] = up[d] BY <1>2 DEF Settled
<1>4. Home(f, up[d]) /\ up[d].par \in Dents BY <1>1, <1>3, Places DEF Good, WellFormed
<1>5. up[d].par \in Dirs \/ (up[d].par \in Dents /\ f[up[d].par] # None /\ kind[up[d].par] = "dir")
  BY <1>4 DEF Home, Dirs
<1>6. /\ up[d].par \in Dents /\ kind[up[d].par] = "dir"
      /\ \/ up[d].par = Root
         \/ f[up[d].par] # None /\ up[up[d].par] = f[up[d].par] /\ f[up[d].par].par = Root
  BY <1>5, Reach
<1> QED BY <1>1, <1>3, <1>6 DEF Spots

\* The two outcomes of unlink and rmdir when nothing else fails below.
Removed(d, err) ==
  \/ /\ err = 0 /\ lo' = [lo EXCEPT ![d] = None] /\ hashed' = hashed \ {d}
     /\ (kind[d] = "dir" /\ LowerEmpty(d)) \/ (kind[d] # "dir" /\ ~InUse(d))
  \/ err = -1 /\ UNCHANGED <<lo, hashed>> /\ kind[d] = "dir" /\ ~LowerEmpty(d)

\* unlink and rmdir begin.
LEMMA RemoveBegins ==
  ASSUME KeptApart, AllOps, AllOps', NEW f, NEW dat, Good(f, dat), NEW t \in Tasks, NEW d \in hashed, NEW err,
         UNCHANGED <<kind, ino, up, data, fd>>, Removed(d, err),
         Begin(t, "UNLINK", d, up[d], None, {up[d].par, ino[d]}, err, "log")
  PROVE  Good(f, dat)'
<1> DEFINE p == up[d]
<1> DEFINE o == NewOp("UNLINK", d, p, None, {p.par, ino[d]}, err)
<1>a. o = NewOp("UNLINK", d, p, None, {p.par, ino[d]}, err) OBVIOUS
<1> HIDE DEF o
<1>1. Began(t, o) /\ pc[t] = "idle" /\ pc'[t] = "log" /\ op'[t] = o
  <2>1. Isolated BY DEF KeptApart
  <2>2. Began(t, o) BY <1>a, <2>1, BeginFacts
  <2> QED BY <2>2 DEF Began
<1>2. /\ o.type = "UNLINK" /\ o.d = d /\ o.loc = p /\ o.loc2 = None /\ o.held = {p.par, ino[d]} /\ o.err = err
  BY <1>a DEF NewOp
<1>3. NoClash(o) BY <1>1 DEF NoClash, Began
<1>4. Touches(o) = {ino[d]} /\ Through(o) = {p.par}
  <2>1. UpperChild(None) = {} /\ p # None BY Trees
  <2> QED BY <1>2, <2>1 DEF Touches, Through
<1>5. /\ d \in Dents /\ d # Root /\ ino[d] \in Dents /\ p \in Locs /\ p # None
      /\ f[d] = p /\ lo[d] = p /\ kind[d] # "free" /\ Spots(d) = {p}
      /\ p.par \in Dents /\ kind[p.par] = "dir"
      /\ p.par = Root \/ (f[p.par] # None /\ up[p.par] = f[p.par] /\ f[p.par].par = Root)
  BY <1>3, <1>4, Found
<1>6. kind[d] = "dir" => ino[d] = d /\ (Childless(f, d) <=> LowerEmpty(d))
  <2>1. kind[d] = "dir" => ino[d] = d BY <1>5 DEF Good, NodeInv
  <2>2. lock[ino[d]] = NoTask BY <1>1, <1>2 DEF Began
  <2> QED BY <2>1, <2>2, EmptyAtRest
<1>7. /\ up'[d] = p /\ lo'[d] \in {None, p} /\ (lo'[d] = None <=> err = 0)
      /\ \A x \in Dents : x # d => Kept(x)
  BY <1>5 DEF Removed, Kept, AllOps, TreeInv, TreeType
<1> HIDE DEF p
<1>8. Frame(o, f, f)
  <2>1. SpotsNext(d) \subseteq {None, p} BY <1>7 DEF SpotsNext
  <2>2. \A l \in Spots(d) \cup SpotsNext(d) \cup {f[d], f[d]} : l = None \/ l.par \in o.held BY <1>2, <1>5, <2>1
  <2>3. ino[d] \in Touches(o) /\ kind'[d] = kind[d] /\ ino'[d] = ino[d] BY <1>4
  <2> QED BY <1>7, <2>2, <2>3 DEF Frame
<1>9. Touches(op[t])' = {ino[d]} /\ Through(op[t])' = {p.par} /\ d \in About(op[t])'
  <2>1. UpperChild(op[t].loc2)' = {}
    <3>1. UpperChild(None)' = {} BY NoneNext
    <3> QED BY <1>1, <1>2, <3>1 DEF UpperChild
  <2>2. Through(op[t])' = {l.par : l \in {p, None, p} \ {None}} BY <1>1, <1>2, <1>7 DEF Through
  <2>3. Touches(op[t])' = {ino[d]} BY <1>1, <1>2, <2>1 DEF Touches
  <2> QED BY <1>1, <1>2, <1>5, <2>2, <2>3 DEF About
<1>10. Pending(t, f, dat)'
  <2>1. Ways(op[t], f)' BY <1>5, <1>9 DEF Ways
  <2>2. \/ err = 0 /\ lo'[d] = None /\ (kind'[d] = "dir" => Childless(f, d))
        \/ err = -1 /\ lo'[d] = p /\ kind'[d] = "dir" /\ ~Childless(f, d)
    BY <1>5, <1>6, <1>7 DEF Removed
  <2>3. kind'[d] = "dir" => d \in o.held BY <1>2, <1>6
  <2>4. RemovePending(op[t], f)' BY <1>1, <1>2, <1>5, <1>7, <2>2, <2>3 DEF RemovePending, Childless
  <2> QED BY <2>1, <2>4 DEF Pending
<1>11. Running(t)'
  <2>1. "UNLINK" \in RecTypes BY DEF RecTypes
  <2> QED BY <1>1, <1>2, <1>5, <2>1 DEF Running, Moving
<1>12. NewlyDiffer(t, f, dat) BY <1>7, <1>9 DEF NewlyDiffer, Kept
<1>13. NodeInv'
  <2>1. NodeInv BY DEF Good
  <2>2. \A x \in Dents : lo'[x] # None => x \in hashed'
    <3>1. lo'[d] # None => d \in hashed' BY <1>7 DEF Removed
    <3>2. \A x \in Dents : x # d /\ lo'[x] # None => x \in hashed' BY <1>7, <2>1 DEF NodeInv, Kept
    <3> QED BY <3>1, <3>2
  <2> QED BY <2>1, <2>2 DEF NodeInv
<1>14. OpenInv'
  <2>1. \A u \in Tasks : fd[u] # None => fd[u].d \in Dents BY OpenPlace DEF AllOps
  <2>2. \A u \in Tasks : fd[u] # None => lo'[fd[u].d] # None
    <3> SUFFICES ASSUME NEW u \in Tasks, fd[u] # None PROVE lo'[fd[u].d] # None OBVIOUS
    <3>1. lo[fd[u].d] # None /\ kind[fd[u].d] = "file" BY DEF Good, OpenInv
    <3>2. CASE fd[u].d # d BY <1>7, <2>1, <3>1, <3>2 DEF Kept
    <3>3. CASE fd[u].d = d BY <1>7, <3>1, <3>3 DEF Removed, InUse
    <3> QED BY <3>2, <3>3
  <2> QED BY <2>2 DEF Good, OpenInv
<1>15. DataFrame(o, dat, dat) BY DEF DataFrame
<1>16. Touches(op[t])' \subseteq Touches(o) /\ Through(op[t])' \subseteq Through(o) BY <1>4, <1>9
<1>17. \A u \in Tasks : u # t => fd'[u] = fd[u] OBVIOUS
<1> QED BY <1>1, <1>8, <1>10, <1>11, <1>12, <1>13, <1>14, <1>15, <1>16, <1>17, BeginGood

\* unlink begins.
LEMMA UnlinkBegins ==
  ASSUME KeptApart, AllOps, AllOps', NEW f, NEW dat, Good(f, dat), NEW t \in Tasks, Unlink(t)
  PROVE  Good(f, dat)'
<1>0. Isolated /\ ~LowerErrors BY DEF KeptApart
<1>1. PICK d \in hashed :
        /\ kind[d] # "dir" /\ ~InUse(d) /\ UNCHANGED <<kind, ino, up, data, fd>>
        /\ Begin(t, "UNLINK", d, up[d], None, {up[d].par, ino[d]}, 0, "log")
        /\ lo' = [lo EXCEPT ![d] = None] /\ hashed' = hashed \ {d}
  BY <1>0 DEF Unlink
<1>2. Removed(d, 0) BY <1>1 DEF Removed
<1> QED BY <1>1, <1>2, RemoveBegins

\* rmdir begins.
LEMMA RmdirBegins ==
  ASSUME KeptApart, AllOps, AllOps', NEW f, NEW dat, Good(f, dat), NEW t \in Tasks, Rmdir(t)
  PROVE  Good(f, dat)'
<1>0. ~LowerErrors BY DEF KeptApart
<1>1. PICK d \in hashed, err \in {0, -1} :
        /\ kind[d] = "dir" /\ UNCHANGED <<kind, ino, up, data, fd>>
        /\ Begin(t, "UNLINK", d, up[d], None, {up[d].par, d}, err, "log")
        /\ \/ err = 0 /\ LowerEmpty(d) /\ lo' = [lo EXCEPT ![d] = None] /\ hashed' = hashed \ {d}
           \/ err = -1 /\ ~LowerEmpty(d) /\ UNCHANGED <<lo, hashed>>
  BY <1>0 DEF Rmdir
<1>2. ino[d] = d
  <2>1. d \in Dents BY Trees
  <2> QED BY <1>1, <2>1 DEF Good, NodeInv
<1>3. Removed(d, err) BY <1>1 DEF Removed
<1> QED BY <1>1, <1>2, <1>3, RemoveBegins

\* link begins.
LEMMA LinkBegins ==
  ASSUME KeptApart, AllOps, AllOps', NEW f, NEW dat, Good(f, dat), NEW t \in Tasks, Link(t)
  PROVE  Good(f, dat)'
<1>0. Isolated /\ ~LowerErrors BY DEF KeptApart
<1>1. PICK d \in hashed, dir \in Dirs, n \in Names, e \in Free :
       LET loc == Loc(dir, n) IN
       /\ kind[d] # "dir"
       /\ UpperChild(loc) = {}
       /\ UNCHANGED <<data, fd>>
       /\ \/ /\ LowerChild(loc) = {}
             /\ Begin(t, "LINK", d, up[d], loc, {dir, ino[d]}, 0, "log")
             /\ kind' = [kind EXCEPT ![e] = kind[d]]
             /\ ino' = [ino EXCEPT ![e] = ino[d]]
             /\ lo' = [lo EXCEPT ![e] = loc]
             /\ up' = [up EXCEPT ![e] = loc]
             /\ hashed' = hashed \cup {e}
          \/ /\ LowerErrors \/ LowerChild(loc) # {}
             /\ Begin(t, "LINK", d, up[d], loc, {dir, ino[d]}, -1, "log")
             /\ UNCHANGED <<kind, ino, lo, up, hashed>>
  BY DEF Link
<1> DEFINE p == up[d]
<1> DEFINE loc == Loc(dir, n)
<1> DEFINE o == NewOp("LINK", d, p, loc, {dir, ino[d]}, 0)
<1>2. loc \in Locs /\ loc.par = dir /\ loc # None /\ dir \in Dents BY DirPlaces DEF AllOps, Loc
<1>3. lock[dir] = NoTask BY <1>1 DEF Begin
<1>4. UpperChild(loc) = {} /\ \A x \in Dents : f[x] # loc /\ lo[x] # loc
  <2>1. UpperChild(loc) = {} BY <1>1
  <2> HIDE DEF loc
  <2> QED BY <1>2, <1>3, <2>1, AtRest
<1>5. /\ Begin(t, "LINK", d, p, loc, {dir, ino[d]}, 0, "log")
      /\ kind' = [kind EXCEPT ![e] = kind[d]] /\ ino' = [ino EXCEPT ![e] = ino[d]]
      /\ lo' = [lo EXCEPT ![e] = loc] /\ up' = [up EXCEPT ![e] = loc]
      /\ hashed' = hashed \cup {e} /\ UNCHANGED <<data, fd>> /\ kind[d] # "dir"
  BY <1>0, <1>1, <1>4 DEF LowerChild
<1>6. /\ e \in Dents /\ e # Root /\ e \notin hashed /\ kind[e] = "free" /\ lo[e] = None /\ f[e] = None
      /\ ino[e] = e /\ (\A x \in Dents : ino[x] = e => x = e) /\ data[e] = <<>> /\ Spots(e) = {None}
  BY FreeFacts
<1>a. o = NewOp("LINK", d, p, loc, {dir, ino[d]}, 0) OBVIOUS
<1> HIDE DEF o
<1> HIDE DEF loc
<1>7. Began(t, o) /\ pc[t] = "idle" /\ pc'[t] = "log" /\ op'[t] = o
  <2>1. Began(t, o) BY <1>0, <1>5, <1>a, BeginFacts
  <2> QED BY <2>1 DEF Began
<1>b. o.type = "LINK" /\ o.d = d /\ o.loc = p /\ o.loc2 = loc /\ o.held = {dir, ino[d]} /\ o.err = 0 BY <1>a DEF NewOp
<1>8. NoClash(o) BY <1>7 DEF NoClash, Began
<1>9. Touches(o) = {ino[d]} /\ Through(o) = {p.par, dir}
  <2>1. p # None BY Trees
  <2>2. Touches(o) = {ino[d]} BY <1>4, <1>b DEF Touches
  <2>3. Through(o) = {l.par : l \in {p, loc, p} \ {None}} BY <1>b DEF Through
  <2> QED BY <1>2, <2>1, <2>2, <2>3
<1>10. /\ d \in Dents /\ d # Root /\ ino[d] \in Dents /\ p \in Locs /\ p # None
       /\ f[d] = p /\ lo[d] = p /\ kind[d] # "free" /\ Spots(d) = {p}
       /\ p.par \in Dents /\ kind[p.par] = "dir"
       /\ p.par = Root \/ (f[p.par] # None /\ up[p.par] = f[p.par] /\ f[p.par].par = Root)
  BY <1>8, <1>9, Found
<1>11. dir \in Dents /\ kind[dir] = "dir" /\ (dir = Root \/ (f[dir] # None /\ up[dir] = f[dir] /\ f[dir].par = Root))
  BY <1>8, <1>9, Reach
<1> HIDE DEF p
<1>12. /\ kind'[e] = kind[d] /\ ino'[e] = ino[d] /\ lo'[e] = loc /\ up'[e] = loc /\ e \in hashed'
       /\ \A x \in Dents : x # e => Kept(x)
  BY <1>5, <1>6 DEF Kept, AllOps, TreeInv, TreeType
<1>13. d # e /\ p.par # e /\ dir # e BY <1>6, <1>10, <1>11
<1>14. Frame(o, f, f)
  <2>1. SpotsNext(e) = {loc} BY <1>12 DEF SpotsNext
  <2>2. \A l \in Spots(e) \cup SpotsNext(e) \cup {f[e], f[e]} : l = None \/ l.par \in o.held BY <1>2, <1>6, <1>b, <2>1
  <2> QED BY <1>6, <1>12, <2>2 DEF Frame
<1>15. UpperChild(loc)' = {e}
  <2>1. \A x \in hashed : x \in Dents /\ up[x] # loc BY <1>4, Trees DEF UpperChild
  <2>2. \A x \in hashed : x # e /\ up'[x] = up[x] BY <1>6, <1>12, <2>1 DEF Kept
  <2> QED BY <1>5, <1>12, <2>1, <2>2 DEF UpperChild
<1>16. Touches(op[t])' = {ino[d]} /\ Through(op[t])' = {p.par, dir} /\ e \in About(op[t])'
  <2>1. UpperChild(op[t].loc2)' = {e} BY <1>7, <1>b, <1>15 DEF UpperChild
  <2>2. Through(op[t])' = {l.par : l \in {p, loc, up'[d]} \ {None}} BY <1>7, <1>b DEF Through
  <2>3. up'[d] = p /\ ino'[d] = ino[d] BY <1>10, <1>12, <1>13 DEF Kept, p
  <2>4. Touches(op[t])' = {ino'[d]} \cup {ino'[x] : x \in {e}} BY <1>7, <1>b, <2>1 DEF Touches
  <2>5. Touches(op[t])' = {ino[d]} BY <1>12, <2>3, <2>4
  <2>6. Through(op[t])' = {p.par, dir} BY <1>2, <1>10, <2>2, <2>3
  <2> QED BY <2>1, <2>5, <2>6 DEF About
<1>17. Pending(t, f, dat)'
  <2>1. Ways(op[t], f)'
    <3>1. \A x \in {p.par, dir} : kind'[x] = kind[x] /\ up'[x] = up[x] BY <1>10, <1>11, <1>12, <1>13 DEF Kept
    <3> QED BY <1>10, <1>11, <1>16, <3>1 DEF Ways
  <2>2. up'[d] = p /\ lo'[d] = p /\ ino'[d] = ino[d] /\ kind'[d] = kind[d] BY <1>10, <1>12, <1>13 DEF Kept, p
  <2>3. UpperChild(op[t].loc2)' = {e} BY <1>7, <1>b, <1>15 DEF UpperChild
  <2>4. LinkPending(op[t], f)'
    BY <1>2, <1>4, <1>5, <1>6, <1>7, <1>b, <1>10, <1>12, <2>2, <2>3 DEF LinkPending
  <2> QED BY <2>1, <2>4 DEF Pending
<1>18. Running(t)'
  <2>1. "LINK" \in RecTypes BY DEF RecTypes
  <2>2. kind'[d] = kind[d] BY <1>10, <1>12, <1>13 DEF Kept
  <2> QED BY <1>2, <1>7, <1>b, <1>10, <2>1, <2>2 DEF Running, Moving
<1>19. NewlyDiffer(t, f, dat) BY <1>5, <1>12, <1>16 DEF NewlyDiffer, Kept
<1>20. NodeInv'
  <2>1. NodeInv BY DEF Good
  <2>2. \A x \in Dents : x # e => kind'[x] = kind[x] /\ ino'[x] = ino[x] BY <1>12 DEF Kept
  <2>3. ino[d] # e /\ kind[d] \notin {"free", "dir"} BY <1>5, <1>6, <1>10, <1>13
  <2>4. kind[ino[d]] \notin {"free", "dir"} BY <1>10, <2>1, <2>3 DEF NodeInv
  <2>5. \A x, y \in Dents : kind'[x] \in {"free", "dir"} => (ino'[y] = x <=> y = x)
    <3> SUFFICES ASSUME NEW x \in Dents, NEW y \in Dents, kind'[x] \in {"free", "dir"} PROVE ino'[y] = x <=> y = x
      OBVIOUS
    <3>1. x # e /\ x # ino[d] /\ kind[x] \in {"free", "dir"} BY <1>12, <2>2, <2>3, <2>4
    <3>2. CASE y = e BY <1>12, <3>1, <3>2
    <3>3. CASE y # e BY <2>1, <2>2, <3>1, <3>3 DEF NodeInv
    <3> QED BY <3>2, <3>3
  <2>6. \A x, y \in Dents : ino'[x] = ino'[y] => kind'[x] = kind'[y] BY <1>10, <1>12, <2>1, <2>2 DEF NodeInv
  <2>7. \A x \in Dents : kind'[x] = "free" => data'[x] = <<>> BY <1>5, <1>6, <2>1, <2>2 DEF NodeInv
  <2>8. \A x \in Dents : lo'[x] # None => x \in hashed' BY <1>12, <2>1 DEF NodeInv, Kept
  <2> QED BY <2>5, <2>6, <2>7, <2>8 DEF NodeInv
<1>21. OpenInv'
  <2>1. \A u \in Tasks : fd[u] # None => fd[u].d \in Dents BY OpenPlace DEF AllOps
  <2>2. \A u \in Tasks : fd[u] # None => fd[u].d # e BY <1>6 DEF Good, OpenInv
  <2> QED BY <1>5, <1>12, <2>1, <2>2 DEF Good, OpenInv, Kept
<1>22. DataFrame(o, dat, dat) BY <1>5 DEF DataFrame
<1>23. Touches(op[t])' \subseteq Touches(o) /\ Through(op[t])' \subseteq Through(o) BY <1>9, <1>16
<1> QED BY <1>5, <1>7, <1>14, <1>17, <1>18, <1>19, <1>20, <1>21, <1>22, <1>23, BeginGood

\* What a rename of d to loc holds, the two outcomes when nothing else fails
\* below, and what the VFS has checked before.
MoveHeld(d, loc) ==
  {up[d].par, loc.par} \cup {ino[x] : x \in UpperChild(loc)} \cup (IF kind[d] = "dir" THEN {} ELSE {ino[d]})
Renamed(d, loc, err) ==
  \/ /\ err = 0 /\ LowerRenames(d, loc)
     /\ lo' = [x \in Dents |-> IF x = d THEN loc ELSE IF lo[x] = loc THEN None ELSE lo[x]]
  \/ err = -1 /\ ~LowerRenames(d, loc) /\ lo' = lo
MayRename(d, loc) ==
  /\ kind[d] = "dir" => loc.par = Root
  /\ \A e \in UpperChild(loc) : ~InUse(e) /\ ino[e] # ino[d] /\ (kind[e] = "dir" <=> kind[d] = "dir")

\* A rename begins, in these terms.
LEMMA RenameParts ==
  ASSUME KeptApart, AllOps, NEW t \in Tasks, Rename(t)
  PROVE  \E d \in hashed, loc \in Locs, err \in {0, -1} :
           /\ loc.par \in Dirs /\ MayRename(d, loc) /\ UNCHANGED <<kind, ino, up, hashed, data, fd>>
           /\ Renamed(d, loc, err) /\ Begin(t, "RENAME", d, up[d], loc, MoveHeld(d, loc), err, "log")
<1>0. Isolated /\ ~LowerErrors BY DEF KeptApart
<1>1. PICK d \in hashed, dir \in Dirs, n \in Names :
       LET loc  == Loc(dir, n)
           over == UpperChild(loc)
           held == {up[d].par, dir} \cup {ino[x] : x \in over} \cup (IF kind[d] = "dir" THEN {} ELSE {ino[d]})
       IN
       /\ kind[d] = "dir" => dir = Root
       /\ Isolated => \A e \in over : ~InUse(e)
       /\ \A e \in over : ino[e] # ino[d] /\ (kind[e] = "dir" <=> kind[d] = "dir")
       /\ UNCHANGED <<kind, ino, up, hashed, data, fd>>
       /\ \/ /\ LowerRenames(d, loc)
             /\ Begin(t, "RENAME", d, up[d], loc, held, 0, "log")
             /\ lo' = [x \in Dents |-> IF x = d THEN loc ELSE IF lo[x] = loc THEN None ELSE lo[x]]
          \/ /\ LowerErrors \/ ~LowerRenames(d, loc)
             /\ Begin(t, "RENAME", d, up[d], loc, held, -1, "log")
             /\ UNCHANGED lo
  BY DEF Rename
<1> DEFINE loc == Loc(dir, n)
<1>2. loc \in Locs /\ loc.par = dir BY DirPlaces DEF AllOps, Loc
<1>3. MoveHeld(d, loc) = {up[d].par, dir} \cup {ino[x] : x \in UpperChild(loc)} \cup (IF kind[d] = "dir" THEN {} ELSE {ino[d]})
  BY <1>2 DEF MoveHeld
<1>4. MayRename(d, loc) BY <1>0, <1>1, <1>2 DEF MayRename
<1>5. \E err \in {0, -1} : Renamed(d, loc, err) /\ Begin(t, "RENAME", d, up[d], loc, MoveHeld(d, loc), err, "log")
  BY <1>0, <1>1, <1>3 DEF Renamed
<1> QED BY <1>1, <1>2, <1>4, <1>5

\* The dentries of a rename that begins, and the trees after it.
LEMMA RenameFacts ==
  ASSUME AllOps, NEW f, NEW dat, Good(f, dat), NEW d \in hashed, NEW loc \in Locs, NEW err,
         loc.par \in Dirs, MayRename(d, loc), UNCHANGED <<kind, ino, up, hashed>>, Renamed(d, loc, err),
         NEW o, NoClash(o), o.d = d, o.loc = up[d], o.loc2 = loc, o.held = MoveHeld(d, loc),
         \A x \in o.held : lock[x] = NoTask
  PROVE  /\ d \notin UpperChild(loc) /\ loc # up[d] /\ UpperChild(loc) \subseteq Dents
         /\ \A x \in Dents : (f[x] = loc <=> x \in UpperChild(loc)) /\ (lo[x] = loc <=> x \in UpperChild(loc))
         /\ \A x \in Dents : x # d /\ x \notin UpperChild(loc) => Kept(x)
         /\ \/ /\ err = 0 /\ lo'[d] = loc
               /\ \A x \in UpperChild(loc) : lo'[x] = None /\ (kind[x] = "dir" => Childless(f, x))
            \/ /\ err = -1 /\ lo' = lo
               /\ \E x \in UpperChild(loc) : kind[x] = "dir" /\ ~Childless(f, x)
<1>1. loc # None /\ loc.par \in o.held BY Places DEF MoveHeld
<1>2. UpperChild(loc) \subseteq Dents /\ d \in Dents BY Trees DEF UpperChild
<1>3. d \notin UpperChild(loc) /\ loc # up[d] BY DEF MayRename, UpperChild
<1>4. ASSUME NEW x \in Dents PROVE (f[x] = loc <=> x \in UpperChild(loc)) /\ (lo[x] = loc <=> x \in UpperChild(loc))
  <2>1. lock[loc.par] = NoTask BY <1>1
  <2> QED BY <2>1, AtRest
<1>5. ASSUME NEW x \in UpperChild(loc), kind[x] = "dir" PROVE Childless(f, x) <=> LowerEmpty(x)
  <2>1. ino[x] = x BY <1>2, <1>5 DEF Good, NodeInv
  <2>2. x \in o.held BY <2>1 DEF MoveHeld
  <2> QED BY <2>2, EmptyAtRest
<1>6. LowerChild(loc) = UpperChild(loc) BY <1>2, <1>4 DEF LowerChild
<1>7. CASE err = 0
  <2>1. LowerRenames(d, loc) /\ lo' = [x \in Dents |-> IF x = d THEN loc ELSE IF lo[x] = loc THEN None ELSE lo[x]]
    BY <1>7 DEF Renamed
  <2>2. lo'[d] = loc /\ \A x \in UpperChild(loc) : lo'[x] = None BY <1>2, <1>3, <1>4, <2>1
  <2>3. \A x \in UpperChild(loc) : kind[x] = "dir" => Childless(f, x) BY <1>5, <1>6, <2>1 DEF LowerRenames
  <2>4. \A x \in Dents : x # d /\ x \notin UpperChild(loc) => Kept(x) BY <1>4, <2>1 DEF Kept
  <2> QED BY <1>2, <1>3, <1>4, <1>7, <2>2, <2>3, <2>4
<1>8. CASE err # 0
  <2>1. err = -1 /\ ~LowerRenames(d, loc) /\ lo' = lo BY <1>8 DEF Renamed
  <2>2. PICK x \in UpperChild(loc) : ~((kind[x] = "dir" <=> kind[d] = "dir") /\ (kind[x] = "dir" => LowerEmpty(x)))
    BY <1>6, <2>1 DEF LowerRenames
  <2>3. kind[x] = "dir" /\ ~LowerEmpty(x) BY <2>2 DEF MayRename
  <2>4. ~Childless(f, x) BY <1>5, <2>3
  <2>5. \A y \in Dents : Kept(y) BY <2>1 DEF Kept
  <2> QED BY <1>2, <1>3, <1>4, <2>1, <2>3, <2>4, <2>5
<1> QED BY <1>7, <1>8

\* rename begins.
LEMMA RenameBegins ==
  ASSUME KeptApart, AllOps, AllOps', NEW f, NEW dat, Good(f, dat), NEW t \in Tasks, Rename(t)
  PROVE  Good(f, dat)'
<1>1. PICK d \in hashed, loc \in Locs, err \in {0, -1} :
           /\ loc.par \in Dirs /\ MayRename(d, loc) /\ UNCHANGED <<kind, ino, up, hashed, data, fd>>
           /\ Renamed(d, loc, err) /\ Begin(t, "RENAME", d, up[d], loc, MoveHeld(d, loc), err, "log")
  BY RenameParts
<1> DEFINE p == up[d]
<1> DEFINE H == MoveHeld(d, loc)
<1> DEFINE U == UpperChild(loc)
<1> DEFINE o == NewOp("RENAME", d, p, loc, H, err)
<1>a. o = NewOp("RENAME", d, p, loc, H, err) OBVIOUS
<1> HIDE DEF o
<1>2. Began(t, o) /\ pc[t] = "idle" /\ pc'[t] = "log" /\ op'[t] = o
  <2>1. Isolated BY DEF KeptApart
  <2>2. Began(t, o) BY <1>1, <1>a, <2>1, BeginFacts
  <2> QED BY <2>2 DEF Began
<1>b. o.type = "RENAME" /\ o.d = d /\ o.loc = p /\ o.loc2 = loc /\ o.held = H /\ o.err = err BY <1>a DEF NewOp
<1>3. NoClash(o) /\ \A x \in o.held : lock[x] = NoTask BY <1>2 DEF NoClash, Began
<1>4. loc # None /\ p # None BY Places, Trees
<1>5. Touches(o) = {ino[d]} \cup {ino[x] : x \in U} /\ Through(o) = {p.par, loc.par}
  <2>1. Touches(o) = {ino[d]} \cup {ino[x] : x \in U} BY <1>b DEF Touches
  <2>2. Through(o) = {l.par : l \in {p, loc, p} \ {None}} BY <1>b DEF Through
  <2> QED BY <1>4, <2>1, <2>2
<1>6. /\ d \in Dents /\ d # Root /\ ino[d] \in Dents /\ p \in Locs /\ p # None
      /\ f[d] = p /\ lo[d] = p /\ kind[d] # "free" /\ Spots(d) = {p}
      /\ p.par \in Dents /\ kind[p.par] = "dir"
      /\ p.par = Root \/ (f[p.par] # None /\ up[p.par] = f[p.par] /\ f[p.par].par = Root)
  <2>1. ino[d] \in Touches(o) /\ p.par \in Through(o) BY <1>5
  <2> QED BY <1>3, <2>1, Found
<1>7. /\ loc.par \in Dents /\ kind[loc.par] = "dir"
      /\ loc.par = Root \/ (f[loc.par] # None /\ up[loc.par] = f[loc.par] /\ f[loc.par].par = Root)
  <2>1. loc.par \in Through(o) BY <1>5
  <2> QED BY <1>1, <1>3, <2>1, Reach
<1>8. /\ d \notin U /\ loc # p /\ U \subseteq Dents
      /\ \A x \in Dents : (f[x] = loc <=> x \in U) /\ (lo[x] = loc <=> x \in U)
      /\ \A x \in Dents : x # d /\ x \notin U => Kept(x)
      /\ \/ /\ err = 0 /\ lo'[d] = loc
            /\ \A x \in U : lo'[x] = None /\ (kind[x] = "dir" => Childless(f, x))
         \/ /\ err = -1 /\ lo' = lo
            /\ \E x \in U : kind[x] = "dir" /\ ~Childless(f, x)
  BY <1>1, <1>3, <1>b, RenameFacts
<1>9. p.par \in H /\ loc.par \in H /\ \A x \in U : ino[x] \in H BY DEF MoveHeld
<1>10. \A x \in U : x \in hashed /\ up[x] = loc BY DEF UpperChild
<1>11. /\ kind[d] = "dir" => loc.par = Root
       /\ \A x \in U : ~InUse(x) /\ ino[x] # ino[d] /\ (kind[x] = "dir" <=> kind[d] = "dir")
  BY <1>1 DEF MayRename
<1>12. UpperChild(loc)' = U /\ UpperChild(op[t].loc2)' = U BY <1>1, <1>2, <1>b DEF UpperChild
<1> HIDE DEF p
<1> HIDE DEF U
<1> HIDE DEF H
<1>13. Frame(o, f, f)
  <2> SUFFICES ASSUME NEW x \in Dents, ~Kept(x)
               PROVE  /\ ino[x] \in Touches(o) /\ kind'[x] = kind[x] /\ ino'[x] = ino[x]
                      /\ \A l \in Spots(x) \cup SpotsNext(x) \cup {f[x], f[x]} : l = None \/ l.par \in o.held
    BY DEF Frame
  <2>1. kind'[x] = kind[x] /\ ino'[x] = ino[x] BY <1>1
  <2>2. CASE x = d
    <3>1. SpotsNext(x) \subseteq {loc, p}
      <4>1. up'[x] = p BY <1>1, <2>2 DEF p
      <4>2. lo'[x] \in {loc, p} BY <1>6, <1>8, <2>2
      <4> QED BY <4>1, <4>2 DEF SpotsNext
    <3>2. ino[x] \in Touches(o) BY <1>5, <2>2
    <3> QED BY <1>6, <1>9, <1>b, <2>1, <2>2, <3>1, <3>2
  <2>3. CASE x \in U
    <3>1. lo[x] = loc /\ f[x] = loc /\ up[x] = loc /\ up'[x] = loc BY <1>1, <1>8, <1>10, <2>3
    <3>2. lo'[x] \in {None, loc} BY <1>8, <2>3, <3>1
    <3>3. Spots(x) \subseteq {loc} /\ SpotsNext(x) \subseteq {None, loc} BY <3>1, <3>2 DEF Spots, SpotsNext
    <3>4. ino[x] \in Touches(o) BY <1>5, <2>3
    <3> QED BY <1>9, <1>b, <2>1, <3>1, <3>3, <3>4
  <2> QED BY <1>8, <2>2, <2>3
<1>14. Touches(op[t])' = Touches(o) /\ Through(op[t])' = Through(o) /\ About(op[t])' = {d} \cup U
  <2>1. Touches(op[t])' = {ino[d]} \cup {ino[x] : x \in U} BY <1>1, <1>2, <1>b, <1>12 DEF Touches
  <2>2. Through(op[t])' = Through(o) BY <1>1, <1>2, <1>b DEF Through
  <2>3. About(op[t])' = {d} \cup U BY <1>2, <1>b, <1>12 DEF About
  <2> QED BY <1>5, <2>1, <2>2, <2>3
<1>15. Pending(t, f, dat)'
  <2>1. Ways(op[t], f)' BY <1>1, <1>5, <1>6, <1>7, <1>14 DEF Ways
  <2>2. /\ op'[t].type = "RENAME" /\ op'[t].loc = p /\ op'[t].loc2 = loc /\ op'[t].held = H /\ op'[t].err = err
        /\ op'[t].d = d
    BY <1>2, <1>b
  <2>3. f[d] = p /\ up'[d] = p /\ (kind'[d] = "dir" => loc.par = Root) BY <1>1, <1>6, <1>11 DEF p
  <2>4. \A x \in U : (kind'[x] = "dir" <=> kind'[d] = "dir") /\ ino'[x] # ino'[d] /\ ino'[x] \in H
    BY <1>1, <1>9, <1>11
  <2>5. \/ /\ err = 0 /\ lo'[d] = loc
           /\ \A x \in U : lo'[x] = None /\ (kind'[x] = "dir" => Childless(f, x))
        \/ /\ err = -1 /\ lo'[d] = p
           /\ \A x \in U : lo'[x] = loc
           /\ \E x \in U : kind'[x] = "dir" /\ ~Childless(f, x)
    <3>1. CASE err = 0 BY <1>1, <1>8, <3>1
    <3>2. CASE err = -1 BY <1>1, <1>6, <1>8, <3>2
    <3> QED BY <1>8, <3>1, <3>2
  <2>6. \A x \in Dents : f[x] = loc <=> x \in U BY <1>8
  <2>7. RenamePending(op[t], f)'
    BY <1>4, <1>8, <1>12, <2>2, <2>3, <2>4, <2>5, <2>6 DEF RenamePending, Childless
  <2> QED BY <2>1, <2>7 DEF Pending
<1>16. Running(t)'
  <2>1. "RENAME" \in RecTypes BY DEF RecTypes
  <2>2. Moving(t)' => \A x \in U : lo'[x] = None BY <1>2, <1>b, <1>8 DEF Moving
  <2>3. kind'[d] # "free" BY <1>1, <1>6
  <2> QED BY <1>2, <1>b, <1>9, <1>12, <2>1, <2>2, <2>3 DEF Running
<1>17. NewlyDiffer(t, f, dat) BY <1>1, <1>8, <1>14 DEF NewlyDiffer, Kept
<1>18. NodeInv'
  <2>1. NodeInv BY DEF Good
  <2>2. \A x \in Dents : lo'[x] # None => x \in hashed'
    <3>1. \A x \in {d} \cup U : x \in hashed' BY <1>1, <1>10
    <3>2. \A x \in Dents : x # d /\ x \notin U /\ lo'[x] # None => x \in hashed' BY <1>8, <2>1 DEF NodeInv, Kept
    <3> QED BY <3>1, <3>2
  <2> QED BY <1>1, <2>1, <2>2 DEF NodeInv
<1>19. OpenInv'
  <2>1. \A u \in Tasks : fd[u] # None => fd[u].d \in Dents BY OpenPlace DEF AllOps
  <2>2. \A u \in Tasks : fd[u] # None => lo'[fd[u].d] # None
    <3> SUFFICES ASSUME NEW u \in Tasks, fd[u] # None PROVE lo'[fd[u].d] # None OBVIOUS
    <3>1. lo[fd[u].d] # None BY DEF Good, OpenInv
    <3>2. fd[u].d \notin U BY <1>11 DEF InUse
    <3>3. CASE fd[u].d # d BY <1>8, <2>1, <3>1, <3>2, <3>3 DEF Kept
    <3>4. CASE fd[u].d = d BY <1>4, <1>8, <3>1, <3>4
    <3> QED BY <3>3, <3>4
  <2> QED BY <1>1, <2>2 DEF Good, OpenInv
<1>20. DataFrame(o, dat, dat) BY <1>1 DEF DataFrame
<1>21. Touches(op[t])' \subseteq Touches(o) /\ Through(op[t])' \subseteq Through(o) BY <1>14
<1>22. \A u \in Tasks : u # t => fd'[u] = fd[u] BY <1>1
<1> QED BY <1>2, <1>13, <1>15, <1>16, <1>17, <1>18, <1>19, <1>20, <1>21, <1>22, BeginGood

\* write begins.
LEMMA WriteBegins ==
  ASSUME KeptApart, AllOps, AllOps', NEW f, NEW dat, Good(f, dat), NEW t \in Tasks, Write(t)
  PROVE  Good(f, dat)'
<1> DEFINE d == fd[t].d
<1> DEFINE i == ino[d]
<1> DEFINE o == NewOp("FWRITE", d, None, None, {}, 0)
<1>0. Isolated /\ ~LowerErrors BY DEF KeptApart
<1>1. fd[t] # None /\ fd[t].append /\ lo[d] # None /\ kind[d] = "file" /\ d \in Dents /\ i \in Dents
  <2>1. fd[t] # None BY DEF Write, LowerWrite
  <2>2. d \in Dents BY <2>1, OpenPlace DEF AllOps
  <2>3. i \in Dents BY <2>2, Trees
  <2> QED BY <2>1, <2>2, <2>3 DEF Good, OpenInv
<1>2. /\ Begin(t, "FWRITE", d, None, None, {}, 0, "log")
      /\ data' = [data EXCEPT ![i] = Put(@, Len(data[i]), nops + 1)]
      /\ fd' = [fd EXCEPT ![t].pos = Len(data[i]) + 1]
      /\ UNCHANGED <<kind, ino, lo, up, hashed>>
  BY <1>0, <1>1 DEF Write, LowerWrite
<1>a. o = NewOp("FWRITE", d, None, None, {}, 0) OBVIOUS
<1> HIDE DEF o
<1>3. Began(t, o) /\ pc[t] = "idle" /\ pc'[t] = "log" /\ op'[t] = o
  <2>1. Began(t, o) BY <1>0, <1>2, <1>a, BeginFacts
  <2> QED BY <2>1 DEF Began
<1>b. o.type = "FWRITE" /\ o.d = d /\ o.loc = None /\ o.loc2 = None /\ o.held = {} /\ o.err = 0 /\ o.seq = nops + 1
  BY <1>a DEF NewOp
<1>4. NoClash(o) BY <1>3 DEF NoClash, Began
<1>5. d \in hashed /\ up[d] # None BY <1>1, Trees DEF Good, NodeInv
<1>6. UpperChild(None) = {} BY Trees
<1>7. Touches(o) = {i} /\ Through(o) = {up[d].par}
  <2>1. Touches(o) = {i} BY <1>6, <1>b DEF Touches
  <2>2. Through(o) = {l.par : l \in {None, None, up[d]} \ {None}} BY <1>b DEF Through
  <2> QED BY <1>5, <2>1, <2>2
<1>8. /\ f[d] = up[d] /\ lo[d] = up[d] /\ kind[up[d].par] = "dir"
      /\ \/ up[d].par = Root
         \/ f[up[d].par] # None /\ up[up[d].par] = f[up[d].par] /\ f[up[d].par].par = Root
  BY <1>4, <1>5, <1>7, Found
<1>9. data[i] = dat[i] BY <1>1, <1>4, <1>7, SameData
<1>10. data'[i] = Append(dat[i], nops + 1) /\ \A j \in Dents : j # i => data'[j] = data[j]
  <2>1. Put(data[i], Len(data[i]), nops + 1) = Append(data[i], nops + 1)
    <3>1. data[i] \in Seq(1 .. MaxOps) BY <1>1, Trees
    <3> QED BY <3>1, PutAtEnd
  <2>2. data \in [Dents -> Seq(1 .. MaxOps)] BY DEF AllOps, TreeInv, TreeType
  <2> QED BY <1>1, <1>2, <1>9, <2>1, <2>2
<1>11. /\ fd'[t].d = d /\ fd'[t].append = fd[t].append /\ fd'[t] # None
       /\ \A u \in Tasks : u # t => fd'[u] = fd[u]
  <2>1. fd \in [Tasks -> [d : Dents, pos : Nat, append : BOOLEAN] \cup {None}] BY DEF AllOps, TreeInv, TreeType
  <2>2. fd[t] \in [d : Dents, pos : Nat, append : BOOLEAN] BY <1>1, <2>1
  <2>3. fd' = [fd EXCEPT ![t] = [fd[t] EXCEPT !.pos = Len(data[i]) + 1]] BY <1>2
  <2>4. Len(data[i]) + 1 \in Nat
    <3>1. data[i] \in Seq(1 .. MaxOps) BY <1>1, Trees
    <3> QED BY <3>1
  <2> DEFINE r == [fd[t] EXCEPT !.pos = Len(data[i]) + 1]
  <2>5. r \in [d : Dents, pos : Nat, append : BOOLEAN] /\ r.d = d /\ r.append = fd[t].append BY <2>2, <2>4
  <2>6. r # None BY <2>5, NoneAssumption
  <2>7. fd'[t] = r /\ \A u \in Tasks : u # t => fd'[u] = fd[u] BY <2>1, <2>3
  <2> QED BY <2>5, <2>6, <2>7
<1> HIDE DEF i
<1> HIDE DEF d
<1>12. Touches(op[t])' = Touches(o) /\ Through(op[t])' = Through(o)
  BY <1>2, <1>3 DEF Touches, Through, UpperChild
<1>13. Pending(t, f, dat)'
  <2>1. Ways(op[t], f)' BY <1>2, <1>7, <1>8, <1>12 DEF Ways
  <2>2. ino'[d] = i /\ kind'[d] = "file" /\ lo'[d] = f[d] /\ up'[d] = f[d] /\ f[d] # None BY <1>1, <1>2, <1>5, <1>8 DEF i
  <2>3. WritePending(t, op[t], f, dat)' BY <1>1, <1>3, <1>b, <1>10, <1>11, <2>2 DEF WritePending
  <2> QED BY <2>1, <2>3 DEF Pending
<1>14. Running(t)'
  <2>1. "FWRITE" \in RecTypes BY DEF RecTypes
  <2> QED BY <1>1, <1>2, <1>3, <1>b, <2>1 DEF Running, Moving
<1>15. NewlyDiffer(t, f, dat)
  <2>1. op'[t].type = "FWRITE" /\ ino'[op'[t].d] = i BY <1>2, <1>3, <1>b DEF i
  <2> QED BY <1>2, <1>10, <2>1 DEF NewlyDiffer
<1>16. NodeInv'
  <2>1. NodeInv BY DEF Good
  <2>2. kind[i] # "free"
    <3>1. ino[d] = i BY DEF i
    <3> QED BY <1>1, <2>1, <3>1 DEF NodeInv
  <2>3. \A x \in Dents : kind'[x] = "free" => data'[x] = <<>> BY <1>2, <1>10, <2>1, <2>2 DEF NodeInv
  <2> QED BY <1>2, <2>1, <2>3 DEF NodeInv
<1>17. OpenInv'
  <2> SUFFICES ASSUME NEW u \in Tasks, fd'[u] # None
               PROVE  lo'[fd'[u].d] # None /\ kind'[fd'[u].d] = "file" /\ fd'[u].append
    BY DEF OpenInv
  <2>1. CASE u = t BY <1>1, <1>2, <1>11, <2>1
  <2>2. CASE u # t BY <1>2, <1>11, <2>2 DEF Good, OpenInv
  <2> QED BY <2>1, <2>2
<1>18. DataFrame(o, dat, dat) BY <1>7, <1>10 DEF DataFrame
<1>19. Frame(o, f, f) BY <1>2 DEF Frame, Kept
<1>20. Touches(op[t])' \subseteq Touches(o) /\ Through(op[t])' \subseteq Through(o) BY <1>12
<1> QED BY <1>3, <1>11, <1>13, <1>14, <1>15, <1>16, <1>17, <1>18, <1>19, <1>20, BeginGood

\* A step that changes no tree and no operation, and no open file of a task that
\* runs one.
LEMMA OpenOnly ==
  ASSUME AllOps, NEW f, NEW dat, Good(f, dat), UNCHANGED <<kind, ino, lo, up, hashed, data, lock, pc, op, log, nops>>,
         \A u \in Tasks : pc[u] # "idle" => fd'[u] = fd[u], OpenInv'
  PROVE  Good(f, dat)'
<1>1. PendingInv(f, dat)'
  <2> SUFFICES ASSUME NEW u \in Tasks, pc[u] = "log" PROVE Pending(u, f, dat)' BY DEF PendingInv
  <2>1. Pending(u, f, dat) /\ fd'[u] = fd[u] BY DEF Good, PendingInv
  <2>2. Ways(op[u], f)' BY <2>1 DEF Pending, Ways, Through
  <2>3. CASE MakePending(op[u], f, dat) BY <2>2, <2>3 DEF MakePending, Pending
  <2>4. CASE RemovePending(op[u], f) BY <2>2, <2>4 DEF RemovePending, Pending, Childless
  <2>5. CASE LinkPending(op[u], f) BY <2>2, <2>5 DEF LinkPending, Pending, UpperChild
  <2>6. CASE RenamePending(op[u], f)
    <3>1. RenamePending(op[u], f)' BY <2>6 DEF RenamePending, Childless, UpperChild
    <3> QED BY <2>2, <3>1 DEF Pending
  <2>7. CASE WritePending(u, op[u], f, dat) BY <2>1, <2>2, <2>7 DEF WritePending, Pending
  <2> QED BY <2>1, <2>3, <2>4, <2>5, <2>6, <2>7 DEF Pending
<1>2. DifferInv(f, dat)' BY DEF Good, DifferInv, About, UpperChild
<1>3. Replayed' = Replayed BY DEF Replayed
<1>4. FreshInv' BY <1>3 DEF Good, FreshInv
<1>5. \A u, v \in Tasks : Clash(op[u], op[v])' <=> Clash(op[u], op[v]) BY DEF Clash, Touches, Through, UpperChild
<1>6. ApartInv' BY <1>5 DEF Good, ApartInv
<1>7. NodeInv' BY DEF Good, NodeInv
<1>8. RunInv'
  <2>1. \A u \in Tasks : Running(u)' <=> Running(u) BY DEF Running, Moving, UpperChild
  <2> QED BY <2>1 DEF Good, RunInv
<1>9. WellFormed(f)' /\ \E fs : fs = Replayed' /\ Shows(fs, f, dat)'
  <2>1. PICK fs : fs = Replayed /\ Shows(fs, f, dat) BY DEF Good
  <2>2. WellFormed(f)' /\ Shows(fs, f, dat)' BY <2>1, SameShown DEF Good
  <2> QED BY <1>3, <2>1, <2>2
<1>10. (\E fs : fs = Replayed /\ Shows(fs, f, dat))' BY <1>9
<1>11. dat \in [Dents -> Seq(1 .. MaxOps)] /\ \A x \in Dents : f[x] # None => kind'[x] # "free" BY DEF Good
<1> QED BY <1>1, <1>2, <1>4, <1>6, <1>7, <1>8, <1>9, <1>10, <1>11 DEF Good

\* open and close change no tree and no operation.
LEMMA OpenCloseGood ==
  ASSUME KeptApart, AllOps, NEW f, NEW dat, Good(f, dat), NEW t \in Tasks, Open(t) \/ Close(t)
  PROVE  Good(f, dat)'
<1>1. /\ pc[t] = "idle" /\ UNCHANGED <<kind, ino, lo, up, hashed, data, lock, pc, op, log, nops>>
      /\ \A u \in Tasks : u # t => fd'[u] = fd[u]
  BY DEF Open, Close, trees, AllOps, TreeInv, TreeType
<1>2. OpenInv'
  <2> SUFFICES ASSUME NEW u \in Tasks, fd'[u] # None
               PROVE  lo[fd'[u].d] # None /\ kind[fd'[u].d] = "file" /\ fd'[u].append
    BY <1>1 DEF OpenInv
  <2>1. CASE u # t BY <1>1, <2>1 DEF Good, OpenInv
  <2>2. CASE u = t
    <3>0. fd \in [Tasks -> [d : Dents, pos : Nat, append : BOOLEAN] \cup {None}] BY DEF AllOps, TreeInv, TreeType
    <3>1. ~Close(t) BY <2>2, <3>0 DEF Close
    <3>2. PICK d \in hashed, a \in AppendModes :
            /\ kind[d] = "file"
            /\ Isolated => \A v \in Tasks : pc[v] # "idle" => ino[d] \notin Touches(op[v])
            /\ fd' = [fd EXCEPT ![t] = [d |-> d, pos |-> 0, append |-> a]]
      BY <3>1 DEF Open
    <3>3. fd'[t].d = d /\ fd'[t].append = a /\ a = TRUE BY <3>0, <3>2 DEF KeptApart
    <3>4. d \in Dents /\ up[d] # None BY Trees
    <3>5. Settled(d, f) BY <3>2, <3>4, Untouched DEF KeptApart
    <3> QED BY <2>2, <3>2, <3>3, <3>4, <3>5 DEF Settled
  <2> QED BY <2>1, <2>2
<1>3. \A u \in Tasks : pc[u] # "idle" => fd'[u] = fd[u] BY <1>1
<1> QED BY <1>1, <1>2, <1>3, OpenOnly

-----------------------------------------------------------------------------
(* Operations are logged and return.                                        *)

\* A task that runs an operation keeps apart from the others while it steps.
LEMMA StepApart ==
  ASSUME AllOps, NEW f, NEW dat, Good(f, dat), NEW t \in Tasks, pc[t] # "idle",
         \A u \in Tasks : u # t => op'[u] = op[u] /\ pc'[u] = pc[u] /\ fd'[u] = fd[u]
  PROVE  OthersStay(t, op[t])
<1>1. ASSUME NEW u \in Tasks, u # t, pc[u] # "idle" PROVE ~Clash(op[u], op[t]) /\ op[u].held \cap op[t].held = {}
  <2>1. ~Clash(op[u], op[t]) BY <1>1 DEF Good, ApartInv
  <2>2. \A x \in op[u].held : lock[x] = u BY <1>1, UnderWay
  <2>3. \A x \in op[t].held : lock[x] = t BY UnderWay
  <2> QED BY <1>1, <2>1, <2>2, <2>3
<1> QED BY <1>1 DEF OthersStay

\* The trees after an operation returned.
LEMMA ReturnTrees ==
  ASSUME AllOps, NEW f, NEW dat, Good(f, dat), NEW t \in Tasks, Return(t)
  PROVE  /\ UNCHANGED <<kind, ino, lo, data, fd, log, nops>> /\ pc[t] = "ret" /\ pc'[t] = "idle"
         /\ \A u \in Tasks : u # t => op'[u] = op[u] /\ pc'[u] = pc[u] /\ fd'[u] = fd[u]
         /\ \/ up' = up /\ hashed' = hashed
            \/ /\ Moving(t) /\ up' = [up EXCEPT ![op[t].d] = op[t].loc2]
               /\ hashed' = hashed \ UpperChild(op[t].loc2)
  BY DEF Return, Moving, AllOps, TreeInv, ControlType

\* An operation that was logged returns.
LEMMA ReturnGood ==
  ASSUME AllOps, AllOps', NEW f, NEW dat, Good(f, dat), NEW t \in Tasks, Return(t)
  PROVE  Good(f, dat)'
<1> DEFINE U == UpperChild(op[t].loc2)
<1>1. /\ UNCHANGED <<kind, ino, lo, data, fd, log, nops>> /\ pc[t] = "ret" /\ pc'[t] = "idle"
      /\ \A u \in Tasks : u # t => op'[u] = op[u] /\ pc'[u] = pc[u] /\ fd'[u] = fd[u]
      /\ \/ up' = up /\ hashed' = hashed
         \/ Moving(t) /\ up' = [up EXCEPT ![op[t].d] = op[t].loc2] /\ hashed' = hashed \ U
  BY ReturnTrees
<1>2. OthersStay(t, op[t]) BY <1>1, StepApart
<1>3. op[t].d \in Dents /\ U \subseteq Dents BY UnderWay, Trees DEF UpperChild
<1>4. up \in [Dents -> Locs \cup {None}] BY DEF AllOps, TreeInv, TreeType
<1>5. Frame(op[t], f, f)
  <2> SUFFICES ASSUME NEW x \in Dents, ~Kept(x)
               PROVE  /\ ino[x] \in Touches(op[t]) /\ kind'[x] = kind[x] /\ ino'[x] = ino[x]
                      /\ \A l \in Spots(x) \cup SpotsNext(x) \cup {f[x], f[x]} : l = None \/ l.par \in op[t].held
    BY DEF Frame
  <2>1. /\ Moving(t) /\ up' = [up EXCEPT ![op[t].d] = op[t].loc2] /\ hashed' = hashed \ U
    BY <1>1 DEF Kept
  <2>2. x \in About(op[t]) BY <1>1, <1>3, <1>4, <2>1 DEF Kept, About
  <2>3. ino[x] \in Touches(op[t]) BY <2>2, AboutTouches
  <2>4. InHeld(x, f, op[t].held) BY <2>1, <2>2, MovingHolds
  <2>5. op[t].loc2.par \in op[t].held BY <2>1, MovingFacts
  <2>6. SpotsNext(x) \subseteq Spots(x) \cup {op[t].loc2} BY <1>1, <1>3, <1>4, <2>1 DEF Spots, SpotsNext
  <2> QED BY <1>1, <2>3, <2>4, <2>5, <2>6 DEF InHeld
<1>6. PICK fs : fs = Replayed /\ Shows(fs, f, dat) BY DEF Good
<1>7. Replayed' = Replayed BY <1>1 DEF Replayed
<1>8. WellFormed(f)' /\ Shows(fs, f, dat)' BY <1>1, <1>6, SameShown DEF Good
<1>9. \E gs : gs = Replayed' /\ Shows(gs, f, dat)' BY <1>6, <1>7, <1>8
<1>10. (\A x \in Dents : f[x] # None => kind'[x] # "free") /\ dat \in [Dents -> Seq(1 .. MaxOps)] BY <1>1 DEF Good
<1>11. StillDiffer(t, f, dat, f, dat) BY <1>1 DEF StillDiffer
<1>12. StaysApart(t, op[t]) BY <1>1 DEF StaysApart
<1>13. FreshInv' BY <1>1, <1>7 DEF Good, FreshInv
<1>14. NodeInv'
  <2>1. NodeInv BY DEF Good
  <2>2. Moving(t) => \A x \in U : lo[x] = None BY <1>1 DEF Good, RunInv, Running
  <2>3. \A x \in Dents : lo[x] # None => x \in hashed' BY <1>1, <2>1, <2>2 DEF NodeInv
  <2> QED BY <1>1, <2>1, <2>3 DEF NodeInv
<1>15. OpenInv' BY <1>1 DEF Good, OpenInv
<1>16. DataFrame(op[t], dat, dat) BY <1>1 DEF DataFrame
<1>17. pc'[t] # "log" /\ pc'[t] = "idle" BY <1>1
<1> QED BY <1>2, <1>5, <1>8, <1>9, <1>10, <1>11, <1>12, <1>13, <1>14, <1>15, <1>16, <1>17, StepGood

\* Task t logs operation o as record r, when the replay of what was logged has
\* given fs.
Logging(t, o, f, dat, fs, r) ==
  /\ o = op[t] /\ pc[t] = "log" /\ Ways(o, f) /\ fs = Replayed /\ Shows(fs, f, dat)
  /\ r.type = o.type /\ r.seq = o.seq
  /\ r.path = PathIn(f, IF o.type \in {"FWRITE", "LINK", "RENAME"} THEN up[o.d] ELSE o.loc)
  /\ o.loc2 # None => r.aux = PathIn(f, o.loc2)
  /\ o.type = "FWRITE" => r.append = fd[t].append

\* The replay of that record gives gs, which shows tree g with contents e: what
\* o is about is now as in the lower tree, and nothing else changed.
Made(o, f, dat, fs, g, e, gs) ==
  /\ WellFormed(g) /\ Shows(gs, g, e) /\ e \in [Dents -> Seq(1 .. MaxOps)]
  /\ DOMAIN gs.inode \subseteq DOMAIN fs.inode \cup {o.seq}
  /\ \A x \in Dents : IF x \in About(o) THEN g[x] = lo[x] ELSE g[x] = f[x]
  /\ \A i \in Dents : IF o.type = "FWRITE" /\ ino[o.d] = i THEN e[i] = data[i] ELSE e[i] = dat[i]

\* The directories of an operation's places are in f.
LEMMA WaysHome ==
  ASSUME NEW o, NEW f, Ways(o, f), NEW l \in Locs, l \in {o.loc, o.loc2, up[o.d]}
  PROVE  Home(f, l) /\ PathOf(l) = PathIn(f, l)
<1>1. l.par \in Through(o) BY Places DEF Through
<1> QED BY <1>1 DEF Ways, Home, PathOf, PathIn

\* A create, mkdir or symlink is logged.
LEMMA MakeLogged ==
  ASSUME AllOps, NEW f, NEW dat, Good(f, dat), NEW t \in Tasks, NEW o, NEW fs, NEW r, Logging(t, o, f, dat, fs, r),
         MakePending(o, f, dat), NEW g, g = Placing(f, o.d, o.loc)
  PROVE  Made(o, f, dat, fs, g, dat, ReplayRecord(fs, r))
<1>1. o.d \in Dents /\ o.loc \in Locs BY UnderWay DEF Logging, MakePending
<1>2. o.d # Root
  <2>1. kind[o.d] # "dir" \/ o.type = "DCREAT" BY DEF MakePending
  <2>2. lo[Root] = None BY RootAssumption, Trees DEF Good, NodeInv
  <2> QED BY <2>2 DEF MakePending
<1>3. Home(f, o.loc) BY <1>1, WaysHome DEF Logging
<1>4. kind[o.d] = "dir" => o.loc.par = Root BY DEF MakePending
<1>5. Fits(f, o.d, o.loc) BY <1>1, <1>2, <1>3, <1>4 DEF Fits, MakePending
<1>6. (\A x \in Live(f) : ino[x] # ino[o.d]) /\ dat[ino[o.d]] = <<>> BY DEF MakePending, Live
<1>7. o.seq \notin DOMAIN fs.inode BY DEF Logging, Good, FreshInv
<1>8. ReplayRecord(fs, r) = MakeEntry(fs, PathIn(f, o.loc), o.seq, kind[o.d])
  <2>1. r.path = PathIn(f, o.loc) /\ r.seq = o.seq /\ r.type = o.type BY DEF Logging, MakePending
  <2>2. CASE o.type = "FCREAT" BY <2>1, <2>2 DEF ReplayRecord, MakePending
  <2>3. CASE o.type = "DCREAT" BY <2>1, <2>3 DEF ReplayRecord, MakePending
  <2>4. CASE o.type = "SYMLINK" BY <2>1, <2>4 DEF ReplayRecord, MakePending
  <2> QED BY <2>2, <2>3, <2>4 DEF MakePending
<1> DEFINE gs == ReplayRecord(fs, r)
<1>9. WellFormed(f) /\ Shows(fs, f, dat) BY DEF Good, Logging
<1>10. WellFormed(g) /\ Shows(gs, g, dat) /\ DOMAIN gs.inode = DOMAIN fs.inode \cup {o.seq}
  BY <1>5, <1>6, <1>7, <1>8, <1>9, MakeShown
<1>11. About(o) = {o.d} BY Trees DEF About, MakePending
<1>12. g[o.d] = lo[o.d] /\ \A x \in Dents : x # o.d => g[x] = f[x] BY <1>1, <1>9 DEF Placing, WellFormed, MakePending
<1>13. o.type # "FWRITE" /\ dat \in [Dents -> Seq(1 .. MaxOps)] BY DEF MakePending, Good
<1> QED BY <1>10, <1>11, <1>12, <1>13 DEF Made

\* An unlink or rmdir is logged.
LEMMA RemoveLogged ==
  ASSUME AllOps, NEW f, NEW dat, Good(f, dat), NEW t \in Tasks, NEW o, NEW fs, NEW r, Logging(t, o, f, dat, fs, r),
         RemovePending(o, f)
  PROVE  \E g : Made(o, f, dat, fs, g, dat, ReplayRecord(fs, r))
<1>1. o.d \in Live(f) /\ o.d \in Dents BY UnderWay DEF Logging, RemovePending, Live
<1>2. WellFormed(f) /\ Shows(fs, f, dat) BY DEF Good, Logging
<1> DEFINE gs == ReplayRecord(fs, r)
<1>3. gs = RemoveEntry(fs, PathIn(f, f[o.d]))
  <2>1. r.path = PathIn(f, f[o.d]) /\ r.type = "UNLINK" BY DEF Logging, RemovePending
  <2> QED BY <2>1 DEF ReplayRecord
<1>4. About(o) = {o.d} BY Trees DEF About, RemovePending
<1>5. o.type # "FWRITE" /\ dat \in [Dents -> Seq(1 .. MaxOps)] BY DEF RemovePending, Good
<1> HIDE DEF gs
<1> SUFFICES \E g : Made(o, f, dat, fs, g, dat, gs) BY DEF gs
<1>6. CASE o.err = 0
  <2>1. lo[o.d] = None /\ (kind[o.d] = "dir" => Childless(f, o.d)) BY <1>6 DEF RemovePending
  <2>2. Childless(f, o.d)
    <3>1. CASE kind[o.d] = "dir" BY <2>1, <3>1
    <3>2. CASE kind[o.d] # "dir"
      <4>1. o.d # Root BY <1>2, RootAssumption DEF RemovePending, WellFormed
      <4>2. \A c \in Dents : f[c] # None => Home(f, f[c]) BY <1>2 DEF WellFormed
      <4> QED BY <3>2, <4>1, <4>2 DEF Childless, Home
    <3> QED BY <3>1, <3>2
  <2> DEFINE g == Placing(f, o.d, None)
  <2>3. WellFormed(g) /\ Shows(gs, g, dat) /\ gs.inode = fs.inode BY <1>1, <1>2, <1>3, <2>2, RemoveShown
  <2>4. g[o.d] = lo[o.d] /\ \A x \in Dents : x # o.d => g[x] = f[x] BY <1>1, <1>2, <2>1 DEF Placing, WellFormed
  <2> HIDE DEF g
  <2>5. Made(o, f, dat, fs, g, dat, gs) BY <1>4, <1>5, <2>3, <2>4 DEF Made
  <2> QED BY <2>5
<1>7. CASE o.err # 0
  <2>1. lo[o.d] = f[o.d] /\ ~Childless(f, o.d) BY <1>7 DEF RemovePending
  <2>2. gs = fs BY <1>1, <1>2, <1>3, <2>1, RemoveRefused
  <2>3. Made(o, f, dat, fs, f, dat, gs) BY <1>2, <1>4, <1>5, <2>1, <2>2 DEF Made
  <2> QED BY <2>3
<1> QED BY <1>6, <1>7

\* A link is logged.
LEMMA LinkLogged ==
  ASSUME AllOps, NEW f, NEW dat, Good(f, dat), NEW t \in Tasks, NEW o, NEW fs, NEW r, Logging(t, o, f, dat, fs, r),
         LinkPending(o, f)
  PROVE  \E g : Made(o, f, dat, fs, g, dat, ReplayRecord(fs, r))
<1>1. o.d \in Live(f) /\ o.d \in Dents /\ o.loc2 \in Locs BY UnderWay DEF Logging, LinkPending, Live
<1>2. WellFormed(f) /\ Shows(fs, f, dat) BY DEF Good, Logging
<1> DEFINE gs == ReplayRecord(fs, r)
<1>3. gs = LinkEntry(fs, PathIn(f, f[o.d]), PathIn(f, o.loc2))
  <2>1. r.path = PathIn(f, f[o.d]) /\ r.aux = PathIn(f, o.loc2) /\ r.type = "LINK" BY DEF Logging, LinkPending
  <2> QED BY <2>1 DEF ReplayRecord
<1>4. PICK e \in Dents : /\ UpperChild(o.loc2) = {e} /\ f[e] = None /\ lo[e] = o.loc2
                         /\ ino[e] = ino[o.d] /\ kind[e] = kind[o.d]
  BY DEF LinkPending
<1>5. About(o) = {o.d, e} /\ lo[o.d] = f[o.d] /\ o.d # e BY <1>1, <1>4 DEF About, LinkPending, Live
<1>6. o.type # "FWRITE" /\ dat \in [Dents -> Seq(1 .. MaxOps)] BY DEF LinkPending, Good
<1>7. Home(f, o.loc2) BY <1>1, WaysHome DEF Logging
<1>8. kind[o.d] # "dir" /\ \A x \in Dents : f[x] # o.loc2 BY DEF LinkPending
<1>9. e # Root BY <1>4, <1>8, Trees
<1>10. Fits(f, e, o.loc2) BY <1>1, <1>4, <1>7, <1>8, <1>9 DEF Fits
<1> HIDE DEF gs
<1> DEFINE g == Placing(f, e, o.loc2)
<1>11. WellFormed(g) /\ Shows(gs, g, dat) /\ gs.inode = fs.inode BY <1>1, <1>2, <1>3, <1>4, <1>8, <1>10, LinkShown
<1>12. g[e] = lo[e] /\ \A x \in Dents : x # e => g[x] = f[x] BY <1>2, <1>4 DEF Placing, WellFormed
<1> HIDE DEF g
<1>13. Made(o, f, dat, fs, g, dat, gs) BY <1>5, <1>6, <1>11, <1>12 DEF Made
<1> QED BY <1>13 DEF gs

\* A rename is logged.
LEMMA RenameLogged ==
  ASSUME AllOps, NEW f, NEW dat, Good(f, dat), NEW t \in Tasks, NEW o, NEW fs, NEW r, Logging(t, o, f, dat, fs, r),
         RenamePending(o, f)
  PROVE  \E g : Made(o, f, dat, fs, g, dat, ReplayRecord(fs, r))
<1>1. o.d \in Live(f) /\ o.d \in Dents /\ o.loc2 \in Locs BY UnderWay DEF Logging, RenamePending, Live
<1>2. WellFormed(f) /\ Shows(fs, f, dat) BY DEF Good, Logging
<1> DEFINE gs == ReplayRecord(fs, r)
<1> DEFINE U == UpperChild(o.loc2)
<1>3. gs = RenameEntry(fs, PathIn(f, f[o.d]), PathIn(f, o.loc2))
  <2>1. r.path = PathIn(f, f[o.d]) /\ r.aux = PathIn(f, o.loc2) /\ r.type = "RENAME" BY DEF Logging, RenamePending
  <2> QED BY <2>1 DEF ReplayRecord
<1>4. About(o) = {o.d} \cup U /\ U \subseteq Dents BY Trees DEF About, UpperChild
<1>5. o.type # "FWRITE" /\ dat \in [Dents -> Seq(1 .. MaxOps)] BY DEF RenamePending, Good
<1>6. Home(f, o.loc2) BY <1>1, WaysHome DEF Logging
<1>7. /\ f[o.d] # o.loc2 /\ (kind[o.d] = "dir" => o.loc2.par = Root) /\ \A x \in Dents : f[x] = o.loc2 <=> x \in U
      /\ \A x \in U : (kind[x] = "dir" <=> kind[o.d] = "dir") /\ ino[x] # ino[o.d]
  BY DEF RenamePending
<1> HIDE DEF gs
<1> SUFFICES \E g : Made(o, f, dat, fs, g, dat, gs) BY DEF gs
<1>8. CASE o.err = 0
  <2>1. lo[o.d] = o.loc2 /\ \A x \in U : lo[x] = None /\ (kind[x] = "dir" => Childless(f, x)) BY <1>8 DEF RenamePending
  <2>2. ASSUME NEW x \in U PROVE Childless(f, x)
    <3>1. CASE kind[x] = "dir" BY <2>1, <3>1
    <3>2. CASE kind[x] # "dir"
      <4>1. x # Root BY <1>4, Trees DEF UpperChild
      <4>2. \A c \in Dents : f[c] # None => Home(f, f[c]) BY <1>2 DEF WellFormed
      <4> QED BY <3>2, <4>1, <4>2 DEF Childless, Home
    <3> QED BY <3>1, <3>2
  <2>3. CanMove(f, o.d, o.loc2) BY <1>1, <1>6, <1>7, <2>2 DEF CanMove, Live
  <2> DEFINE g == Renaming(f, o.d, o.loc2)
  <2>4. WellFormed(g) /\ Shows(gs, g, dat) /\ gs.inode = fs.inode BY <1>2, <1>3, <2>3, RenameShown
  <2>5. g[o.d] = o.loc2 /\ \A x \in Dents : x # o.d => g[x] = IF f[x] = o.loc2 THEN None ELSE f[x]
    BY <1>1 DEF Renaming
  <2> HIDE DEF g
  <2> HIDE DEF U
  <2>6. \A x \in Dents : IF x \in About(o) THEN g[x] = lo[x] ELSE g[x] = f[x] BY <1>4, <1>7, <2>1, <2>5
  <2>7. Made(o, f, dat, fs, g, dat, gs) BY <1>5, <2>4, <2>6 DEF Made
  <2> QED BY <2>7
<1>9. CASE o.err # 0
  <2>1. lo[o.d] = f[o.d] /\ (\A x \in U : lo[x] = o.loc2) /\ \E x \in U : ~Childless(f, x) BY <1>9 DEF RenamePending
  <2>2. PICK x \in U : ~Childless(f, x) BY <2>1
  <2>3. x \in Live(f) /\ f[x] = o.loc2 BY <1>1, <1>4, <1>7, <2>2, Places DEF Live
  <2>4. gs = fs BY <1>2, <1>3, <2>2, <2>3, RenameRefused
  <2>5. \A y \in Dents : y \in About(o) => f[y] = lo[y] BY <1>4, <1>7, <2>1
  <2>6. Made(o, f, dat, fs, f, dat, gs) BY <1>2, <1>5, <2>4, <2>5 DEF Made
  <2> QED BY <2>6
<1> QED BY <1>8, <1>9

\* A write is logged.
LEMMA WriteLogged ==
  ASSUME AllOps, NEW f, NEW dat, Good(f, dat), NEW t \in Tasks, NEW o, NEW fs, NEW r, Logging(t, o, f, dat, fs, r),
         WritePending(t, o, f, dat)
  PROVE  \E e : Made(o, f, dat, fs, f, e, ReplayRecord(fs, r))
<1>1. o.d \in Live(f) /\ o.d \in Dents BY UnderWay DEF Logging, WritePending, Live
<1>2. WellFormed(f) /\ Shows(fs, f, dat) /\ dat \in [Dents -> Seq(1 .. MaxOps)] BY DEF Good, Logging
<1>3. ino \in [Dents -> Dents] /\ ino[o.d] \in Dents BY <1>1 DEF AllOps, TreeInv, TreeType
<1> DEFINE gs == ReplayRecord(fs, r)
<1>4. gs = AppendFile(fs, PathIn(f, f[o.d]), o.seq)
  <2>1. fd[t].append = TRUE
    <3>1. fd \in [Tasks -> [d : Dents, pos : Nat, append : BOOLEAN] \cup {None}] BY DEF AllOps, TreeInv, TreeType
    <3>2. fd[t] \in [d : Dents, pos : Nat, append : BOOLEAN] /\ fd[t].append BY <3>1 DEF WritePending
    <3> QED BY <3>2
  <2>2. r.path = PathIn(f, f[o.d]) /\ r.type = "FWRITE" /\ r.seq = o.seq BY DEF Logging, WritePending
  <2>3. r.append = TRUE BY <2>1 DEF Logging, WritePending
  <2> QED BY <2>2, <2>3 DEF ReplayRecord, AppendFile
<1>5. kind[o.d] = "file" BY DEF WritePending
<1> HIDE DEF gs
<1>6. PICK e : e = [dat EXCEPT ![ino[o.d]] = Append(@, o.seq)] OBVIOUS
<1>7. /\ e[ino[o.d]] = Append(dat[ino[o.d]], o.seq) /\ \A i \in Dents : i # ino[o.d] => e[i] = dat[i]
      /\ e = [i \in Dents |-> e[i]]
  BY <1>2, <1>3, <1>6
<1>8. e \in [Dents -> Seq(1 .. MaxOps)] /\ e[ino[o.d]] = data[ino[o.d]]
  <2>1. e[ino[o.d]] = data[ino[o.d]] BY <1>7 DEF WritePending
  <2>2. \A i \in Dents : e[i] \in Seq(1 .. MaxOps) BY <1>2, <1>3, <1>7, <2>1, Trees
  <2> QED BY <1>7, <2>1, <2>2
<1>9. About(o) = {o.d} /\ lo[o.d] = f[o.d] /\ o.type = "FWRITE" BY Trees DEF About, WritePending
<1>10. Shows(gs, f, e) /\ DOMAIN gs.inode = DOMAIN fs.inode
  <2>1. Appended(dat, e, ino[o.d], o.seq) BY <1>7 DEF Appended
  <2>2. Contents(dat) BY <1>2, <1>3 DEF Contents
  <2>3. WellFormed(f) /\ Shows(fs, f, dat) BY <1>2
  <2> QED BY <1>1, <1>4, <1>5, <2>1, <2>2, <2>3, WriteShown
<1>11. Made(o, f, dat, fs, f, e, gs) BY <1>2, <1>7, <1>8, <1>9, <1>10 DEF Made
<1> QED BY <1>11 DEF gs

\* The record of the logging tail.
LEMMA LogFacts ==
  ASSUME AllOps, AllOps', NEW f, NEW dat, Good(f, dat), NEW fs, fs = Replayed, Shows(fs, f, dat), NEW t \in Tasks, LogRecord(t)
  PROVE  \E r : Logging(t, op[t], f, dat, fs, r) /\ Replayed' = ReplayRecord(fs, r)
<1> DEFINE o == op[t]
<1> DEFINE loc == IF o.type \in {"FWRITE", "LINK", "RENAME"} THEN up[o.d] ELSE o.loc
<1> DEFINE r == [type |-> o.type, path |-> PathOf(loc), aux |-> IF o.loc2 = None THEN <<>> ELSE PathOf(o.loc2),
                 append |-> o.type = "FWRITE" /\ fd[t].append, err |-> o.err, seq |-> o.seq, held |-> o.held]
<1>1. pc[t] = "log" /\ log' = Append(log, r) BY DEF LogRecord
<1>2. Ways(o, f) BY <1>1 DEF Good, PendingInv, Pending
<1>3. loc \in Locs /\ loc \in {o.loc, o.loc2, up[o.d]} BY <1>1 DEF AllOps, TreeInv, OpInv, PathTypes
<1>4. PathOf(loc) = PathIn(f, loc) BY <1>2, <1>3, WaysHome
<1>5. o.loc2 # None => PathOf(o.loc2) = PathIn(f, o.loc2)
  <2>1. o.loc2 # None => o.loc2 \in Locs BY UnderWay
  <2> QED BY <1>2, <2>1, WaysHome
<1>6. r.append = (o.type = "FWRITE" /\ fd[t].append) OBVIOUS
<1>7. o.type = "FWRITE" => r.append = fd[t].append
  <2>1. o.type = "FWRITE" => fd[t] # None BY <1>1 DEF AllOps, TreeInv, OpInv
  <2>2. o.type = "FWRITE" => fd[t].append \in BOOLEAN BY <2>1 DEF AllOps, TreeInv, TreeType
  <2> QED BY <1>6, <2>2
<1>8. /\ r.type = o.type /\ r.seq = o.seq /\ r.path = PathOf(loc)
      /\ o.loc2 # None => r.aux = PathOf(o.loc2)
  OBVIOUS
<1>9. Logging(t, o, f, dat, fs, r)
  <2> HIDE DEF r
  <2> QED BY <1>1, <1>2, <1>4, <1>5, <1>7, <1>8 DEF Logging
<1> HIDE DEF r
<1>10. log \in Seq(LogRecords) /\ log' \in Seq(LogRecords) BY DEF AllOps, TreeInv, ControlType
<1>11. log'[Len(log')] = r /\ Len(log') \in 1 .. Len(log') BY <1>1, <1>10
<1>12. r \in LogRecords BY <1>10, <1>11
<1>13. Replay(log')[Len(log')] = ReplayRecord(fs, r)
  <2> DEFINE s == log
  <2> DEFINE z == log'
  <2>1. s \in Seq(LogRecords) /\ z = Append(s, r) BY <1>1, <1>10
  <2>2. fs = Replay(s)[Len(s)] BY DEF Replayed
  <2> HIDE DEF s
  <2> HIDE DEF z
  <2>3. Replay(z)[Len(z)] = ReplayRecord(fs, r) BY <1>12, <2>1, <2>2, ReplayAppend
  <2> QED BY <2>3 DEF z
<1>14. Replayed' = ReplayRecord(fs, r) BY <1>13 DEF Replayed
<1> QED BY <1>9, <1>14

\* Whatever the operation, its record is replayed to what it did.
LEMMA RecordMade ==
  ASSUME AllOps, NEW f, NEW dat, Good(f, dat), NEW t \in Tasks, NEW o, NEW fs, NEW r, Logging(t, o, f, dat, fs, r)
  PROVE  \E g, e : Made(o, f, dat, fs, g, e, ReplayRecord(fs, r))
<1>1. \/ MakePending(o, f, dat) \/ RemovePending(o, f) \/ LinkPending(o, f)
      \/ RenamePending(o, f) \/ WritePending(t, o, f, dat)
  BY DEF Logging, Good, PendingInv, Pending
<1>2. CASE MakePending(o, f, dat) BY <1>2, MakeLogged
<1>3. CASE RemovePending(o, f) BY <1>3, RemoveLogged
<1>4. CASE LinkPending(o, f) BY <1>4, LinkLogged
<1>5. CASE RenamePending(o, f) BY <1>5, RenameLogged
<1>6. CASE WritePending(t, o, f, dat) BY <1>6, WriteLogged
<1> QED BY <1>1, <1>2, <1>3, <1>4, <1>5, <1>6

\* An operation is logged.
LEMMA LogGood ==
  ASSUME AllOps, AllOps', NEW f, NEW dat, Good(f, dat), NEW t \in Tasks, LogRecord(t)
  PROVE  \E g, e : Good(g, e)'
<1> DEFINE o == op[t]
<1>1. /\ pc[t] = "log" /\ pc'[t] = "ret" /\ UNCHANGED <<kind, ino, lo, up, hashed, data, fd, lock, op, nops>>
      /\ \A u \in Tasks : u # t => op'[u] = op[u] /\ pc'[u] = pc[u] /\ fd'[u] = fd[u]
  BY DEF LogRecord, trees, AllOps, TreeInv, ControlType
<1>2. PICK fs : fs = Replayed /\ Shows(fs, f, dat) BY DEF Good
<1>3. PICK r : Logging(t, op[t], f, dat, fs, r) /\ Replayed' = ReplayRecord(fs, r) BY <1>2, LogFacts
<1>4. PICK g, e : Made(op[t], f, dat, fs, g, e, ReplayRecord(fs, r))
  <2>1. \A p : Logging(t, p, f, dat, fs, r) => \E g, e : Made(p, f, dat, fs, g, e, ReplayRecord(fs, r)) BY RecordMade
  <2> QED BY <1>3, <2>1
<1> DEFINE gs == ReplayRecord(fs, r)
<1> HIDE DEF gs
<1>5. /\ WellFormed(g) /\ Shows(gs, g, e) /\ e \in [Dents -> Seq(1 .. MaxOps)]
      /\ DOMAIN gs.inode \subseteq DOMAIN fs.inode \cup {o.seq} /\ gs = Replayed'
      /\ \A x \in Dents : IF x \in About(o) THEN g[x] = lo[x] ELSE g[x] = f[x]
      /\ \A i \in Dents : IF o.type = "FWRITE" /\ ino[o.d] = i THEN e[i] = data[i] ELSE e[i] = dat[i]
  BY <1>3, <1>4 DEF Made, gs
<1>6. \A x \in Dents : Kept(x) BY <1>1 DEF Kept
<1>7. Frame(o, f, g)
  <2> SUFFICES ASSUME NEW x \in Dents, g[x] # f[x]
               PROVE  /\ ino[x] \in Touches(o) /\ kind'[x] = kind[x] /\ ino'[x] = ino[x]
                      /\ \A l \in Spots(x) \cup SpotsNext(x) \cup {f[x], g[x]} : l = None \/ l.par \in o.held
    BY <1>6 DEF Frame
  <2>1. x \in About(o) /\ g[x] = lo[x] BY <1>5
  <2>2. InHeld(x, f, op[t].held) BY <1>1, <2>1, PendingHolds
  <2>3. ino[x] \in Touches(o) BY <2>1, AboutTouches
  <2>4. SpotsNext(x) = Spots(x) /\ g[x] \in Spots(x) BY <1>1, <2>1 DEF Spots, SpotsNext
  <2> QED BY <1>1, <2>2, <2>3, <2>4 DEF InHeld
<1>8. OthersStay(t, o) BY <1>1, StepApart
<1>9. DataFrame(o, dat, e) BY <1>1, <1>5 DEF DataFrame, Touches
<1>10. WellFormed(g)' /\ \E hs : hs = Replayed' /\ Shows(hs, g, e)'
  <2>1. WellFormed(g)' /\ Shows(gs, g, e)' BY <1>1, <1>5, SameShown
  <2> QED BY <1>5, <2>1
<1>11. \A x \in Dents : g[x] # None => kind'[x] # "free"
  <2>1. \A x \in Dents : lo[x] # None => kind[x] # "free" BY Trees DEF Good, NodeInv
  <2>2. \A x \in Dents : f[x] # None => kind[x] # "free" BY DEF Good
  <2> QED BY <1>1, <1>5, <2>1, <2>2
<1>12. Running(t)'
  <2>1. Running(t) BY <1>1 DEF Good, RunInv
  <2>2. Moving(t)' <=> Moving(t) BY <1>1 DEF Moving
  <2> QED BY <1>1, <2>1, <2>2 DEF Running, UpperChild
<1>13. StillDiffer(t, f, dat, g, e) BY <1>1, <1>5 DEF StillDiffer
<1>14. StaysApart(t, o)
  <2>1. Touches(op[t])' = Touches(o) /\ Through(op[t])' = Through(o) BY <1>1 DEF Touches, Through, UpperChild
  <2>2. \A u \in Tasks : u # t /\ pc[u] # "idle" => op'[t].seq # op[u].seq BY <1>1 DEF Good, ApartInv
  <2> QED BY <2>1, <2>2 DEF StaysApart
<1>15. FreshInv'
  <2> SUFFICES ASSUME NEW id \in DOMAIN gs.inode
               PROVE  id \in 0 .. nops /\ \A u \in Tasks : pc'[u] = "log" => id # op[u].seq
    BY <1>1, <1>5 DEF FreshInv
  <2>1. CASE id \in DOMAIN fs.inode
    <3>1. id \in 0 .. nops /\ \A u \in Tasks : pc[u] = "log" => id # op[u].seq BY <1>2, <2>1 DEF Good, FreshInv
    <3> QED BY <1>1, <3>1
  <2>2. CASE id = o.seq
    <3>1. nops \in Nat BY BoundAssumption DEF AllOps, TreeInv, ControlType
    <3>2. id \in 0 .. nops BY <2>2, <3>1, UnderWay
    <3>3. \A u \in Tasks : pc'[u] = "log" => u # t /\ pc[u] = "log" BY <1>1
    <3> QED BY <1>1, <2>2, <3>2, <3>3 DEF Good, ApartInv
  <2> QED BY <1>5, <2>1, <2>2
<1>16. NodeInv' /\ OpenInv' BY <1>1 DEF Good, NodeInv, OpenInv
<1>17. pc'[t] # "log" BY <1>1
<1>18. Good(g, e)'
  BY <1>5, <1>7, <1>8, <1>9, <1>10, <1>11, <1>12, <1>13, <1>14, <1>15, <1>16, <1>17, StepGood
<1> QED BY <1>18

-----------------------------------------------------------------------------
(* The theorem.                                                             *)

ReplayInv == \E f, dat : Good(f, dat)

\* Nothing was logged, and the tree is empty.
LEMMA GoodInit == Init => ReplayInv
<1> SUFFICES ASSUME Init PROVE ReplayInv OBVIOUS
<1>1. PICK f : f = [x \in Dents |-> None] OBVIOUS
<1>2. PICK dat : dat = [x \in Dents |-> <<>>] OBVIOUS
<1>3. /\ \A x \in Dents : f[x] = None /\ lo[x] = None /\ dat[x] = <<>> /\ data[x] = <<>> /\ ino[x] = x
      /\ \A t \in Tasks : pc[t] = "idle" /\ fd[t] = None
  BY <1>1, <1>2 DEF Init
<1>4. WellFormed(f) BY <1>1, <1>3, RootAssumption DEF WellFormed
<1>5. dat \in [Dents -> Seq(1 .. MaxOps)] BY <1>2
<1>6. Replayed = EmptyDir BY ReplayEmpty DEF Replayed, Init
<1>7. Shows(EmptyDir, f, dat)
  <2>1. Live(f) = {} BY <1>3 DEF Live
  <2>2. EmptyDir.at = <<>> /\ EmptyDir.inode = <<>> /\ EmptyDir = [at |-> EmptyDir.at, inode |-> EmptyDir.inode]
    BY DEF EmptyDir
  <2>3. DOMAIN EmptyDir.at = {} BY <2>2
  <2> HIDE DEF EmptyDir
  <2> QED BY <2>1, <2>2, <2>3 DEF Shows
<1>8. FreshInv
  <2>1. DOMAIN EmptyDir.inode = {} BY DEF EmptyDir
  <2> QED BY <1>6, <2>1 DEF FreshInv
<1>9. PendingInv(f, dat) /\ DifferInv(f, dat) /\ ApartInv /\ RunInv /\ OpenInv
  BY <1>3 DEF PendingInv, DifferInv, ApartInv, RunInv, OpenInv
<1>10. NodeInv BY <1>3 DEF NodeInv, Init
<1>11. Good(f, dat) BY <1>3, <1>4, <1>5, <1>6, <1>7, <1>8, <1>9, <1>10 DEF Good
<1> QED BY <1>11 DEF ReplayInv

\* Every step keeps the replay in step with the mount.
LEMMA GoodNext ==
  ASSUME KeptApart, AllOps, AllOps', ReplayInv, [Next]_vars
  PROVE  ReplayInv'
<1>1. PICK f, dat : Good(f, dat) BY DEF ReplayInv
<1>2. ASSUME Good(f, dat)' PROVE ReplayInv' BY <1>2 DEF ReplayInv
<1>3. CASE UNCHANGED vars
  <2>1. UNCHANGED <<kind, ino, lo, up, hashed, data, fd, lock, pc, op, log, nops>> BY <1>3 DEF vars
  <2>2. OpenInv' BY <1>1, <2>1 DEF Good, OpenInv
  <2> QED BY <1>1, <1>2, <2>1, <2>2, OpenOnly
<1>4. ASSUME NEW t \in Tasks, Create(t) \/ Mkdir(t) \/ Symlink(t) PROVE ReplayInv'
  <2>1. PICK type, k, onerr :
          /\ <<type, k>> \in {<<"FCREAT", "file">>, <<"DCREAT", "dir">>, <<"SYMLINK", "symlink">>}
          /\ MakeNode(t, k, type, "log", onerr)
    BY <1>4 DEF Create, Mkdir, Symlink
  <2> QED BY <1>1, <1>2, <2>1, MakeBegins
<1>5. ASSUME NEW t \in Tasks PROVE ~Mknod(t) /\ ~WriteIter(t) BY DEF KeptApart, Mknod, WriteIter
<1>6. ASSUME NEW t \in Tasks, Unlink(t) \/ Rmdir(t) \/ Link(t) \/ Rename(t) \/ Write(t) PROVE ReplayInv'
  BY <1>1, <1>2, <1>6, UnlinkBegins, RmdirBegins, LinkBegins, RenameBegins, WriteBegins
<1>7. ASSUME NEW t \in Tasks, Open(t) \/ Close(t) \/ Return(t) PROVE ReplayInv'
  BY <1>1, <1>2, <1>7, OpenCloseGood, ReturnGood
<1>8. ASSUME NEW t \in Tasks, LogRecord(t) PROVE ReplayInv'
  <2>1. \E g, e : Good(g, e)' BY <1>1, <1>8, LogGood
  <2> QED BY <2>1 DEF ReplayInv
<1> QED BY <1>3, <1>4, <1>5, <1>6, <1>7, <1>8 DEF Next

\* When no operation is under way the tree of the trace is the lower tree.
LEMMA GoodReproduces ==
  ASSUME AllOps, ReplayInv
  PROVE  ReplayReproduces
<1> SUFFICES ASSUME Quiet
             PROVE  /\ DOMAIN Replayed.at = {LowerPath(d) : d \in LowerEntries}
                    /\ \A d \in LowerEntries :
                         LET r == Replayed.inode[Replayed.at[LowerPath(d)]] IN r.kind = kind[d] /\ r.data = data[ino[d]]
                    /\ \A d, e \in LowerEntries :
                         ino[d] = ino[e] <=> Replayed.at[LowerPath(d)] = Replayed.at[LowerPath(e)]
  BY DEF ReplayReproduces
<1>1. PICK f, dat : Good(f, dat) BY DEF ReplayInv
<1>2. PICK fs : fs = Replayed /\ Shows(fs, f, dat) BY <1>1 DEF Good
<1>3. f \in [Dents -> Locs \cup {None}] /\ dat \in [Dents -> Seq(1 .. MaxOps)] BY <1>1 DEF Good, WellFormed
<1>4. lo \in [Dents -> Locs \cup {None}] /\ data \in [Dents -> Seq(1 .. MaxOps)] BY DEF AllOps, TreeInv, TreeType
<1>5. f = lo
  <2>1. \A x \in Dents : f[x] = lo[x] BY <1>1 DEF Good, DifferInv, Quiet
  <2> QED BY <1>3, <1>4, <2>1
<1>6. dat = data
  <2>1. \A i \in Dents : dat[i] = data[i] BY <1>1 DEF Good, DifferInv, Quiet
  <2> QED BY <1>3, <1>4, <2>1
<1>7. LowerEntries = Live(f) BY <1>5 DEF LowerEntries, Live
<1>8. ASSUME NEW d PROVE LowerPath(d) = PathIn(f, f[d]) BY <1>5 DEF LowerPath, PathIn
<1>9. DOMAIN fs.at = {LowerPath(d) : d \in LowerEntries}
  <2>1. DOMAIN fs.at = {PathIn(f, f[d]) : d \in Live(f)} BY <1>2 DEF Shows
  <2> QED BY <1>7, <1>8, <2>1
<1>10. ASSUME NEW d \in LowerEntries
       PROVE  fs.inode[fs.at[LowerPath(d)]].kind = kind[d] /\ fs.inode[fs.at[LowerPath(d)]].data = data[ino[d]]
  <2>1. d \in Live(f) BY <1>7
  <2>2. fs.inode[fs.at[PathIn(f, f[d])]] = [kind |-> kind[d], data |-> dat[ino[d]]] BY <1>2, <2>1, Zenon DEF Shows
  <2>3. LowerPath(d) = PathIn(f, f[d]) BY <1>8
  <2>4. fs.inode[fs.at[LowerPath(d)]] = [kind |-> kind[d], data |-> data[ino[d]]] BY <1>6, <2>2, <2>3
  <2> QED BY <2>4
<1>11. ASSUME NEW d \in LowerEntries, NEW e \in LowerEntries
       PROVE  ino[d] = ino[e] <=> fs.at[LowerPath(d)] = fs.at[LowerPath(e)]
  <2>1. d \in Live(f) /\ e \in Live(f) BY <1>7
  <2>2. ino[d] = ino[e] <=> fs.at[PathIn(f, f[d])] = fs.at[PathIn(f, f[e])] BY <1>2, <2>1, Zenon DEF Shows
  <2>3. LowerPath(d) = PathIn(f, f[d]) /\ LowerPath(e) = PathIn(f, f[e]) BY <1>8
  <2> QED BY <2>2, <2>3
<1>12. fs = Replayed BY <1>2
<1> QED BY <1>9, <1>10, <1>11, <1>12

\* However operations of any number of tasks interleave, replaying the trace
\* file in an empty directory gives the tree that trfs left below, with its
\* kinds, contents and hard links, whenever no operation is running: if callers
\* keep their operations apart, the lower file system fails none for reasons of
\* its own, writes are O_APPEND and what trfs does not log is not used.
THEOREM Reproduces == ASSUME KeptApart PROVE Spec => []ReplayReproduces
<1>1. Init => ReplayInv BY GoodInit
<1>2. AllOps /\ AllOps' /\ ReplayInv /\ [Next]_vars => ReplayInv' BY GoodNext
<1>3. AllOps /\ ReplayInv => ReplayReproduces BY GoodReproduces
<1>4. Init => NameInv
  BY DEF Init, NameInv, MoveInv, InUseInv, UpperMatchesLower, Moving
<1> QED BY <1>1, <1>2, <1>3, <1>4, NamesNext, TreeCorrect, OrderCorrect, PTL DEF Spec, AllOps
=============================================================================
