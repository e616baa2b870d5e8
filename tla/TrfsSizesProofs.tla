-------------------------- MODULE TrfsSizesProofs ---------------------------
(***************************************************************************)
(* Proof that the size of an upper inode is that of its lower inode, when  *)
(* nothing is changing it and unless changes of it overlapped, the lower   *)
(* one changed and was not copied, a truncation failed below or the inode  *)
(* has a twin.                                                             *)
(***************************************************************************)
EXTENDS TrfsInodesProofs

\* The lower inode whose size task t changes, and the inodes left out.
In(t) == ldent[dent[SizeDent(t)].lower].ino
Bad == raced \cup torn \cup cut

\* Between the change of one size and that of the other.
Unsteady == {"getsize", "setsize", "notify"}
Linking == {"iget", "grab", "splice", "linked"}

\* Task t changes a size: it knows whether it is alone, and if it is, what it
\* is about to write is the size to be written.
SizerOK(t) ==
  /\ job[t].alone => \A s \in Tasks : job[s].op \in SizeOps /\ In(s) = In(t) => s = t
  /\ ~job[t].alone => In(t) \in torn
  /\ job[t].alone /\ pc[t] = "setsize" => job[t].size = lsize[In(t)]
  /\ job[t].alone /\ pc[t] = "notify" => upper[SizeUpper(t)].size = 0
  /\ job[t].alone /\ job[t].op = "link" /\ In(t) \notin Bad => job[t].size = lsize[In(t)]
  /\ job[t].op = "link" /\ pc[t] \in Linking => LowerInode(t) = In(t)
SizersOK == \A t \in Tasks : job[t].op \in SizeOps => SizerOK(t)

\* No task has changed one size of i and not the other.
Steady(i) == \A s \in Tasks : job[s].op \in SizeOps /\ In(s) = i => pc[s] \notin Unsteady
SteadyAgree ==
  \A u \in Uppers : upper[u].lower # None /\ upper[u].lower \notin Bad /\ Steady(upper[u].lower)
                    => upper[u].size = lsize[upper[u].lower]

SizeInv == SizersOK /\ SteadyAgree

\* The dentry of the file whose size a task with job j changes.
SizerDent(j) == IF j.op = "link" THEN j.old ELSE j.d

\* A task that changes a size has a dentry with an inode, whose lower inode it
\* is.
LEMMA SizerIs ==
  ASSUME NEW dn, NEW up, NEW ld, NEW fl, NEW j \in JobRecords, NEW q, dn \in [Dents -> {None} \cup DentRecords],
         up \in [Uppers -> UpperRecords], TaskOK(dn, up, ld, fl, q, j), DentsOK(dn, up, ld), UppersOK(up),
         j.op \in SizeOps, NEW e, e = SizerDent(j)
  PROVE  /\ e \in Dents /\ dn[e] # None /\ dn[e].inode \in Uppers /\ dn[e].lower \in LDents
         /\ ld[dn[e].lower] # None /\ ld[dn[e].lower].ino \in Lowers
         /\ ld[dn[e].lower].ino = up[dn[e].inode].lower
<1>1. j.d \in Dents \cup {None} /\ j.old \in Dents \cup {None} BY DEF JobRecords
<1>2. Shape(q, j) BY DEF TaskOK
<1>3. e \in Dents /\ dn[e] # None /\ dn[e].inode # None
  <2>1. CASE j.op = "link"
    <3>1. e = j.old /\ e # None BY <1>2, <2>1 DEF Shape, SizerDent
    <3> QED BY <1>1, <3>1 DEF TaskOK
  <2>2. CASE j.op # "link"
    <3>1. e = j.d /\ j.op \in {"write", "truncate"} BY <2>2 DEF SizerDent, SizeOps
    <3>2. q \in {"getsize", "setsize", "written", "path", "notify"} BY <1>2, <3>1 DEF Shape, OpAt
    <3>3. q # "idle" /\ q \notin Raw BY <3>2 DEF Raw
    <3>4. e # None BY <1>2, <3>1, <3>3 DEF Shape
    <3> QED BY <1>1, <3>1, <3>3, <3>4 DEF TaskOK
  <2> QED BY <2>1, <2>2
<1>4. dn[e] \in DentRecords BY <1>3
<1>5. dn[e].inode \in Uppers /\ dn[e].lower \in LDents \cup {None} BY <1>3, <1>4 DEF DentRecords
<1>6. DentOK(dn[e], up, ld) BY <1>3 DEF DentsOK
<1>7. /\ dn[e].lower # None /\ ld[dn[e].lower] # None /\ up[dn[e].inode].state = "live"
      /\ ld[dn[e].lower].ino = up[dn[e].inode].lower
  BY <1>3, <1>6 DEF DentOK
<1>8. up[dn[e].inode].lower \in Lowers
  <2>1. up[dn[e].inode] \in UpperRecords BY <1>5
  <2>2. up[dn[e].inode].lower # None BY <1>5, <1>7 DEF UppersOK
  <2> QED BY <2>1, <2>2 DEF UpperRecords
<1> QED BY <1>3, <1>5, <1>7, <1>8

\* A dentry that has a lower inode keeps it.
LEMMA DentLeads ==
  ASSUME IInv, Next, NEW d \in Dents, dent[d] # None, dent[d].lower \in LDents, ldent[dent[d].lower].ino \in Lowers,
         dent'[d] # None, dent'[d].lower \in LDents, ldent'[dent'[d].lower].ino \in Lowers
  PROVE  /\ ldent'[dent'[d].lower].ino = ldent[dent[d].lower].ino
         /\ dent[d].inode # None => dent'[d].inode = dent[d].inode
<1>1. NowInv /\ ThenInv BY ThenHolds
<1>2. DentsOK(dent, upper, ldent) /\ DentsOK(dent', upper', ldent') BY <1>1, Now DEF ThenInv, Inv
<1>3. None \notin LDents /\ None \notin Lowers BY NoneAssumption
<1>4. ldent[dent[d].lower] # None /\ ldent'[dent'[d].lower] # None BY <1>2, <1>3 DEF DentsOK, DentOK
<1>5. DentFrame(dent') /\ LowerFrame(ldent') BY <1>1, Framed
<1>6. dent'[d].lower = dent[d].lower /\ (dent[d].inode # None => dent'[d].inode = dent[d].inode)
  BY <1>3, <1>5 DEF DentFrame
<1> QED BY <1>3, <1>4, <1>5, <1>6 DEF LowerFrame

\* What is known of a task that changes a size.
LEMMA SizerNow ==
  ASSUME IInv, NEW t \in Tasks, job[t].op \in SizeOps
  PROVE  /\ Leads(SizerDent(job[t]), In(t)) /\ SizeUpper(t) = dent[SizerDent(job[t])].inode
         /\ In(t) \in Lowers /\ SizeUpper(t) \in Uppers /\ upper[SizeUpper(t)].lower = In(t)
<1>1. PICK e : e = SizerDent(job[t]) OBVIOUS
<1>2. SizeDent(t) = e BY <1>1 DEF SizeDent, SizerDent, D
<1>3. TaskOK(dent, upper, ldent, file, pc[t], job[t]) /\ DentsOK(dent, upper, ldent) /\ UppersOK(upper)
  BY DEF IInv, Inv, TasksOK
<1>7. dent \in [Dents -> {None} \cup DentRecords] /\ upper \in [Uppers -> UpperRecords] /\ job[t] \in JobRecords
  BY DEF IInv, Inv, Types
<1>4. /\ e \in Dents /\ dent[e] # None /\ dent[e].inode \in Uppers /\ dent[e].lower \in LDents
      /\ ldent[dent[e].lower] # None /\ ldent[dent[e].lower].ino \in Lowers
      /\ ldent[dent[e].lower].ino = upper[dent[e].inode].lower
  BY <1>1, <1>3, <1>7, SizerIs
<1>5. In(t) = ldent[dent[e].lower].ino /\ SizeUpper(t) = dent[e].inode BY <1>2 DEF In, SizeUpper
<1>6. dent[e].inode # None BY <1>4, NoneAssumption
<1> QED BY <1>1, <1>4, <1>5, <1>6 DEF Leads

\* The same after a step: the dentry leads where it led before.
LEMMA SizerLeads ==
  ASSUME IInv, Next, NEW t \in Tasks, job'[t].op \in SizeOps, NEW i, Leads(SizerDent(job'[t]), i)
  PROVE  /\ In(t)' = i /\ SizeUpper(t)' = dent[SizerDent(job'[t])].inode
         /\ upper'[SizeUpper(t)'].lower = i /\ SizeUpper(t)' \in Uppers
<1>1. PICK e : e = SizerDent(job'[t]) OBVIOUS
<1>2. SizeDent(t)' = e BY <1>1 DEF SizeDent, SizerDent, D
<1>3. ThenInv /\ NowInv BY ThenHolds
<1>4. TaskOK(dent', upper', ldent', file', pc'[t], job'[t]) /\ DentsOK(dent', upper', ldent') /\ UppersOK(upper')
  BY <1>3 DEF ThenInv, Inv, TasksOK
<1>10. /\ dent' \in [Dents -> {None} \cup DentRecords] /\ upper' \in [Uppers -> UpperRecords]
       /\ job'[t] \in JobRecords
  BY <1>3 DEF ThenInv, Inv, Types
<1>5. /\ e \in Dents /\ dent'[e] # None /\ dent'[e].inode \in Uppers /\ dent'[e].lower \in LDents
      /\ ldent'[dent'[e].lower] # None /\ ldent'[dent'[e].lower].ino \in Lowers
      /\ ldent'[dent'[e].lower].ino = upper'[dent'[e].inode].lower
  BY <1>1, <1>4, <1>10, SizerIs
<1>6. dent[e] # None /\ dent[e].inode # None /\ ldent[dent[e].lower].ino = i /\ i \in Lowers BY <1>1 DEF Leads
<1>7. dent[e].lower \in LDents BY <1>3, <1>5, <1>6, PositiveFacts
<1>8. ldent'[dent'[e].lower].ino = i /\ dent'[e].inode = dent[e].inode BY <1>5, <1>6, <1>7, DentLeads
<1>9. In(t)' = ldent'[dent'[e].lower].ino /\ SizeUpper(t)' = dent'[e].inode BY <1>2 DEF In, SizeUpper
<1> QED BY <1>1, <1>5, <1>8, <1>9

-----------------------------------------------------------------------------
(* What a step leaves alone *)

\* Task s works on the same file; it does not even notice the step.
SameFile(s) == job'[s].op = job[s].op /\ job'[s].d = job[s].d /\ job'[s].old = job[s].old
Keeps(s) == pc'[s] = pc[s] /\ SameFile(s) /\ job'[s].size = job[s].size

\* The inodes that such a task works on stay the same.
LEMMA SizerStays ==
  ASSUME IInv, Next, NEW s \in Tasks, SameFile(s), job[s].op \in SizeOps
  PROVE  In(s)' = In(s) /\ SizeUpper(s)' = SizeUpper(s) /\ upper'[SizeUpper(s)].lower = In(s)
<1>1. SizerDent(job'[s]) = SizerDent(job[s]) /\ job'[s].op \in SizeOps BY DEF SameFile, SizerDent
<1>2. PICK i : i = In(s) OBVIOUS
<1>3. Leads(SizerDent(job'[s]), i) /\ SizeUpper(s) = dent[SizerDent(job'[s])].inode BY <1>1, <1>2, SizerNow
<1> QED BY <1>1, <1>2, <1>3, SizerLeads

\* While the new dentry of a link is given its inode, its lower inode stays.
LEMMA LinkStays ==
  ASSUME IInv, Next, NEW s \in Tasks, job'[s].d = job[s].d, pc[s] \in Linking, pc'[s] \in Linking
  PROVE  LowerInode(s)' = LowerInode(s)
<1>1. NowInv /\ ThenInv BY ThenHolds
<1>2. PICK d : d = job[s].d OBVIOUS
<1>3. /\ TaskOK(dent, upper, ldent, file, pc[s], job[s]) /\ DentsOK(dent, upper, ldent) /\ UppersOK(upper)
      /\ dent \in [Dents -> {None} \cup DentRecords] /\ upper \in [Uppers -> UpperRecords]
      /\ ldent \in [LDents -> {None} \cup LDentRecords]
  BY DEF IInv, Inv, TasksOK, Types
<1>4. /\ TaskOK(dent', upper', ldent', file', pc'[s], job'[s]) /\ DentsOK(dent', upper', ldent') /\ UppersOK(upper')
      /\ dent' \in [Dents -> {None} \cup DentRecords] /\ upper' \in [Uppers -> UpperRecords]
      /\ ldent' \in [LDents -> {None} \cup LDentRecords]
  BY <1>1 DEF ThenInv, Inv, TasksOK, Types
<1>5. pc[s] # "idle" /\ pc'[s] # "idle" /\ d \in Dents
  <2>1. pc[s] # "idle" /\ pc'[s] # "idle" BY DEF Linking
  <2> QED BY <1>1, <1>2, <2>1, TaskFacts
<1>6. ASSUME NEW dn, NEW up, NEW ld, NEW fl, NEW q \in Linking, NEW j, j.d = d, TaskOK(dn, up, ld, fl, q, j),
             DentsOK(dn, up, ld), UppersOK(up), dn \in [Dents -> {None} \cup DentRecords],
             up \in [Uppers -> UpperRecords], ld \in [LDents -> {None} \cup LDentRecords]
      PROVE  dn[d] # None /\ dn[d].lower \in LDents /\ ld[dn[d].lower].ino \in Lowers
  <2>1. q # "idle" /\ (q \in {"iget", "grab", "splice"} \/ q = "linked") BY <1>6 DEF Linking
  <2>2. dn[d] # None BY <1>6, <2>1 DEF TaskOK
  <2>3. DentOK(dn[d], up, ld) /\ dn[d] \in DentRecords BY <1>5, <1>6, <2>2 DEF DentsOK
  <2>4. dn[d].lower \in LDents \cup {None} /\ dn[d].inode \in Uppers \cup {None} BY <2>3 DEF DentRecords
  <2>5. CASE q \in {"iget", "grab", "splice"}
    <3>1. dn[d].lower # None /\ ld[dn[d].lower].ino # None BY <1>6, <2>5 DEF TaskOK
    <3>2. ld[dn[d].lower] \in LDentRecords BY <1>6, <2>3, <2>4, <3>1 DEF DentOK
    <3>3. ld[dn[d].lower].ino \in Lowers \cup {None} BY <3>2 DEF LDentRecords
    <3> QED BY <2>2, <2>4, <3>1, <3>3
  <2>6. CASE q = "linked"
    <3>1. q \notin Raw BY <2>6 DEF Raw
    <3>2. dn[d].inode # None BY <1>6, <2>1, <3>1 DEF TaskOK
    <3>3. dn[d].lower # None /\ up[dn[d].inode].state = "live" /\ ld[dn[d].lower].ino = up[dn[d].inode].lower
      BY <2>3, <3>2 DEF DentOK
    <3>4. up[dn[d].inode].lower # None /\ up[dn[d].inode] \in UpperRecords BY <1>6, <2>4, <3>2, <3>3 DEF UppersOK
    <3>5. up[dn[d].inode].lower \in Lowers BY <3>4 DEF UpperRecords
    <3> QED BY <2>2, <2>4, <3>3, <3>5
  <2> QED BY <2>1, <2>5, <2>6
<1>7. dent[d] # None /\ dent[d].lower \in LDents /\ ldent[dent[d].lower].ino \in Lowers BY <1>2, <1>3, <1>6
<1>8. dent'[d] # None /\ dent'[d].lower \in LDents /\ ldent'[dent'[d].lower].ino \in Lowers BY <1>2, <1>4, <1>6
<1>9. ldent'[dent'[d].lower].ino = ldent[dent[d].lower].ino BY <1>5, <1>7, <1>8, DentLeads
<1> QED BY <1>2, <1>9 DEF LowerInode, LowerOf, D

\* What holds of a task that does not take the step still holds, if the step
\* leaves alone the inode of which it is the only one to change the size.
LEMMA OtherOK ==
  ASSUME IInv, Next, SizeInv, NEW A \in SUBSET Tasks, \A r \in Tasks \ A : Keeps(r),
         NEW s \in Tasks \ A, job'[s].op \in SizeOps,
         job'[s].alone => job[s].alone, ~job'[s].alone => In(s) \in torn',
         job'[s].alone => /\ \A t \in A : job'[t].op \in SizeOps => In(t)' # In(s)
                          /\ lsize'[In(s)] = lsize[In(s)]
                          /\ upper'[SizeUpper(s)].size = upper[SizeUpper(s)].size
                          /\ In(s) \in Bad => In(s) \in Bad'
  PROVE  SizerOK(s)'
<1>1. \A r \in Tasks \ A : SameFile(r) /\ pc'[r] = pc[r] BY DEF Keeps
<1>2. Keeps(s) /\ job[s].op \in SizeOps /\ SameFile(s) BY DEF Keeps, SameFile
<1>3. In(s)' = In(s) /\ SizeUpper(s)' = SizeUpper(s) BY <1>2, SizerStays
<1>4. SizerOK(s) BY <1>2 DEF SizeInv, SizersOK
<1>5. ASSUME job'[s].alone, NEW r \in Tasks, job'[r].op \in SizeOps, In(r)' = In(s)' PROVE r = s
  <2>1. r \notin A BY <1>3, <1>5
  <2>2. job[r].op \in SizeOps /\ SameFile(r) BY <1>1, <1>5, <2>1 DEF SameFile
  <2>3. In(r) = In(s) BY <1>3, <1>5, <2>2, SizerStays
  <2> QED BY <1>4, <1>5, <2>2, <2>3 DEF SizerOK
<1>6. job'[s].alone /\ pc'[s] = "setsize" => job'[s].size = lsize'[In(s)'] BY <1>2, <1>3, <1>4 DEF SizerOK, Keeps
<1>7. job'[s].alone /\ pc'[s] = "notify" => upper'[SizeUpper(s)'].size = 0 BY <1>2, <1>3, <1>4 DEF SizerOK, Keeps
<1>8. job'[s].alone /\ job'[s].op = "link" /\ In(s)' \notin Bad' => job'[s].size = lsize'[In(s)']
  BY <1>2, <1>3, <1>4 DEF SizerOK, Keeps, SameFile
<1>9. ASSUME job'[s].op = "link", pc'[s] \in Linking PROVE LowerInode(s)' = In(s)'
  <2>1. job[s].op = "link" /\ pc[s] \in Linking /\ job'[s].d = job[s].d BY <1>2, <1>9 DEF Keeps, SameFile
  <2>2. LowerInode(s)' = LowerInode(s) BY <1>9, <2>1, LinkStays
  <2> QED BY <1>3, <1>4, <2>1, <2>2 DEF SizerOK
<1>10. ~job'[s].alone => In(s)' \in torn' BY <1>3
<1> QED BY <1>5, <1>6, <1>7, <1>8, <1>9, <1>10 DEF SizerOK

\* The sizes of an inode that the step leaves alone still agree.
LEMMA SteadyKept ==
  ASSUME IInv, Next, SizeInv, NEW A \in SUBSET Tasks, \A r \in Tasks \ A : Keeps(r),
         NEW u \in Uppers, NEW k, k # None, upper[u].lower = k, upper'[u].size = upper[u].size, lsize'[k] = lsize[k],
         k \in Bad => k \in Bad', k \notin Bad', Steady(k)',
         \A t \in A : job[t].op \in SizeOps /\ In(t) = k => pc[t] \notin Unsteady
  PROVE  upper'[u].size = lsize'[k]
<1>1. ASSUME NEW r \in Tasks, job[r].op \in SizeOps, In(r) = k, r \notin A PROVE pc[r] \notin Unsteady
  <2>1. SameFile(r) /\ pc'[r] = pc[r] BY <1>1 DEF Keeps
  <2>2. In(r)' = k /\ job'[r].op \in SizeOps BY <1>1, <2>1, SizerStays DEF SameFile
  <2> QED BY <1>1, <2>1, <2>2 DEF Steady
<1>2. Steady(k) BY <1>1 DEF Steady
<1>3. k \notin Bad OBVIOUS
<1>4. upper[u].size = lsize[k] BY <1>2, <1>3 DEF SizeInv, SteadyAgree
<1> QED BY <1>4

-----------------------------------------------------------------------------
(* The steps that change no size *)

\* The tasks of A take a step; they are not between the changes of two sizes.
CalmTasks(A) ==
  /\ A \subseteq Tasks
  /\ \A r \in Tasks \ A : pc'[r] = pc[r] /\ job'[r] = job[r]
  /\ \A t \in A : /\ job[t].op \in SizeOps => pc[t] \notin Unsteady
                  /\ job'[t].op \in SizeOps => /\ SameSize(job[t], job'[t]) /\ pc'[t] \notin Unsteady
                                               /\ pc'[t] \in Linking => pc[t] \in Linking

\* Upper inodes keep their sizes, go, or are new and have the right one.
CalmUppers ==
  \A u \in Uppers : \/ upper'[u].lower = None
                    \/ upper'[u].lower = upper[u].lower /\ upper'[u].size = upper[u].size
                    \/ upper[u].lower = None /\ upper'[u].size = lsize'[upper'[u].lower]

\* So do lower inodes: a new one has no upper inode.
CalmLowers ==
  /\ torn' = torn /\ cut' = cut /\ raced \subseteq raced'
  /\ \A k \in Lowers : lsize'[k] = lsize[k] \/ \A u \in Uppers : upper[u].lower # k

\* Such a step keeps the invariant.
LEMMA CalmKept ==
  ASSUME IInv, Next, SizeInv, NEW A, CalmTasks(A), CalmUppers, CalmLowers
  PROVE  SizeInv'
<1>1. A \in SUBSET Tasks /\ \A r \in Tasks \ A : Keeps(r) /\ job'[r] = job[r] BY DEF CalmTasks, Keeps, SameFile
<1>2. \A k : k \in Bad => k \in Bad' BY DEF CalmLowers, Bad
<1>3. ASSUME NEW s \in Tasks, job'[s].op \in SizeOps
      PROVE  /\ SameFile(s) /\ job[s].op \in SizeOps /\ job'[s].alone = job[s].alone /\ job'[s].size = job[s].size
             /\ In(s)' = In(s) /\ SizeUpper(s)' = SizeUpper(s) /\ SizerOK(s)
             /\ lsize'[In(s)] = lsize[In(s)] /\ upper'[SizeUpper(s)].size = upper[SizeUpper(s)].size
  <2>1. SameFile(s) /\ job'[s].alone = job[s].alone /\ job'[s].size = job[s].size
    BY <1>1, <1>3 DEF CalmTasks, SameSize, SameFile, Keeps
  <2>2. job[s].op \in SizeOps BY <1>3, <2>1 DEF SameFile
  <2>3. In(s)' = In(s) /\ SizeUpper(s)' = SizeUpper(s) /\ upper'[SizeUpper(s)].lower = In(s)
    BY <2>1, <2>2, SizerStays
  <2>4. In(s) \in Lowers /\ SizeUpper(s) \in Uppers /\ upper[SizeUpper(s)].lower = In(s) BY <2>2, SizerNow
  <2>5. In(s) # None BY <2>4, NoneAssumption
  <2>6. lsize'[In(s)] = lsize[In(s)] BY <2>4 DEF CalmLowers
  <2>7. upper'[SizeUpper(s)].size = upper[SizeUpper(s)].size BY <2>3, <2>4, <2>5 DEF CalmUppers
  <2>8. SizerOK(s) BY <2>2 DEF SizeInv, SizersOK
  <2> QED BY <2>1, <2>2, <2>3, <2>6, <2>7, <2>8
<1>4. ASSUME NEW s \in Tasks, job'[s].op \in SizeOps, job'[s].alone,
             NEW r \in Tasks, job'[r].op \in SizeOps, In(r)' = In(s)'
      PROVE  r = s
  <2>1. SizerOK(s) /\ job[s].alone /\ In(s)' = In(s) BY <1>3, <1>4
  <2>2. job[r].op \in SizeOps /\ In(r)' = In(r) BY <1>3, <1>4
  <2> QED BY <1>4, <2>1, <2>2 DEF SizerOK
<1>5. ASSUME NEW s \in Tasks \ A, job'[s].op \in SizeOps PROVE SizerOK(s)'
  <2>1. /\ job'[s].alone = job[s].alone /\ In(s)' = In(s) /\ SizerOK(s)
        /\ lsize'[In(s)] = lsize[In(s)] /\ upper'[SizeUpper(s)].size = upper[SizeUpper(s)].size
    BY <1>3, <1>5
  <2>2. job'[s].alone => \A t \in A : job'[t].op \in SizeOps => In(t)' # In(s) BY <1>1, <1>4, <1>5, <2>1
  <2>3. ~job'[s].alone => In(s) \in torn' BY <2>1 DEF SizerOK, CalmLowers
  <2>4. job'[s].alone => job[s].alone BY <2>1
  <2>5. In(s) \in Bad => In(s) \in Bad' BY <1>2
  <2>6. \A r \in Tasks \ A : Keeps(r) BY <1>1
  <2> QED BY <1>1, <1>5, <2>1, <2>2, <2>3, <2>4, <2>5, <2>6, OtherOK
<1>6. ASSUME NEW s \in A, job'[s].op \in SizeOps PROVE SizerOK(s)'
  <2>1. s \in Tasks /\ pc'[s] \notin Unsteady /\ (pc'[s] \in Linking => pc[s] \in Linking) BY <1>1, <1>6 DEF CalmTasks
  <2>2. /\ SameFile(s) /\ job'[s].alone = job[s].alone /\ job'[s].size = job[s].size
        /\ In(s)' = In(s) /\ SizerOK(s) /\ lsize'[In(s)] = lsize[In(s)]
    BY <1>3, <1>6, <2>1
  <2>3. pc'[s] # "setsize" /\ pc'[s] # "notify" BY <2>1 DEF Unsteady
  <2>4. ~job'[s].alone => In(s)' \in torn' BY <2>2 DEF SizerOK, CalmLowers
  <2>5. job'[s].alone => \A r \in Tasks : job'[r].op \in SizeOps /\ In(r)' = In(s)' => r = s BY <1>4, <1>6, <2>1
  <2>6. job'[s].alone /\ job'[s].op = "link" /\ In(s)' \notin Bad' => job'[s].size = lsize'[In(s)']
    BY <1>2, <2>2 DEF SizerOK, SameFile
  <2>7. ASSUME job'[s].op = "link", pc'[s] \in Linking PROVE LowerInode(s)' = In(s)'
    <3>1. job[s].op = "link" /\ pc[s] \in Linking /\ job'[s].d = job[s].d BY <2>1, <2>2, <2>7 DEF SameFile
    <3>2. LowerInode(s)' = LowerInode(s) BY <2>1, <2>7, <3>1, LinkStays
    <3> QED BY <2>2, <3>1, <3>2 DEF SizerOK
  <2> QED BY <2>3, <2>4, <2>5, <2>6, <2>7 DEF SizerOK
<1>7. SizersOK' BY <1>1, <1>5, <1>6 DEF SizersOK
<1>8. ASSUME NEW u \in Uppers, NEW k, k = upper'[u].lower, k # None, k \notin Bad', Steady(k)'
      PROVE  upper'[u].size = lsize'[k]
  <2>1. CASE upper[u].lower = k /\ upper'[u].size = upper[u].size
    <3>1. k \in Lowers
      <4>1. upper[u] \in UpperRecords BY DEF IInv, Inv, Types
      <4> QED BY <1>8, <2>1, <4>1 DEF UpperRecords
    <3>2. lsize'[k] = lsize[k] BY <2>1, <3>1 DEF CalmLowers
    <3>3. \A t \in A : job[t].op \in SizeOps /\ In(t) = k => pc[t] \notin Unsteady BY DEF CalmTasks
    <3>4. \A r \in Tasks \ A : Keeps(r) BY <1>1
    <3>5. k \in Bad => k \in Bad' BY <1>2
    <3> QED BY <1>1, <1>8, <2>1, <3>2, <3>3, <3>4, <3>5, SteadyKept
  <2> QED BY <1>8, <2>1 DEF CalmUppers
<1>9. SteadyAgree' BY <1>8 DEF SteadyAgree
<1> QED BY <1>7, <1>9 DEF SizeInv

\* The steps by their kinds: none is taken between the changes of two sizes.
LEMMA CalmKinds ==
  ASSUME IInv, Next, NEW t \in Tasks, Begins(t) \/ Ends(t) \/ StepsOn(t) \/ Turns(t)
  PROVE  CalmTasks({t})
<1>1. OpAt(pc[t], job[t].op) /\ OpAt(pc'[t], job'[t].op)
  <2>1. TaskOK(dent, upper, ldent, file, pc[t], job[t]) BY DEF IInv, Inv, TasksOK
  <2>2. ThenInv BY ThenHolds
  <2>3. TaskOK(dent', upper', ldent', file', pc'[t], job'[t]) BY <2>2 DEF ThenInv, Inv, TasksOK
  <2> QED BY <2>1, <2>3 DEF TaskOK, Shape
<1>2. \A r \in Tasks \ {t} : pc'[r] = pc[r] /\ job'[r] = job[r] BY DEF Begins, Ends, StepsOn, Turns, Others
<1>3. job[t].op \in SizeOps => pc[t] \notin Unsteady
  BY <1>1 DEF Begins, Ends, StepsOn, Turns, OpAt, SizeOps, Unsteady
<1>4. ASSUME job'[t].op \in SizeOps
      PROVE  /\ SameSize(job[t], job'[t]) /\ pc'[t] \notin Unsteady
             /\ pc'[t] \in Linking => pc[t] \in Linking
  <2>1. StepsOn(t) BY <1>4 DEF Begins, Ends, Turns, SizeOps
  <2>2. SameSize(job[t], job'[t]) /\ job'[t].op = job[t].op BY <2>1 DEF StepsOn, SameSize
  <2>3. job[t].op = "link" /\ pc[t] \in {"iget", "grab", "splice"}
    BY <1>1, <1>4, <2>1, <2>2 DEF StepsOn, OpAt, SizeOps
  <2>4. pc'[t] \notin Unsteady BY <1>1, <2>2, <2>3 DEF OpAt, Unsteady
  <2> QED BY <2>2, <2>3, <2>4 DEF Linking
<1> QED BY <1>2, <1>3, <1>4 DEF CalmTasks

\* What a step changes of the sizes below, and of the history of changes.
SameLowers == lsize' = lsize /\ torn' = torn /\ cut' = cut

LEMMA LowersStay ==
  ASSUME \/ \E t \in Tasks : \/ trfs_lookup(t) \/ new_dentry_private_data(t) \/ LookupLower(t) \/ iget5_locked(t)
                             \/ trfs_iget(t) \/ d_splice_alias(t) \/ LookupReturn(t) \/ CreateReturn(t)
                             \/ trfs_unlink(t) \/ VfsUnlink(t) \/ UnlinkReturn(t)
                             \/ trfs_d_revalidate(t) \/ trfs_statfs(t) \/ trfs_getattr(t) \/ trfs_setattr(t)
                             \/ trfs_setxattr(t) \/ trfs_readlink(t) \/ trfs_fsync(t) \/ trfs_put_lower_path(t)
                             \/ trfs_open(t) \/ OpenReturn(t) \/ trfs_mmap(t) \/ MmapReturn(t) \/ WriteReturn(t)
         \/ \E f \in Files : trfs_file_release(f) \/ Munmap(f)
         \/ \E d \in Dents : Prune(d)
         \/ \E x \in LDents : LowerUnlink(x)
  PROVE  SameLowers
<1>1. ASSUME NEW dn, NEW rf, Settle(dn, ldent, rf, iref) PROVE SameLowers BY <1>1, SettleUppers DEF SameLowers
<1> DEFINE Clears == \E dn, rf : Settle(dn, ldent, rf, iref)
<1>2. Clears => SameLowers BY <1>1
<1> HIDE DEF Clears
<1>3. ASSUME NEW t \in Tasks,
             \/ trfs_lookup(t) \/ LookupReturn(t) \/ CreateReturn(t) \/ UnlinkReturn(t) \/ trfs_put_lower_path(t)
             \/ OpenReturn(t) \/ MmapReturn(t) \/ WriteReturn(t)
      PROVE  SameLowers
  <2>1. trfs_lookup(t) => Clears BY DEF trfs_lookup, Clears
  <2>2. LookupReturn(t) => Clears BY DEF LookupReturn, Clears
  <2>3. CreateReturn(t) => Clears BY DEF CreateReturn, Clears
  <2>4. UnlinkReturn(t) => Clears BY DEF UnlinkReturn, Clears
  <2>5. trfs_put_lower_path(t) => Clears BY DEF trfs_put_lower_path, Clears
  <2>6. OpenReturn(t) => Clears BY DEF OpenReturn, Clears
  <2>7. MmapReturn(t) => Clears BY DEF MmapReturn, Clears
  <2>8. WriteReturn(t) => Clears BY DEF WriteReturn, Clears
  <2> QED BY <1>2, <1>3, <2>1, <2>2, <2>3, <2>4, <2>5, <2>6, <2>7, <2>8
<1>4. ASSUME NEW t \in Tasks,
             \/ new_dentry_private_data(t) \/ LookupLower(t) \/ iget5_locked(t) \/ trfs_iget(t) \/ d_splice_alias(t)
             \/ trfs_unlink(t) \/ VfsUnlink(t) \/ trfs_open(t) \/ trfs_mmap(t)
      PROVE  SameLowers
  <2> USE DEF SameLowers, aside
  <2>1. new_dentry_private_data(t) => SameLowers BY DEF new_dentry_private_data
  <2>2. LookupLower(t) => SameLowers BY DEF LookupLower
  <2>3. iget5_locked(t) => SameLowers BY DEF iget5_locked
  <2>4. trfs_iget(t) => SameLowers BY DEF trfs_iget
  <2>5. d_splice_alias(t) => SameLowers BY DEF d_splice_alias
  <2>6. trfs_unlink(t) => SameLowers BY DEF trfs_unlink
  <2>7. VfsUnlink(t) => SameLowers BY DEF VfsUnlink
  <2>8. trfs_open(t) => SameLowers BY DEF trfs_open
  <2>9. trfs_mmap(t) => SameLowers BY DEF trfs_mmap
  <2> QED BY <1>4, <2>1, <2>2, <2>3, <2>4, <2>5, <2>6, <2>7, <2>8, <2>9
<1>5. ASSUME NEW t \in Tasks,
             \/ trfs_d_revalidate(t) \/ trfs_statfs(t) \/ trfs_getattr(t) \/ trfs_setattr(t)
             \/ trfs_setxattr(t) \/ trfs_readlink(t) \/ trfs_fsync(t)
      PROVE  SameLowers
  <2>1. ASSUME NEW o, PathCall(t, o) PROVE SameLowers
    BY <2>1 DEF PathCall, trfs_get_lower_path, aside, SameLowers
  <2>2. trfs_fsync(t) => SameLowers BY DEF trfs_fsync, trfs_get_lower_path, aside, SameLowers
  <2> QED BY <1>5, <2>1, <2>2, Revalidates DEF trfs_statfs, trfs_getattr, trfs_setattr, trfs_setxattr,
                                  trfs_readlink
<1>6. ASSUME NEW f \in Files, trfs_file_release(f) \/ Munmap(f) PROVE SameLowers
  <2>1. trfs_file_release(f) => Clears BY DEF trfs_file_release, Clears
  <2>2. Munmap(f) => SameLowers BY DEF Munmap, aside, SameLowers
  <2> QED BY <1>2, <1>6, <2>1, <2>2
<1>7. ASSUME NEW d \in Dents, Prune(d) PROVE SameLowers
  <2>1. Clears BY <1>7 DEF Prune, Clears
  <2> QED BY <1>2, <2>1
<1>8. ASSUME NEW x \in LDents, LowerUnlink(x) PROVE SameLowers BY <1>8 DEF LowerUnlink, aside, SameLowers
<1> QED BY <1>3, <1>4, <1>5, <1>6, <1>7, <1>8

\* The steps that change a size that is there already, or may.
Changes(t) ==
  \/ trfs_write(t) \/ AioDone(t) \/ CopySize(t) \/ Truncate(t) \/ notify_change(t) \/ trfs_link(t) \/ RestoreSize(t)

\* All others keep the invariant.
LEMMA CalmSteps ==
  ASSUME IInv, Next, SizeInv, \A t \in Tasks : ~Changes(t)
  PROVE  SizeInv'
<1>1. NowInv /\ raced \subseteq raced'
  <2>1. NowInv BY DEF IInv, NowInv
  <2> QED BY <2>1, Framed
<1>2. \E A : CalmTasks(A)
  <2>1. Idles => CalmTasks({}) BY DEF Idles, CalmTasks
  <2>2. ASSUME NEW t \in Tasks, Begins(t) \/ Ends(t) \/ StepsOn(t) \/ Turns(t) PROVE \E A : CalmTasks(A)
    BY <2>2, CalmKinds
  <2> QED BY <1>1, <2>1, <2>2, BeginKinds, EndKinds, StepKinds, TurnKind, IdleKinds DEF Next, Changes
<1>3. CalmUppers
  <2>1. UpperFrame(upper') => CalmUppers BY DEF UpperFrame, CalmUppers
  <2>2. ASSUME NEW t \in Tasks, NEW v, NEW i, GrabStep(t, v, i) PROVE CalmUppers
    <3>1. /\ \A u \in Uppers : u # v => upper'[u] = upper[u]
          /\ upper[v].lower = None /\ upper'[v].lower = i /\ upper'[v].size = lsize[i] /\ lsize' = lsize
      BY <2>2 DEF GrabStep
    <3> QED BY <3>1 DEF CalmUppers
  <2> QED BY <2>1, <2>2, UppersFramed DEF Changes
<1>4. CalmLowers
  <2>1. SameLowers => CalmLowers BY <1>1 DEF SameLowers, CalmLowers
  <2>2. ASSUME NEW t \in Tasks, trfs_create(t) PROVE CalmLowers
    <3>1. torn' = torn /\ cut' = cut BY <2>2 DEF trfs_create, aside
    <3>2. \/ lsize' = lsize
          \/ \E i \in Lowers : Cached(i) = {} /\ lsize' = [lsize EXCEPT ![i] = 0]
      BY <2>2 DEF trfs_create
    <3>3. lsize \in [Lowers -> Nat] BY DEF IInv, Numbers
    <3>4. CASE lsize' = lsize BY <1>1, <3>1, <3>4 DEF CalmLowers
    <3>5. ASSUME NEW i \in Lowers, Cached(i) = {}, lsize' = [lsize EXCEPT ![i] = 0] PROVE CalmLowers
      <4>1. \A k \in Lowers : k # i => lsize'[k] = lsize[k] BY <3>3, <3>5
      <4>2. \A u \in Uppers : upper[u].lower # i BY <3>5 DEF Cached
      <4> QED BY <1>1, <3>1, <4>1, <4>2 DEF CalmLowers
    <3> QED BY <3>2, <3>4, <3>5
  <2> QED BY <2>1, <2>2, LowersStay DEF Next, Changes
<1> QED BY <1>2, <1>3, <1>4, CalmKept

-----------------------------------------------------------------------------
(* The steps with which a task begins to change a size *)

\* Task t begins to change the size of i; if m, it does not copy the lower one.
Enters(t, j, i, m) ==
  /\ Joined(t, j, i, m) /\ j.op \in SizeOps /\ Leads(SizerDent(j), i)
  /\ job[t].op \notin SizeOps /\ \A r \in Tasks : r # t => pc'[r] = pc[r]

\* Then it is alone if there is no other; who was alone before is not any more.
LEMMA EnterFacts ==
  ASSUME IInv, Next, SizeInv, NEW t \in Tasks, NEW j, NEW i, NEW m, Enters(t, j, i, m)
  PROVE  /\ job'[t].op = j.op /\ job'[t].size = j.size /\ In(t)' = i /\ SizeUpper(t)' = dent[SizerDent(j)].inode
         /\ \A r \in Tasks \ {t} : Keeps(r) /\ (job'[r].alone => job[r].alone)
         /\ \A r \in Tasks \ {t} : job[r].op \in SizeOps /\ In(r) = i => ~job'[r].alone /\ ~job'[t].alone
         /\ \A r \in Tasks \ {t} : job[r].op \in SizeOps /\ ~job'[r].alone => In(r) \in torn'
         /\ ~job'[t].alone => i \in torn'
         /\ \A k : k \in Bad => k \in Bad'
<1>1. /\ SameJob(j, job'[t]) /\ job'[t].size = j.size /\ (job'[t].alone <=> Sizing(i) = {})
      /\ \A s \in Tasks : s # t => /\ SameJob(job[s], job'[s]) /\ job'[s].size = job[s].size
                                   /\ job'[s].alone <=> job[s].alone /\ s \notin Sizing(i)
      /\ torn' = (IF Sizing(i) = {} /\ ~m THEN torn ELSE torn \cup {i}) /\ raced' = raced /\ cut' = cut
      /\ j.op \in SizeOps /\ Leads(SizerDent(j), i) /\ \A r \in Tasks : r # t => pc'[r] = pc[r]
  BY DEF Enters, Joined
<1>2. job'[t].op = j.op /\ job'[t].op \in SizeOps /\ SizerDent(job'[t]) = SizerDent(j)
  BY <1>1 DEF SameJob, SizerDent
<1>3. Leads(SizerDent(job'[t]), i) BY <1>1, <1>2
<1>4. In(t)' = i /\ SizeUpper(t)' = dent[SizerDent(j)].inode BY <1>2, <1>3, SizerLeads
<1>5. \A r \in Tasks \ {t} : Keeps(r) /\ (job'[r].alone => job[r].alone) BY <1>1 DEF Keeps, SameFile, SameJob
<1>6. \A r \in Tasks : r \in Sizing(i) <=> job[r].op \in SizeOps /\ In(r) = i BY DEF Sizing, In, SizeOps
<1>7. \A r \in Tasks \ {t} : job[r].op \in SizeOps /\ In(r) = i => ~job'[r].alone /\ ~job'[t].alone BY <1>1, <1>6
<1>8. ~job'[t].alone => i \in torn' BY <1>1
<1>9. \A k : k \in Bad => k \in Bad' BY <1>1 DEF Bad
<1>10. ASSUME NEW r \in Tasks \ {t}, job[r].op \in SizeOps, ~job'[r].alone PROVE In(r) \in torn'
  <2>1. CASE job[r].alone
    <3>1. r \in Sizing(i) BY <1>1, <1>10, <2>1
    <3>2. In(r) = i /\ Sizing(i) # {} BY <1>6, <3>1
    <3> QED BY <1>1, <3>2
  <2>2. CASE ~job[r].alone
    <3>1. In(r) \in torn BY <1>10, <2>2 DEF SizeInv, SizersOK, SizerOK
    <3> QED BY <1>1, <3>1
  <2> QED BY <2>1, <2>2
<1> QED BY <1>1, <1>2, <1>4, <1>5, <1>7, <1>8, <1>9, <1>10

\* Such a step keeps the invariant, if it changes the sizes of no other inode
\* and both of this one are known to be changed, or it is left out from now on.
LEMMA EnterKept ==
  ASSUME IInv, Next, SizeInv, NEW t \in Tasks, NEW j, NEW i, NEW m, Enters(t, j, i, m),
         \A k \in Lowers : k # i => lsize'[k] = lsize[k],
         \A u \in Uppers : upper'[u].lower = upper[u].lower /\ (upper[u].lower # i => upper'[u].size = upper[u].size),
         \/ pc'[t] \in Unsteady
         \/ lsize'[i] = lsize[i] /\ \A u \in Uppers : upper'[u].size = upper[u].size
         \/ i \in torn',
         pc'[t] # "setsize", pc'[t] = "notify" => upper'[dent[SizerDent(j)].inode].size = 0,
         j.op = "link" /\ job'[t].alone /\ i \notin Bad' => j.size = lsize'[i],
         j.op = "link" /\ pc'[t] \in Linking => LowerInode(t)' = i
  PROVE  SizeInv'
<1>1. /\ job'[t].op = j.op /\ job'[t].size = j.size /\ In(t)' = i /\ SizeUpper(t)' = dent[SizerDent(j)].inode
      /\ \A r \in Tasks \ {t} : Keeps(r) /\ (job'[r].alone => job[r].alone)
      /\ \A r \in Tasks \ {t} : job[r].op \in SizeOps /\ In(r) = i => ~job'[r].alone /\ ~job'[t].alone
      /\ \A r \in Tasks \ {t} : job[r].op \in SizeOps /\ ~job'[r].alone => In(r) \in torn'
      /\ ~job'[t].alone => i \in torn'
      /\ \A k : k \in Bad => k \in Bad'
  BY EnterFacts
<1>2. job'[t].op \in SizeOps /\ job[t].op \notin SizeOps BY <1>1 DEF Enters
<1>3. ASSUME NEW s \in Tasks \ {t}, job'[s].op \in SizeOps PROVE SizerOK(s)'
  <2>1. Keeps(s) /\ job[s].op \in SizeOps /\ SameFile(s) BY <1>1, <1>3 DEF Keeps, SameFile
  <2>2. In(s) \in Lowers /\ SizeUpper(s) \in Uppers /\ upper[SizeUpper(s)].lower = In(s) BY <2>1, SizerNow
  <2>3. job'[s].alone => In(s) # i BY <1>1, <2>1
  <2>4. job'[s].alone => /\ \A r \in {t} : job'[r].op \in SizeOps => In(r)' # In(s)
                         /\ lsize'[In(s)] = lsize[In(s)]
                         /\ upper'[SizeUpper(s)].size = upper[SizeUpper(s)].size
                         /\ In(s) \in Bad => In(s) \in Bad'
    BY <1>1, <2>2, <2>3
  <2>5. job'[s].alone => job[s].alone BY <1>1
  <2>6. ~job'[s].alone => In(s) \in torn' BY <1>1, <2>1
  <2>7. \A r \in Tasks \ {t} : Keeps(r) BY <1>1
  <2>8. {t} \in SUBSET Tasks OBVIOUS
  <2> QED BY <1>3, <2>4, <2>5, <2>6, <2>7, <2>8, OtherOK
<1>4. SizerOK(t)'
  <2>1. ASSUME job'[t].alone, NEW r \in Tasks, job'[r].op \in SizeOps, In(r)' = i PROVE r = t
    <3> SUFFICES ASSUME r # t PROVE FALSE OBVIOUS
    <3>1. SameFile(r) /\ job[r].op \in SizeOps BY <1>1, <2>1 DEF Keeps, SameFile
    <3>2. In(r) = i BY <2>1, <3>1, SizerStays
    <3> QED BY <1>1, <2>1, <3>1, <3>2
  <2> QED BY <1>1, <2>1 DEF SizerOK
<1>5. SizersOK' BY <1>3, <1>4 DEF SizersOK
<1>6. ASSUME NEW u \in Uppers, NEW k, k = upper'[u].lower, k # None, k \notin Bad', Steady(k)'
      PROVE  upper'[u].size = lsize'[k]
  <2>1. upper[u].lower = k /\ k \in Lowers
    <3>1. upper[u] \in UpperRecords BY DEF IInv, Inv, Types
    <3> QED BY <1>6, <3>1 DEF UpperRecords
  <2>2. CASE lsize'[k] = lsize[k] /\ upper'[u].size = upper[u].size
    <3>1. \A r \in Tasks \ {t} : Keeps(r) BY <1>1
    <3>2. {t} \in SUBSET Tasks OBVIOUS
    <3>3. \A r \in {t} : job[r].op \in SizeOps /\ In(r) = k => pc[r] \notin Unsteady BY <1>2
    <3>4. k \in Bad => k \in Bad' BY <1>1
    <3> QED BY <1>6, <2>1, <2>2, <3>1, <3>2, <3>3, <3>4, SteadyKept
  <2>3. CASE k = i /\ pc'[t] \in Unsteady BY <1>1, <1>2, <1>6, <2>3 DEF Steady
  <2>4. CASE k = i /\ i \in torn' BY <1>6, <2>4 DEF Bad
  <2> QED BY <2>1, <2>2, <2>3, <2>4
<1>7. SteadyAgree' BY <1>6 DEF SteadyAgree
<1> QED BY <1>5, <1>7 DEF SizeInv

\* trfs_write, and the end of a queued write.
LEMMA WriteKept == ASSUME IInv, Next, SizeInv, NEW t \in Tasks, trfs_write(t) \/ AioDone(t) PROVE SizeInv'
<1>1. NowInv BY DEF IInv, NowInv
<1>2. PICK j, i : \E q \in {"getsize", "written"}, g \in BOOLEAN : WriteStep(t, j, i, q, g) BY <1>1, WriteIs
<1>3. PICK q \in {"getsize", "written"}, g \in BOOLEAN : WriteStep(t, j, i, q, g) BY <1>2
<1>4. PICK m \in BOOLEAN : m = (g /\ q = "written") OBVIOUS
<1>5. /\ pc[t] = "idle" /\ Joined(t, j, i, m) /\ j.op = "write" /\ Leads(j.d, i) /\ Went(t, q)
      /\ lsize' = (IF g THEN [lsize EXCEPT ![i] = @ + 1] ELSE lsize) /\ upper' = upper
  BY <1>3, <1>4 DEF WriteStep
<1>6. Enters(t, j, i, m)
  <2>1. OpAt(pc[t], job[t].op) BY <1>1, Now
  <2>2. job[t].op \notin SizeOps BY <1>5, <2>1 DEF OpAt, SizeOps
  <2>3. SizerDent(j) = j.d /\ j.op \in SizeOps BY <1>5 DEF SizerDent, SizeOps
  <2> QED BY <1>5, <2>2, <2>3 DEF Enters, Went
<1>7. \A k \in Lowers : k # i => lsize'[k] = lsize[k]
  <2>1. lsize \in [Lowers -> Nat] BY DEF IInv, Numbers
  <2> QED BY <1>5, <2>1
<1>8. \/ pc'[t] = "getsize"
      \/ pc'[t] = "written" /\ lsize' = lsize
      \/ pc'[t] = "written" /\ m
  BY <1>4, <1>5 DEF Went
<1>9. m => i \in torn' BY <1>5 DEF Joined
<1>10. pc'[t] # "setsize" /\ pc'[t] # "notify" BY <1>8
<1>11. \/ pc'[t] \in Unsteady
       \/ lsize'[i] = lsize[i] /\ \A u \in Uppers : upper'[u].size = upper[u].size
       \/ i \in torn'
  <2>1. upper' = upper BY <1>5
  <2>2. pc'[t] = "getsize" => pc'[t] \in Unsteady BY DEF Unsteady
  <2> QED BY <1>8, <1>9, <2>1, <2>2
<1> QED BY <1>5, <1>6, <1>7, <1>10, <1>11, EnterKept

\* trfs_setattr with a new size, up to truncate_setsize.
LEMMA TruncateKept == ASSUME IInv, Next, SizeInv, NEW t \in Tasks, Truncate(t) PROVE SizeInv'
<1>1. NowInv BY DEF IInv, NowInv
<1>2. PICK j, i : TruncateStep(t, j, i) BY <1>1, TruncateIs
<1>3. PICK v : v = dent[j.d].inode OBVIOUS
<1>4. /\ pc[t] = "idle" /\ Joined(t, j, i, FALSE) /\ j.op = "truncate" /\ Leads(j.d, i) /\ Went(t, "notify")
      /\ lsize' = lsize /\ upper' = [upper EXCEPT ![v].size = 0]
  BY <1>2, <1>3 DEF TruncateStep
<1>5. SizerDent(j) = j.d /\ j.op \in SizeOps BY <1>4 DEF SizerDent, SizeOps
<1>6. Enters(t, j, i, FALSE)
  <2>1. OpAt(pc[t], job[t].op) BY <1>1, Now
  <2>2. job[t].op \notin SizeOps BY <1>4, <2>1 DEF OpAt, SizeOps
  <2> QED BY <1>4, <1>5, <2>2 DEF Enters, Went
<1>7. v \in Uppers /\ upper[v].lower = i
  <2>1. j.d \in Dents /\ dent[j.d] # None /\ dent[j.d].inode # None /\ ldent[dent[j.d].lower].ino = i
    BY <1>4 DEF Leads
  <2> QED BY <1>1, <1>3, <2>1, PositiveFacts
<1>8. /\ upper'[v].size = 0
      /\ \A u \in Uppers : upper'[u].lower = upper[u].lower /\ (upper[u].lower # i => upper'[u].size = upper[u].size)
  <2>1. upper \in [Uppers -> UpperRecords] BY <1>1, Now DEF Types
  <2>2. \A r \in UpperRecords : [r EXCEPT !.size = 0].lower = r.lower /\ [r EXCEPT !.size = 0].size = 0
    BY DEF UpperRecords
  <2>3. \A u \in Uppers : upper'[u] = IF u = v THEN [upper[u] EXCEPT !.size = 0] ELSE upper[u] BY <1>4, <2>1
  <2> QED BY <1>7, <2>1, <2>2, <2>3
<1>9. pc'[t] = "notify" /\ pc'[t] \in Unsteady BY <1>4 DEF Went, Unsteady
<1>10. upper'[dent[SizerDent(j)].inode].size = 0 BY <1>3, <1>5, <1>8
<1> QED BY <1>4, <1>6, <1>8, <1>9, <1>10, EnterKept

\* trfs_link, which saves the size.
LEMMA LinkKept == ASSUME IInv, Next, SizeInv, NEW t \in Tasks, trfs_link(t) PROVE SizeInv'
<1>1. NowInv BY DEF IInv, NowInv
<1>2. PICK j, i, x : LinkStep(t, j, i, x) BY <1>1, LinkIs
<1>3. /\ pc[t] = "negative" /\ Joined(t, j, i, FALSE) /\ j.op = "link" /\ j.d = job[t].d /\ Leads(j.old, i)
      /\ j.size = upper[dent[j.old].inode].size
      /\ x = dent[job[t].d].lower /\ x \in LDents
      /\ dent' = dent /\ upper' = upper /\ lsize' = lsize
      /\ \/ Went(t, "failed") /\ ldent' = ldent
         \/ Went(t, "iget") /\ ldent[x].ino = None /\ \E r : OneLower(ldent', x, r) /\ r.ino = i
  BY <1>2 DEF LinkStep
<1>4. SizerDent(j) = j.old /\ j.op \in SizeOps BY <1>3 DEF SizerDent, SizeOps
<1>5. Enters(t, j, i, FALSE)
  <2>1. OpAt(pc[t], job[t].op) BY <1>1, Now
  <2>2. job[t].op \notin SizeOps BY <1>3, <2>1 DEF OpAt, SizeOps
  <2> QED BY <1>3, <1>4, <2>2 DEF Enters, Went
<1>6. pc'[t] = "failed" \/ pc'[t] = "iget" BY <1>3 DEF Went
<1>7. pc'[t] # "setsize" /\ pc'[t] # "notify" BY <1>6
<1>8. ASSUME job'[t].alone, i \notin Bad' PROVE j.size = lsize'[i]
  <2>1. i \notin Bad /\ \A r \in Tasks \ {t} : job[r].op \in SizeOps => In(r) # i BY <1>5, <1>8, EnterFacts
  <2>2. job[t].op \notin SizeOps BY <1>5 DEF Enters
  <2>3. Steady(i) BY <2>1, <2>2 DEF Steady
  <2>4. dent[j.old].inode \in Uppers /\ upper[dent[j.old].inode].lower = i
    <3>1. /\ j.old \in Dents /\ dent[j.old] # None /\ dent[j.old].inode # None
          /\ ldent[dent[j.old].lower].ino = i
      BY <1>3 DEF Leads
    <3> QED BY <1>1, <3>1, PositiveFacts
  <2>5. i # None BY <1>3, NoneAssumption DEF Leads
  <2>6. upper[dent[j.old].inode].size = lsize[i] BY <2>1, <2>3, <2>4, <2>5 DEF SizeInv, SteadyAgree
  <2> QED BY <1>3, <2>6
<1>9. ASSUME pc'[t] \in Linking PROVE LowerInode(t)' = i
  <2>1. pc'[t] = "iget" BY <1>6, <1>9 DEF Linking
  <2>2. PICK r : OneLower(ldent', x, r) /\ r.ino = i BY <1>3, <2>1 DEF Went
  <2>3. ldent'[x].ino = i BY <2>2 DEF OneLower
  <2>4. job'[t].d = job[t].d BY <1>3 DEF Joined, SameJob
  <2> QED BY <1>3, <2>3, <2>4 DEF LowerInode, LowerOf, D
<1>10. \A k \in Lowers : k # i => lsize'[k] = lsize[k] BY <1>3
<1>11. \A u \in Uppers : /\ upper'[u].lower = upper[u].lower
                         /\ upper[u].lower # i => upper'[u].size = upper[u].size
  BY <1>3
<1>12. lsize'[i] = lsize[i] /\ \A u \in Uppers : upper'[u].size = upper[u].size BY <1>3
<1> QED BY <1>5, <1>7, <1>8, <1>9, <1>10, <1>11, <1>12, EnterKept

-----------------------------------------------------------------------------
(* The steps of a task that is changing a size *)

\* Task t goes on, and touches no inode but i and what is known of it.
GoesOn(t, i) ==
  /\ job[t].op \in SizeOps /\ In(t) = i
  /\ SameFile(t) /\ (job'[t].alone <=> job[t].alone)
  /\ \A r \in Tasks \ {t} : pc'[r] = pc[r] /\ job'[r] = job[r]
  /\ \A k \in Lowers : k # i => lsize'[k] = lsize[k]
  /\ \A u \in Uppers : upper'[u].lower = upper[u].lower /\ (upper[u].lower # i => upper'[u].size = upper[u].size)
  /\ raced' = raced /\ \A k : k # i => (k \in torn' <=> k \in torn) /\ (k \in cut' <=> k \in cut)
  /\ ~job[t].alone => torn' = torn

\* Such a step keeps the invariant, if the task does the right thing when it is
\* alone.
LEMMA GoneOn ==
  ASSUME IInv, Next, SizeInv, NEW t \in Tasks, NEW i, GoesOn(t, i),
         job'[t].alone /\ pc'[t] = "setsize" => job'[t].size = lsize'[i],
         pc'[t] # "notify", pc'[t] \notin Linking,
         job'[t].alone /\ job'[t].op = "link" /\ i \notin Bad' => job'[t].size = lsize'[i],
         job'[t].alone /\ i \notin Bad' /\ pc'[t] \notin Unsteady =>
           \A u \in Uppers : upper[u].lower = i => upper'[u].size = lsize'[i]
  PROVE  SizeInv'
<1>1. /\ job[t].op \in SizeOps /\ In(t) = i
      /\ SameFile(t) /\ (job'[t].alone <=> job[t].alone)
      /\ \A r \in Tasks \ {t} : pc'[r] = pc[r] /\ job'[r] = job[r]
      /\ \A k \in Lowers : k # i => lsize'[k] = lsize[k]
      /\ \A u \in Uppers : upper'[u].lower = upper[u].lower /\ (upper[u].lower # i => upper'[u].size = upper[u].size)
      /\ raced' = raced /\ \A k : k # i => (k \in torn' <=> k \in torn) /\ (k \in cut' <=> k \in cut)
      /\ ~job[t].alone => torn' = torn
  BY DEF GoesOn
<1>2. \A r \in Tasks \ {t} : Keeps(r) BY <1>1 DEF Keeps, SameFile
<1>3. In(t)' = i /\ job'[t].op \in SizeOps BY <1>1, SizerStays DEF SameFile
<1>4. SizerOK(t) BY <1>1 DEF SizeInv, SizersOK
<1>5. ~job[t].alone => i \in torn' BY <1>1, <1>4 DEF SizerOK
<1>6. \A k : k # i /\ k \in Bad => k \in Bad' BY <1>1 DEF Bad
<1>7. ASSUME NEW s \in Tasks \ {t}, job'[s].op \in SizeOps PROVE SizerOK(s)'
  <2>1. job'[s] = job[s] /\ job[s].op \in SizeOps BY <1>1, <1>7
  <2>2. In(s) \in Lowers /\ SizeUpper(s) \in Uppers /\ upper[SizeUpper(s)].lower = In(s) BY <2>1, SizerNow
  <2>3. SizerOK(s) BY <2>1 DEF SizeInv, SizersOK
  <2>4. job'[s].alone => job[s].alone BY <2>1
  <2>5. job'[s].alone => In(s) # i BY <1>1, <1>7, <2>1, <2>3 DEF SizerOK
  <2>6. ~job'[s].alone => In(s) \in torn'
    <3> SUFFICES ASSUME ~job'[s].alone PROVE In(s) \in torn' OBVIOUS
    <3>1. In(s) \in torn BY <2>1, <2>3 DEF SizerOK
    <3>2. CASE In(s) # i BY <1>1, <3>1, <3>2
    <3>3. CASE In(s) = i
      <4>1. ~job[t].alone BY <1>1, <1>4, <1>7, <2>1, <3>3 DEF SizerOK
      <4> QED BY <1>5, <3>3, <4>1
    <3> QED BY <3>2, <3>3
  <2>7. job'[s].alone => /\ \A r \in {t} : job'[r].op \in SizeOps => In(r)' # In(s)
                         /\ lsize'[In(s)] = lsize[In(s)]
                         /\ upper'[SizeUpper(s)].size = upper[SizeUpper(s)].size
                         /\ In(s) \in Bad => In(s) \in Bad'
    BY <1>1, <1>3, <1>6, <2>2, <2>5
  <2>8. {t} \in SUBSET Tasks OBVIOUS
  <2> QED BY <1>2, <1>7, <2>4, <2>6, <2>7, <2>8, OtherOK
<1>8. SizerOK(t)'
  <2>1. ASSUME job'[t].alone, NEW r \in Tasks, job'[r].op \in SizeOps, In(r)' = i PROVE r = t
    <3> SUFFICES ASSUME r # t PROVE FALSE OBVIOUS
    <3>1. SameFile(r) /\ job[r].op \in SizeOps BY <1>2, <2>1 DEF Keeps, SameFile
    <3>2. In(r) = i BY <2>1, <3>1, SizerStays
    <3> QED BY <1>1, <1>4, <2>1, <3>1, <3>2 DEF SizerOK
  <2> QED BY <1>1, <1>3, <1>5, <2>1 DEF SizerOK
<1>9. SizersOK' BY <1>7, <1>8 DEF SizersOK
<1>10. ASSUME NEW u \in Uppers, NEW k, k = upper'[u].lower, k # None, k \notin Bad', Steady(k)'
       PROVE  upper'[u].size = lsize'[k]
  <2>1. upper[u].lower = k /\ k \in Lowers
    <3>1. upper[u] \in UpperRecords BY DEF IInv, Inv, Types
    <3> QED BY <1>1, <1>10, <3>1 DEF UpperRecords
  <2>2. CASE k # i
    <3>1. {t} \in SUBSET Tasks OBVIOUS
    <3>2. \A r \in {t} : job[r].op \in SizeOps /\ In(r) = k => pc[r] \notin Unsteady BY <1>1, <2>2
    <3>3. k \in Bad => k \in Bad' BY <1>6, <2>2
    <3>4. upper'[u].size = upper[u].size /\ lsize'[k] = lsize[k] BY <1>1, <2>1, <2>2
    <3> QED BY <1>2, <1>10, <2>1, <3>1, <3>2, <3>3, <3>4, SteadyKept
  <2>3. CASE k = i
    <3>1. pc'[t] \notin Unsteady BY <1>3, <1>10, <2>3 DEF Steady
    <3>2. job'[t].alone BY <1>1, <1>5, <1>10, <2>3 DEF Bad
    <3> QED BY <1>10, <2>1, <2>3, <3>1, <3>2
  <2> QED BY <2>2, <2>3
<1>11. SteadyAgree' BY <1>10 DEF SteadyAgree
<1> QED BY <1>9, <1>11 DEF SizeInv

\* An inode without a twin.
LEMMA Sole ==
  ASSUME OneUpper, NEW i \in Lowers, i \notin raced, NEW u \in Uppers, NEW v \in Uppers,
         upper[u].lower = i, upper[v].lower = i
  PROVE  u = v
BY DEF OneUpper, Twins, Cached

\* What the upper inodes are after the size of one is set.
LEMMA OneSizeSet ==
  ASSUME NowInv, NEW v \in Uppers, NEW n, upper' = [upper EXCEPT ![v].size = n]
  PROVE  /\ upper'[v].size = n
         /\ \A u \in Uppers : upper'[u].lower = upper[u].lower /\ (u # v => upper'[u].size = upper[u].size)
<1>1. upper \in [Uppers -> UpperRecords] BY Now DEF Types
<1>2. \A r \in UpperRecords : [r EXCEPT !.size = n].lower = r.lower /\ [r EXCEPT !.size = n].size = n
  BY DEF UpperRecords
<1>3. \A u \in Uppers : upper'[u] = IF u = v THEN [upper[u] EXCEPT !.size = n] ELSE upper[u] BY <1>1
<1>4. PICK r : r = [upper[v] EXCEPT !.size = n] OBVIOUS
<1>5. r.lower = upper[v].lower /\ r.size = n BY <1>1, <1>2, <1>4
<1>6. upper'[v] = r /\ \A u \in Uppers : u # v => upper'[u] = upper[u] BY <1>3, <1>4
<1> QED BY <1>5, <1>6

\* A write or a truncation works on the lower inode of its own dentry.
LEMMA OwnDent ==
  ASSUME NowInv, NEW t \in Tasks, pc[t] \in {"getsize", "setsize", "notify"}
  PROVE  /\ job[t].op \in SizeOps /\ job[t].op # "link" /\ LowerInode(t) = In(t)
<1>1. OpAt(pc[t], job[t].op) BY Now
<1>2. job[t].op \in {"write", "truncate"} BY <1>1 DEF OpAt
<1> QED BY <1>2 DEF SizeOps, In, LowerInode, LowerOf, SizeDent

\* fsstack_copy_inode_size.
LEMMA CopyKept == ASSUME IInv, Next, SizeInv, OneUpper, NEW t \in Tasks, CopySize(t) PROVE SizeInv'
<1>1. NowInv BY DEF IInv, NowInv
<1>2. pc[t] \in {"getsize", "setsize"} BY DEF CopySize
<1>3. PICK i, v : i = In(t) /\ v = SizeUpper(t) OBVIOUS
<1>4. job[t].op \in SizeOps /\ job[t].op # "link" /\ LowerInode(t) = i BY <1>1, <1>2, <1>3, OwnDent
<1>5. i \in Lowers /\ v \in Uppers /\ upper[v].lower = i BY <1>3, <1>4, SizerNow
<1>6. lsize' = lsize /\ raced' = raced BY DEF CopySize
<1>7. job \in [Tasks -> JobRecords] /\ pc \in [Tasks -> Places] BY <1>1, Now DEF Types
<1>8. CASE pc[t] = "getsize" /\ job' = [job EXCEPT ![t].size = lsize[i]] /\ Goto(t, "setsize") /\ upper' = upper
           /\ torn' = torn /\ cut' = cut
  <2>1. Went(t, "setsize") BY <1>1, <1>8, InPlaces, GotoIs
  <2>2. pc'[t] = "setsize" /\ \A r \in Tasks \ {t} : pc'[r] = pc[r] BY <2>1 DEF Went
  <2>3. PICK k : k = [job[t] EXCEPT !.size = lsize[i]] OBVIOUS
  <2>4. /\ k.op = job[t].op /\ k.d = job[t].d /\ k.old = job[t].old /\ k.alone = job[t].alone /\ k.size = lsize[i]
    <3>1. job[t] \in JobRecords BY <1>7
    <3> QED BY <2>3, <3>1 DEF JobRecords
  <2>5. job'[t] = k /\ \A r \in Tasks \ {t} : job'[r] = job[r] BY <1>7, <1>8, <2>3
  <2>6. SameFile(t) /\ (job'[t].alone <=> job[t].alone) /\ job'[t].size = lsize'[i] /\ job'[t].op # "link"
    BY <1>4, <1>6, <2>4, <2>5 DEF SameFile
  <2>7. GoesOn(t, i) BY <1>3, <1>4, <1>6, <1>8, <2>2, <2>5, <2>6 DEF GoesOn
  <2>8. pc'[t] # "notify" /\ pc'[t] \notin Linking /\ pc'[t] \in Unsteady BY <2>2 DEF Linking, Unsteady
  <2> QED BY <2>6, <2>7, <2>8, GoneOn
<1>9. CASE /\ pc[t] = "setsize" /\ upper' = [upper EXCEPT ![v].size = job[t].size] /\ Goto(t, "written") /\ job' = job
           /\ torn' = (IF job[t].alone THEN torn \ {i} ELSE torn) /\ cut' = (IF job[t].alone THEN cut \ {i} ELSE cut)
  <2>1. Went(t, "written") BY <1>1, <1>9, InPlaces, GotoIs
  <2>2. pc'[t] = "written" /\ \A r \in Tasks \ {t} : pc'[r] = pc[r] BY <2>1 DEF Went
  <2>3. PICK n : n = job[t].size OBVIOUS
  <2>4. upper' = [upper EXCEPT ![v].size = n] BY <1>9, <2>3
  <2>5. /\ upper'[v].size = n
        /\ \A u \in Uppers : upper'[u].lower = upper[u].lower /\ (u # v => upper'[u].size = upper[u].size)
    BY <1>1, <1>5, <2>4, OneSizeSet
  <2>6. \A u \in Uppers : upper[u].lower # i => upper'[u].size = upper[u].size BY <1>5, <2>5
  <2>7. \A k : k # i => (k \in torn' <=> k \in torn) /\ (k \in cut' <=> k \in cut) BY <1>9
  <2>8. ~job[t].alone => torn' = torn BY <1>9
  <2>9. SameFile(t) BY <1>9 DEF SameFile
  <2>10. GoesOn(t, i) BY <1>3, <1>4, <1>6, <1>9, <2>2, <2>5, <2>6, <2>7, <2>8, <2>9 DEF GoesOn
  <2>11. pc'[t] # "notify" /\ pc'[t] \notin Linking /\ pc'[t] # "setsize" BY <2>2 DEF Linking
  <2>12. ASSUME job'[t].alone, i \notin Bad', NEW u \in Uppers, upper[u].lower = i PROVE upper'[u].size = lsize'[i]
    <3>1. i \notin raced BY <1>6, <2>12 DEF Bad
    <3>2. u = v BY <1>5, <2>12, <3>1, Sole
    <3>3. SizerOK(t) /\ job[t].alone BY <1>4, <1>9, <2>12 DEF SizeInv, SizersOK
    <3>4. job[t].size = lsize[i] BY <1>3, <1>9, <3>3 DEF SizerOK
    <3> QED BY <1>6, <2>3, <2>5, <3>2, <3>4
  <2>13. job'[t].op # "link" BY <1>4, <1>9
  <2> QED BY <2>10, <2>11, <2>12, <2>13, GoneOn
<1> QED BY <1>3, <1>4, <1>8, <1>9 DEF CopySize

\* notify_change below.
LEMMA NotifyKept == ASSUME IInv, Next, SizeInv, OneUpper, NEW t \in Tasks, notify_change(t) PROVE SizeInv'
<1>1. NowInv BY DEF IInv, NowInv
<1>2. pc[t] = "notify" /\ Goto(t, "path") /\ upper' = upper /\ job' = job /\ raced' = raced BY DEF notify_change
<1>3. PICK i, v : i = In(t) /\ v = SizeUpper(t) OBVIOUS
<1>4. job[t].op \in SizeOps /\ job[t].op # "link" /\ LowerInode(t) = i BY <1>1, <1>2, <1>3, OwnDent
<1>5. i \in Lowers /\ v \in Uppers /\ upper[v].lower = i BY <1>3, <1>4, SizerNow
<1>6. \/ /\ lsize' = [lsize EXCEPT ![i] = 0]
         /\ torn' = (IF job[t].alone THEN torn \ {i} ELSE torn) /\ cut' = (IF job[t].alone THEN cut \ {i} ELSE cut)
      \/ cut' = cut \cup {i} /\ lsize' = lsize /\ torn' = torn
  BY <1>4 DEF notify_change
<1>7. Went(t, "path") BY <1>1, <1>2, InPlaces, GotoIs
<1>8. pc'[t] = "path" /\ \A r \in Tasks \ {t} : pc'[r] = pc[r] BY <1>7 DEF Went
<1>9. lsize \in [Lowers -> Nat] BY DEF IInv, Numbers
<1>10. \A k \in Lowers : k # i => lsize'[k] = lsize[k] BY <1>6, <1>9
<1>11. \A k : k # i => (k \in torn' <=> k \in torn) /\ (k \in cut' <=> k \in cut) BY <1>6
<1>12. ~job[t].alone => torn' = torn BY <1>6
<1>13. SameFile(t) BY <1>2 DEF SameFile
<1>14. GoesOn(t, i) BY <1>2, <1>3, <1>4, <1>8, <1>10, <1>11, <1>12, <1>13 DEF GoesOn
<1>15. pc'[t] # "notify" /\ pc'[t] \notin Linking /\ pc'[t] # "setsize" BY <1>8 DEF Linking
<1>16. ASSUME job'[t].alone, i \notin Bad', NEW u \in Uppers, upper[u].lower = i PROVE upper'[u].size = lsize'[i]
  <2>1. i \notin raced /\ i \notin cut' BY <1>2, <1>16 DEF Bad
  <2>2. u = v BY <1>5, <1>16, <2>1, Sole
  <2>3. SizerOK(t) /\ job[t].alone BY <1>2, <1>4, <1>16 DEF SizeInv, SizersOK
  <2>4. upper[v].size = 0 BY <1>2, <1>3, <2>3 DEF SizerOK
  <2>5. lsize'[i] = 0 BY <1>5, <1>6, <1>9, <2>1
  <2> QED BY <1>2, <2>2, <2>4, <2>5
<1>17. job'[t].op # "link" BY <1>2, <1>4
<1> QED BY <1>14, <1>15, <1>16, <1>17, GoneOn

\* trfs_link writes the saved size back.
LEMMA RestoreKept == ASSUME IInv, Next, SizeInv, OneUpper, NEW t \in Tasks, RestoreSize(t) PROVE SizeInv'
<1>1. NowInv BY DEF IInv, NowInv
<1>2. PICK i, v, n, d : i = In(t) /\ v = dent[d].inode /\ n = job[t].size /\ d = job[t].d OBVIOUS
<1>3. /\ pc[t] = "linked" /\ Goto(t, "made") /\ upper' = [upper EXCEPT ![v].size = n] /\ job' = job
      /\ lsize' = lsize /\ torn' = torn /\ cut' = cut /\ raced' = raced
  BY <1>2 DEF RestoreSize, aside, D
<1>4. job[t].op = "link" /\ job[t].op \in SizeOps
  <2>1. OpAt(pc[t], job[t].op) BY <1>1, Now
  <2> QED BY <1>3, <2>1 DEF OpAt, SizeOps
<1>5. i \in Lowers BY <1>2, <1>4, SizerNow
<1>6. SizerOK(t) BY <1>4 DEF SizeInv, SizersOK
<1>7. v \in Uppers /\ upper[v].lower = i
  <2>1. pc[t] # "idle" BY <1>3
  <2>2. d \in Dents /\ dent[d] # None /\ TaskOK(dent, upper, ldent, file, pc[t], job[t]) BY <1>1, <1>2, <2>1, TaskFacts
  <2>3. pc[t] \notin Raw BY <1>3 DEF Raw
  <2>4. dent[d].inode # None BY <1>2, <2>1, <2>2, <2>3 DEF TaskOK
  <2>5. dent[d].inode \in Uppers /\ ldent[dent[d].lower].ino = upper[dent[d].inode].lower
    BY <1>1, <2>2, <2>4, PositiveFacts
  <2>6. LowerInode(t) = ldent[dent[d].lower].ino BY <1>2 DEF LowerInode, LowerOf, D
  <2>7. LowerInode(t) = i BY <1>2, <1>3, <1>4, <1>6 DEF SizerOK, Linking
  <2> QED BY <1>2, <2>5, <2>6, <2>7
<1>8. /\ upper'[v].size = n
      /\ \A u \in Uppers : upper'[u].lower = upper[u].lower /\ (u # v => upper'[u].size = upper[u].size)
  BY <1>1, <1>3, <1>7, OneSizeSet
<1>9. \A u \in Uppers : upper[u].lower # i => upper'[u].size = upper[u].size BY <1>7, <1>8
<1>10. Went(t, "made") BY <1>1, <1>3, InPlaces, GotoIs
<1>11. pc'[t] = "made" /\ \A r \in Tasks \ {t} : pc'[r] = pc[r] BY <1>10 DEF Went
<1>12. SameFile(t) BY <1>3 DEF SameFile
<1>13. GoesOn(t, i) BY <1>2, <1>3, <1>4, <1>8, <1>9, <1>11, <1>12 DEF GoesOn
<1>14. pc'[t] # "notify" /\ pc'[t] \notin Linking /\ pc'[t] # "setsize" BY <1>11 DEF Linking
<1>15. ASSUME job'[t].alone, i \notin Bad' PROVE job'[t].size = lsize'[i] /\ n = lsize'[i]
  <2>1. i \notin Bad BY <1>3, <1>15 DEF Bad
  <2> QED BY <1>2, <1>3, <1>4, <1>6, <1>15, <2>1 DEF SizerOK
<1>16. ASSUME job'[t].alone, i \notin Bad', NEW u \in Uppers, upper[u].lower = i PROVE upper'[u].size = lsize'[i]
  <2>1. i \notin raced BY <1>3, <1>16 DEF Bad
  <2>2. u = v BY <1>5, <1>7, <1>16, <2>1, Sole
  <2> QED BY <1>8, <1>15, <1>16, <2>2
<1> QED BY <1>13, <1>14, <1>15, <1>16, GoneOn

\* Every step keeps the invariant.
LEMMA SizeStep == IInv /\ OneUpper /\ SizeInv /\ [Next]_vars => SizeInv'
<1> SUFFICES ASSUME IInv, OneUpper, SizeInv, [Next]_vars PROVE SizeInv' OBVIOUS
<1>1. CASE UNCHANGED vars
  BY <1>1 DEF vars, SizeInv, SizersOK, SizerOK, SteadyAgree, Steady, Bad, In, SizeDent, SizeUpper, LowerInode, LowerOf, D
<1>2. CASE Next
  <2>1. ASSUME NEW t \in Tasks, Changes(t) PROVE SizeInv'
    BY <1>2, <2>1, WriteKept, CopyKept, TruncateKept, NotifyKept, LinkKept, RestoreKept DEF Changes
  <2> QED BY <1>2, <2>1, CalmSteps
<1> QED BY <1>1, <1>2

\* Nothing changes a size at the start, and there is no upper inode.
LEMMA SizeInit == Init => SizeInv
<1> SUFFICES ASSUME Init PROVE SizeInv OBVIOUS
<1>1. \A u \in Uppers : upper[u].lower = None BY DEF Init, NoUpper
<1>2. \A t \in Tasks : job[t].op \notin SizeOps BY DEF Init, NoJob, SizeOps
<1> QED BY <1>1, <1>2 DEF SizeInv, SizersOK, SteadyAgree

\* stat and lseek see the size that reads and writes see, once nothing is
\* changing it, unless changes overlapped, a write appended below and its error
\* or its delay kept the size from being copied, a truncation failed below or
\* the inode has a twin (trfs_iget, trfs_write, trfs_write_iter, trfs_setattr,
\* trfs_link).
THEOREM SizesMatch == Spec => []SizesAgree
<1>1. IInv /\ SizeInv => SizesAgree
  <2> SUFFICES ASSUME IInv, SizeInv, NEW u \in Uppers, NEW i, i = upper[u].lower, upper[u].state = "live", i \notin Bad,
                      Sizing(i) = {}
               PROVE  upper[u].size = lsize[i]
    BY DEF SizesAgree, Agree, Bad
  <2>1. Steady(i) BY DEF Steady, Sizing, In, SizeOps
  <2>2. i # None BY DEF IInv, Inv, UppersOK
  <2> QED BY <2>1, <2>2 DEF SizeInv, SteadyAgree
<1> QED BY <1>1, SizeInit, SizeStep, OneHolds, PTL DEF Spec

=============================================================================
