-------------------------- MODULE TrfsInodesProofs --------------------------
(***************************************************************************)
(* More proofs about the objects of a mount, on top of the invariant of    *)
(* TrfsObjectsProofs: the references on lower inodes balance, and a lower  *)
(* inode has one upper inode unless lookups of it overlapped.              *)
(***************************************************************************)
EXTENDS TrfsObjectsProofs

-----------------------------------------------------------------------------
(* References on lower inodes *)

\* What refers to lower inode i: lower dentries and upper inodes.
Entries(ld, i) == {x \in LDents : ld[x] # None /\ ld[x].ino = i}
Users(up, i) == {u \in Uppers : up[u].lower = i}

\* What lower dentry y and upper inode v add.
HE(ld, y, i) == IF y \in LDents /\ ld[y] # None /\ ld[y].ino = i THEN 1 ELSE 0
HU(up, v, i) == IF v \in Uppers /\ up[v].lower = i THEN 1 ELSE 0

\* LowerInodesCounted with the type of the history variable in it.
Balance(ld, up, ir, ov) ==
  /\ ov \in [Lowers -> Nat]
  /\ \A i \in Lowers : ir[i] + ov[i] = Cardinality(Entries(ld, i)) + Cardinality(Users(up, i))
Balanced == Balance(ldent, upper, iref, overput)

\* What a step that changes lower dentry y and upper inode v at most does.
Shift(y, v, ld, up, ir, ov) ==
  /\ ir \in [Lowers -> Int] /\ ov \in [Lowers -> Nat]
  /\ \A x \in LDents, i \in Lowers : x # y => (x \in Entries(ld, i) <=> x \in Entries(ldent, i))
  /\ \A u \in Uppers : u # v => up[u].lower = upper[u].lower
  /\ \A i \in Lowers : ir[i] + ov[i] = iref[i] + overput[i] + HE(ld, y, i) - HE(ldent, y, i)
                                           + HU(up, v, i) - HU(upper, v, i)

\* One number of a function is changed.
Plus(h, g, i, n) == h \in [Lowers -> Int] /\ \A k \in Lowers : h[k] = g[k] + IF k = i THEN n ELSE 0

SetTo(h, g, i, n) == /\ h = [k \in Lowers |-> h[k]]
                     /\ \A k \in Lowers : h[k] = IF k = i THEN g[k] + n ELSE g[k]

\* A function changed at one argument by n is the old one plus n there.
LEMMA NumberSet ==
  ASSUME NEW g \in [Lowers -> Int], NEW i, NEW n \in Int, NEW h, SetTo(h, g, i, n)
  PROVE  Plus(h, g, i, n)
<1>1. \A k \in Lowers : h[k] = IF k = i THEN g[k] + n ELSE g[k] BY DEF SetTo
<1>2. \A k \in Lowers : h[k] = g[k] + (IF k = i THEN n ELSE 0) /\ h[k] \in Int BY <1>1
<1>3. h = [k \in Lowers |-> h[k]] BY DEF SetTo
<1>4. h \in [Lowers -> Int] BY <1>2, <1>3
<1> QED BY <1>2, <1>4 DEF Plus

\* A step that changes lower dentry y and upper inode v at most.
LEMMA BalanceStep ==
  ASSUME Balanced, iref \in [Lowers -> Int], NEW y, NEW v, NEW ld, NEW up, NEW ir, NEW ov,
         Shift(y, v, ld, up, ir, ov)
  PROVE  Balance(ld, up, ir, ov)
<1> SUFFICES ASSUME NEW i \in Lowers
             PROVE  ir[i] + ov[i] = Cardinality(Entries(ld, i)) + Cardinality(Users(up, i))
  BY DEF Balance, Shift
<1> DEFINE A == Entries(ldent, i)  A2 == Entries(ld, i)  B == Users(upper, i)  B2 == Users(up, i)
<1>1. Cardinality(A) \in Nat /\ Cardinality(A2) = Cardinality(A) + HE(ld, y, i) - HE(ldent, y, i)
  <2>1. A \in SUBSET LDents /\ A2 \in SUBSET LDents /\ IsFiniteSet(LDents) BY FiniteAssumption DEF Entries
  <2>2. \A x \in LDents : x # y => (x \in A <=> x \in A2) BY DEF Shift
  <2>3. HE(ld, y, i) = (IF y \in A2 THEN 1 ELSE 0) /\ HE(ldent, y, i) = (IF y \in A THEN 1 ELSE 0)
    BY DEF Entries, HE
  <2> HIDE DEF A, A2
  <2> QED BY <2>1, <2>2, <2>3, CountStep
<1>2. Cardinality(B) \in Nat /\ Cardinality(B2) = Cardinality(B) + HU(up, v, i) - HU(upper, v, i)
  <2>1. B \in SUBSET Uppers /\ B2 \in SUBSET Uppers /\ IsFiniteSet(Uppers) BY FiniteAssumption DEF Users
  <2>2. \A u \in Uppers : u # v => (u \in B <=> u \in B2) BY DEF Users, Shift
  <2>3. HU(up, v, i) = (IF v \in B2 THEN 1 ELSE 0) /\ HU(upper, v, i) = (IF v \in B THEN 1 ELSE 0)
    BY DEF Users, HU
  <2> HIDE DEF B, B2
  <2> QED BY <2>1, <2>2, <2>3, CountStep
<1>3. HE(ld, y, i) \in Int /\ HE(ldent, y, i) \in Int /\ HU(up, v, i) \in Int /\ HU(upper, v, i) \in Int
  BY DEF HE, HU
<1>4. iref[i] + overput[i] = Cardinality(A) + Cardinality(B) BY DEF Balanced, Balance
<1>5. ir[i] + ov[i] = iref[i] + overput[i] + HE(ld, y, i) - HE(ldent, y, i) + HU(up, v, i) - HU(upper, v, i)
  BY DEF Shift
<1> HIDE DEF A, A2, B, B2
<1>6. ir[i] + ov[i] = Cardinality(A2) + Cardinality(B2) BY <1>1, <1>2, <1>3, <1>4, <1>5
<1> QED BY <1>6 DEF A2, B2

\* A step that leaves alone what refers to lower inodes.
LEMMA BalanceKept ==
  ASSUME Balanced, overput' = overput, iref' = iref,
         \A x \in LDents, i \in Lowers : x \in Entries(ldent', i) <=> x \in Entries(ldent, i),
         \A u \in Uppers : upper'[u].lower = upper[u].lower
  PROVE  Balanced'
<1>1. ASSUME NEW i \in Lowers PROVE Entries(ldent', i) = Entries(ldent, i) /\ Users(upper', i) = Users(upper, i)
  BY DEF Entries, Users
<1> QED BY <1>1 DEF Balanced, Balance, Entries, Users

\* The end of a step: what goes puts the references it had.
LEMMA BalanceSettled ==
  ASSUME Balanced, iref \in [Lowers -> Int], NEW dn, NEW rf, Settle(dn, ldent, rf, iref)
  PROVE  Balanced'
<1> DEFINE evict == trfs_evict_inode(dn, Released(dn))
           left == [x \in LDents \cup Names |-> rf[x] - Cardinality({d \in Released(dn) : dn[d].lower = x})]
           gone == {x \in LDents : ldent[x] # None /\ ~ldent[x].hashed /\ left[x] = 0}
           EV(i) == {u \in evict : upper[u].lower = i}
           GO(i) == {x \in gone : ldent[x].ino = i}
<1>1. /\ upper' = [u \in Uppers |-> IF u \in evict THEN NoUpper ELSE upper[u]]
      /\ ldent' = [x \in LDents |-> IF x \in gone THEN None ELSE ldent[x]]
      /\ iref' = [i \in Lowers |-> iref[i] - Cardinality(EV(i)) - Cardinality(GO(i))]
      /\ overput' = overput
  BY DEF Settle, aside
<1>2. evict \subseteq Uppers /\ gone \subseteq LDents /\ \A x \in gone : ldent[x] # None BY DEF trfs_evict_inode
<1> HIDE DEF evict, gone
<1>3. ASSUME NEW i \in Lowers
      PROVE  iref'[i] + overput'[i] = Cardinality(Entries(ldent', i)) + Cardinality(Users(upper', i))
  <2>1. NoUpper.lower = None /\ i # None BY NoneAssumption DEF NoUpper
  <2>2. Entries(ldent', i) = Entries(ldent, i) \ GO(i) /\ Entries(ldent, i) \cap GO(i) = GO(i)
    BY <1>1, <1>2 DEF Entries
  <2>3. Users(upper', i) = Users(upper, i) \ EV(i) /\ Users(upper, i) \cap EV(i) = EV(i)
    BY <1>1, <1>2, <2>1 DEF Users
  <2>4. IsFiniteSet(Entries(ldent, i)) /\ IsFiniteSet(Users(upper, i)) /\ IsFiniteSet(GO(i)) /\ IsFiniteSet(EV(i))
    <3>1. /\ Entries(ldent, i) \subseteq LDents /\ Users(upper, i) \subseteq Uppers /\ GO(i) \subseteq LDents
          /\ EV(i) \subseteq Uppers
      BY <1>2 DEF Entries, Users
    <3> QED BY <3>1, FiniteAssumption, FS_Subset
  <2> DEFINE A == Entries(ldent, i)  B == Users(upper, i)  G == GO(i)  E == EV(i)
  <2>5. iref'[i] = iref[i] - Cardinality(E) - Cardinality(G) /\ overput'[i] = overput[i] BY <1>1
  <2>6. iref[i] + overput[i] = Cardinality(A) + Cardinality(B) /\ iref[i] \in Int /\ overput[i] \in Nat
    BY DEF Balanced, Balance
  <2> HIDE DEF A, B, G, E, GO, EV
  <2>7. Cardinality(A \ G) = Cardinality(A) - Cardinality(G) BY <2>2, <2>4, FS_Difference DEF A, G
  <2>8. Cardinality(B \ E) = Cardinality(B) - Cardinality(E) BY <2>3, <2>4, FS_Difference DEF B, E
  <2>9. Cardinality(A) \in Nat /\ Cardinality(B) \in Nat /\ Cardinality(G) \in Nat /\ Cardinality(E) \in Nat
    BY <2>4, FS_CardinalityType DEF A, B, G, E
  <2>10. iref'[i] + overput'[i] = Cardinality(A \ G) + Cardinality(B \ E) BY <2>5, <2>6, <2>7, <2>8, <2>9
  <2> QED BY <2>2, <2>3, <2>10 DEF A, B, G, E
<1>4. overput' \in [Lowers -> Nat] BY <1>1 DEF Balanced, Balance
<1> QED BY <1>3, <1>4 DEF Balanced, Balance, Entries, Users

\* One lower dentry is changed.
OneLower(ld, x, r) ==
  /\ ld \in [LDents -> {None} \cup LDentRecords] /\ ld[x] = r /\ ld[x] # None
  /\ \A y \in LDents : y # x => ld[y] = ldent[y]

\* What the table of lower dentries is after one entry is set.
LEMMA LowerSet ==
  ASSUME NowInv, NEW x \in LDents, NEW r \in LDentRecords, NEW ld, ld = [ldent EXCEPT ![x] = r]
  PROVE  OneLower(ld, x, r)
<1>1. ldent \in [LDents -> {None} \cup LDentRecords] BY Now DEF Types
<1>2. r # None BY NoneAssumption
<1> HIDE DEF LDentRecords
<1> QED BY <1>1, <1>2 DEF OneLower

\* A field of a lower dentry is set.
LEMMA UnhashedField ==
  ASSUME NowInv, NEW x \in LDents, ldent[x] # None, NEW ld, ld = [ldent EXCEPT ![x].hashed = FALSE]
  PROVE  \E r : OneLower(ld, x, r) /\ r.ino = ldent[x].ino
<1>1. ldent \in [LDents -> {None} \cup LDentRecords] /\ ldent[x] \in LDentRecords BY Now, Fields DEF Types
<1>2. PICK r : r = [ldent[x] EXCEPT !.hashed = FALSE] OBVIOUS
<1>3. r \in LDentRecords /\ r.ino = ldent[x].ino BY <1>1, <1>2 DEF LDentRecords
<1>4. ld = [ldent EXCEPT ![x] = r] BY <1>2
<1>5. OneLower(ld, x, r) BY <1>3, <1>4, LowerSet
<1> QED BY <1>3, <1>5

\* What that table is after the inode of one entry is set.
LEMMA InoField ==
  ASSUME NowInv, NEW x \in LDents, ldent[x] # None, NEW i \in Lowers \cup {None}, NEW ld,
         ld = [ldent EXCEPT ![x].ino = i]
  PROVE  \E r : OneLower(ld, x, r) /\ r.ino = i
<1>1. ldent \in [LDents -> {None} \cup LDentRecords] /\ ldent[x] \in LDentRecords BY Now, Fields DEF Types
<1>2. PICK r : r = [ldent[x] EXCEPT !.ino = i] OBVIOUS
<1>3. r \in LDentRecords /\ r.ino = i BY <1>1, <1>2 DEF LDentRecords
<1>4. ld = [ldent EXCEPT ![x] = r] BY <1>2
<1>5. OneLower(ld, x, r) BY <1>3, <1>4, LowerSet
<1> QED BY <1>3, <1>5

\* The balance after one lower dentry is changed.
LEMMA BalanceLower ==
  ASSUME Balanced, iref \in [Lowers -> Int], NEW x \in LDents, NEW r, OneLower(ldent', x, r), upper' = upper,
         overput' = overput, iref' \in [Lowers -> Int],
         \A i \in Lowers : iref'[i] = iref[i] + (IF r.ino = i THEN 1 ELSE 0) - HE(ldent, x, i)
  PROVE  Balanced'
<1>1. PICK ld, ir : ld = ldent' /\ ir = iref' OBVIOUS
<1>2. OneLower(ld, x, r) /\ ir \in [Lowers -> Int] BY <1>1
<1>3. \A z \in LDents, i \in Lowers : z # x => (z \in Entries(ld, i) <=> z \in Entries(ldent, i))
  BY <1>2 DEF OneLower, Entries
<1>4. \A u \in Uppers : u # None => upper[u].lower = upper[u].lower OBVIOUS
<1>5. ASSUME NEW i \in Lowers
      PROVE  ir[i] + overput[i] = iref[i] + overput[i] + HE(ld, x, i) - HE(ldent, x, i)
                                    + HU(upper, None, i) - HU(upper, None, i)
  <2>1. HE(ld, x, i) = IF r.ino = i THEN 1 ELSE 0 BY <1>2 DEF OneLower, HE
  <2>2. HE(ldent, x, i) \in Int /\ HU(upper, None, i) \in Int BY DEF HE, HU
  <2>3. iref[i] \in Int /\ overput[i] \in Nat BY DEF Balanced, Balance
  <2>4. ir[i] = iref[i] + (IF r.ino = i THEN 1 ELSE 0) - HE(ldent, x, i) BY <1>1
  <2> QED BY <2>1, <2>2, <2>3, <2>4
<1>6. overput \in [Lowers -> Nat] BY DEF Balanced, Balance
<1>7. Shift(x, None, ld, upper, ir, overput) BY <1>2, <1>3, <1>4, <1>5, <1>6 DEF Shift
<1>8. Balance(ld, upper, ir, overput) BY <1>7, BalanceStep
<1> QED BY <1>1, <1>8 DEF Balanced, Balance, Entries, Users

\* The balance after a lower dentry that is unhashed, or a new one that is negative.
LEMMA BalanceSame ==
  ASSUME Balanced, iref \in [Lowers -> Int], NEW x \in LDents, NEW r, OneLower(ldent', x, r), upper' = upper,
         overput' = overput, iref' = iref,
         IF ldent[x] = None THEN r.ino = None ELSE r.ino = ldent[x].ino
  PROVE  Balanced'
<1>1. ASSUME NEW i \in Lowers PROVE iref'[i] = iref[i] + (IF r.ino = i THEN 1 ELSE 0) - HE(ldent, x, i)
  <2>1. HE(ldent, x, i) = IF r.ino = i THEN 1 ELSE 0 BY NoneAssumption DEF HE
  <2>2. iref[i] \in Int OBVIOUS
  <2> QED BY <2>1, <2>2
<1> QED BY <1>1, BalanceLower

\* The balance after a lookup of the lower name.
LEMMA LookupBalance == ASSUME NowInv, Balanced, iref \in [Lowers -> Int], NEW t \in Tasks, LookupLower(t) PROVE Balanced'
<1>1. pc[t] = "lower" /\ upper' = upper /\ iref' = iref /\ overput' = overput BY DEF LookupLower, aside
<1>2. CASE ldent' = ldent BY <1>1, <1>2, BalanceKept DEF Entries
<1>3. ASSUME NEW x \in LDents, ldent[x] = None,
             ldent' = [ldent EXCEPT ![x] = [name |-> NameOf(t), ino |-> None, hashed |-> TRUE]]
      PROVE  Balanced'
  <2>1. NameOf(t) \in Names BY <1>1, TaskFacts
  <2>2. PICK r : r = [name |-> NameOf(t), ino |-> None, hashed |-> TRUE] OBVIOUS
  <2>3. r \in LDentRecords /\ r.ino = None BY <2>1, <2>2 DEF LDentRecords
  <2>4. OneLower(ldent', x, r) BY <1>3, <2>2, <2>3, LowerSet
  <2> QED BY <1>1, <1>3, <2>3, <2>4, BalanceSame
<1> QED BY <1>2, <1>3 DEF LookupLower

\* The balance after __trfs_interpose looks for an inode: the put without a
\* get is what overput counts.
LEMMA IgetBalance == ASSUME NowInv, Balanced, iref \in [Lowers -> Int], NEW t \in Tasks, iget5_locked(t) PROVE Balanced'
<1>1. ldent' = ldent BY DEF iget5_locked, Unwind
<1>2. \A x \in LDents, i \in Lowers : x \in Entries(ldent', i) <=> x \in Entries(ldent, i) BY <1>1 DEF Entries
<1>3. CASE overput' = overput /\ iref' = iref
  <2>1. \A u \in Uppers : upper'[u].lower = upper[u].lower
    <3>1. CASE upper' = upper BY <3>1
    <3>2. ASSUME NEW v \in Uppers, upper' = [upper EXCEPT ![v].state = "new"]
          PROVE  \A u \in Uppers : upper'[u].lower = upper[u].lower
      <4>1. upper \in [Uppers -> UpperRecords] BY Now DEF Types
      <4>2. \A r \in UpperRecords : [r EXCEPT !.state = "new"].lower = r.lower BY DEF UpperRecords
      <4>3. \A u \in Uppers : upper'[u] = IF u = v THEN [upper[u] EXCEPT !.state = "new"] ELSE upper[u]
        BY <3>2, <4>1
      <4> QED BY <4>1, <4>2, <4>3
    <3> QED BY <3>1, <3>2 DEF iget5_locked
  <2> QED BY <1>2, <1>3, <2>1, BalanceKept
<1>4. ASSUME NEW i, iref' = [iref EXCEPT ![i] = @ - 1], overput' = [overput EXCEPT ![i] = @ + 1], upper' = upper
      PROVE  Balanced'
  <2>1. overput \in [Lowers -> Nat] BY DEF Balanced, Balance
  <2>2. PICK ir, ov : ir = iref' /\ ov = overput' OBVIOUS
  <2>3. ir = [iref EXCEPT ![i] = @ + (-1)]
    <3>1. i \in Lowers => iref[i] - 1 = iref[i] + (-1) OBVIOUS
    <3> QED BY <1>4, <2>2, <3>1
  <2>4. Plus(ir, iref, i, -1)
    <3>1. SetTo(ir, iref, i, -1) BY <2>3 DEF SetTo
    <3> QED BY <3>1, NumberSet
  <2>5. ov = [overput EXCEPT ![i] = @ + 1] /\ overput \in [Lowers -> Int] BY <1>4, <2>1, <2>2
  <2>6. Plus(ov, overput, i, 1)
    <3>1. SetTo(ov, overput, i, 1) BY <2>5 DEF SetTo
    <3> QED BY <2>5, <3>1, NumberSet
  <2>7. ASSUME NEW k \in Lowers PROVE ir[k] + ov[k] = iref[k] + overput[k] /\ ov[k] \in Nat
    <3>1. iref[k] \in Int /\ overput[k] \in Nat BY <2>1
    <3> QED BY <2>4, <2>6, <3>1 DEF Plus
  <2>8. ov \in [Lowers -> Nat]
    <3>1. \A k \in Lowers : ov[k] \in Nat BY <2>7
    <3> QED BY <2>6, <3>1 DEF Plus
  <2>9. Balance(ldent, upper, ir, ov) BY <2>7, <2>8 DEF Balanced, Balance
  <2> QED BY <1>1, <1>4, <2>2, <2>9 DEF Balanced, Balance, Entries, Users
<1> QED BY <1>3, <1>4 DEF iget5_locked, aside

\* The balance after igrab.
LEMMA GrabBalance == ASSUME NowInv, Balanced, iref \in [Lowers -> Int], NEW t \in Tasks, trfs_iget(t) PROVE Balanced'
<1>1. ldent' = ldent /\ overput' = overput /\ pc[t] = "grab" BY DEF trfs_iget, Unwind, aside
<1>2. CASE upper' = upper /\ iref' = iref BY <1>1, <1>2, BalanceKept
<1>3. PICK i : i = LowerInode(t) OBVIOUS
<1>4. ASSUME upper' = [upper EXCEPT ![job[t].u] = [state |-> "live", lower |-> i, size |-> lsize[i]]],
             iref' = [iref EXCEPT ![i] = @ + 1]
      PROVE  Balanced'
  <2>1. PICK v : v = job[t].u OBVIOUS
  <2>2. TaskOK(dent, upper, ldent, file, pc[t], job[t]) /\ Shape(pc[t], job[t]) BY <1>1, TaskFacts
  <2>3. v \in Uppers
    <3>1. v \in Uppers \cup {None} BY <2>1, Now, Fields
    <3> QED BY <1>1, <2>1, <2>2, <3>1 DEF Shape
  <2>4. upper[v].lower = None
    <3>1. upper[v].state = "new" BY <1>1, <2>1, <2>2 DEF TaskOK
    <3> QED BY <2>3, <3>1, Now DEF UppersOK
  <2>5. PICK r : r = [state |-> "live", lower |-> i, size |-> lsize[i]] OBVIOUS
  <2>6. r.lower = i BY <2>5
  <2>7. upper \in [Uppers -> UpperRecords] /\ upper' = [upper EXCEPT ![v] = r] BY <1>4, <2>1, <2>5, Now DEF Types
  <2>8. \A u \in Uppers : upper'[u] = IF u = v THEN r ELSE upper[u] BY <2>3, <2>7
  <2>9. PICK up, ir : up = upper' /\ ir = iref' OBVIOUS
  <2>10. \A u \in Uppers : up[u] = IF u = v THEN r ELSE upper[u] BY <2>8, <2>9
  <2>11. Plus(ir, iref, i, 1)
    <3>1. ir = [iref EXCEPT ![i] = @ + 1] BY <1>4, <2>9
    <3>2. SetTo(ir, iref, i, 1) BY <3>1 DEF SetTo
    <3> QED BY <3>2, NumberSet
  <2>12. ASSUME NEW k \in Lowers
         PROVE  ir[k] + overput[k] = iref[k] + overput[k] + HE(ldent, None, k) - HE(ldent, None, k)
                                       + HU(up, v, k) - HU(upper, v, k)
    <3>1. HE(ldent, None, k) \in Int BY DEF HE
    <3>2. HU(upper, v, k) = 0 BY <2>4, NoneAssumption DEF HU
    <3>3. HU(up, v, k) = IF k = i THEN 1 ELSE 0 BY <2>3, <2>6, <2>10 DEF HU
    <3>4. iref[k] \in Int /\ overput[k] \in Nat BY DEF Balanced, Balance
    <3> QED BY <2>11, <3>1, <3>2, <3>3, <3>4 DEF Plus
  <2>13. overput \in [Lowers -> Nat] BY DEF Balanced, Balance
  <2>14. \A x \in LDents, k \in Lowers : x # None => (x \in Entries(ldent, k) <=> x \in Entries(ldent, k)) OBVIOUS
  <2>15. \A u \in Uppers : u # v => up[u].lower = upper[u].lower BY <2>10
  <2>16. Shift(None, v, ldent, up, ir, overput) BY <2>11, <2>12, <2>13, <2>14, <2>15 DEF Shift, Plus
  <2>17. Balance(ldent, up, ir, overput) BY <2>16, BalanceStep
  <2> QED BY <1>1, <2>9, <2>17 DEF Balanced, Balance, Entries, Users
<1> QED BY <1>2, <1>3, <1>4 DEF trfs_iget

\* The balance after a lower dentry turns positive.
LEMMA PositiveBalance ==
  ASSUME NowInv, Balanced, iref \in [Lowers -> Int], NEW x \in LDents, ldent[x] # None, ldent[x].ino = None,
         NEW i \in Lowers, NEW r, OneLower(ldent', x, r), r.ino = i, upper' = upper, overput' = overput,
         Plus(iref', iref, i, 1)
  PROVE  Balanced'
<1>2. ASSUME NEW k \in Lowers PROVE iref'[k] = iref[k] + (IF r.ino = k THEN 1 ELSE 0) - HE(ldent, x, k)
  <2>1. HE(ldent, x, k) = 0 BY NoneAssumption DEF HE
  <2>2. iref[k] \in Int /\ iref'[k] = iref[k] + IF k = i THEN 1 ELSE 0 BY DEF Plus
  <2> QED BY <2>1, <2>2
<1>3. iref' \in [Lowers -> Int] BY DEF Plus
<1> QED BY <1>2, <1>3, BalanceLower

\* The balance after trfs_create and trfs_link.
LEMMA EntryBalance ==
  ASSUME NowInv, Balanced, iref \in [Lowers -> Int], NEW t \in Tasks, trfs_create(t) \/ trfs_link(t)
  PROVE  Balanced'
<1>1. pc[t] = "negative" /\ upper' = upper /\ overput' = overput BY DEF trfs_create, trfs_link, aside, Sizes
<1>2. PICK x : x = LowerOf(t) OBVIOUS
<1>3. x \in LDents /\ ldent[x] # None BY <1>1, <1>2, NegativeFacts
<1>4. CASE ldent' = ldent /\ iref' = iref BY <1>1, <1>4, BalanceKept
<1>5. ASSUME NEW i \in Lowers, ldent[x].ino = None, ldent' = [ldent EXCEPT ![x].ino = i],
             iref' = [iref EXCEPT ![i] = @ + 1]
      PROVE  Balanced'
  <2>1. PICK ir, ld : ir = iref' /\ ld = ldent' OBVIOUS
  <2>2. ir = [iref EXCEPT ![i] = @ + 1] /\ ld = [ldent EXCEPT ![x].ino = i] BY <1>5, <2>1
  <2>3. Plus(ir, iref, i, 1)
    <3>1. SetTo(ir, iref, i, 1) BY <2>2 DEF SetTo
    <3> QED BY <3>1, NumberSet
  <2>6. i \in Lowers \cup {None} BY <1>5
  <2>4. PICK r : OneLower(ld, x, r) /\ r.ino = i BY <1>3, <2>2, <2>6, InoField
  <2>5. Plus(iref', iref, i, 1) /\ OneLower(ldent', x, r) BY <2>1, <2>3, <2>4
  <2> QED BY <1>1, <1>3, <1>5, <2>4, <2>5, PositiveBalance
<1>6. CASE trfs_create(t)
  <2>1. \/ ldent' = ldent /\ iref' = iref
        \/ \E i \in Lowers : /\ ldent[x].ino = None /\ iref[i] = 0 /\ ldent' = [ldent EXCEPT ![x].ino = i]
                             /\ iref' = [iref EXCEPT ![i] = 1]
    BY <1>2, <1>6 DEF trfs_create
  <2>2. \A i \in Lowers : iref[i] = 0 => [iref EXCEPT ![i] = 1] = [iref EXCEPT ![i] = @ + 1] OBVIOUS
  <2> QED BY <1>4, <1>5, <2>1, <2>2
<1>7. CASE trfs_link(t)
  <2>1. PICK old \in Dents :
          /\ Found(old)
          /\ \/ ldent' = ldent /\ iref' = iref
             \/ /\ ldent[x].ino = None /\ ldent' = [ldent EXCEPT ![x].ino = ldent[dent[old].lower].ino]
                /\ iref' = [iref EXCEPT ![ldent[dent[old].lower].ino] = @ + 1]
    BY <1>2, <1>7 DEF trfs_link
  <2>2. ldent[dent[old].lower].ino \in Lowers BY <2>1, PositiveFacts DEF Found, Positive
  <2> QED BY <1>4, <1>5, <2>1, <2>2
<1> QED BY <1>6, <1>7

\* The balance after somebody removes a name below.
LEMMA UnlinkBalance ==
  ASSUME NowInv, Balanced, iref \in [Lowers -> Int], NEW x \in LDents, LowerUnlink(x)
  PROVE  Balanced'
<1>1. ldent[x] # None /\ ldent[x].ino # None /\ upper' = upper /\ overput' = overput BY DEF LowerUnlink, aside
<1>2. CASE ldent' = [ldent EXCEPT ![x].hashed = FALSE] /\ iref' = iref
  <2>1. PICK r : OneLower(ldent', x, r) /\ r.ino = ldent[x].ino BY <1>1, <1>2, UnhashedField
  <2> QED BY <1>1, <1>2, <2>1, BalanceSame
<1>3. CASE ldent' = [ldent EXCEPT ![x].ino = None] /\ iref' = [iref EXCEPT ![ldent[x].ino] = @ - 1]
  <2>1. PICK r : OneLower(ldent', x, r) /\ r.ino = None BY <1>1, <1>3, InoField
  <2>2. PICK i : i = ldent[x].ino OBVIOUS
  <2>3. iref' = [iref EXCEPT ![i] = @ - 1] BY <1>3, <2>2
  <2>4. PICK ir : ir = iref' OBVIOUS
  <2>6. ir = [iref EXCEPT ![i] = @ + (-1)]
    <3>1. i \in Lowers => iref[i] - 1 = iref[i] + (-1) OBVIOUS
    <3> QED BY <2>3, <2>4, <3>1
  <2>7. Plus(ir, iref, i, -1)
    <3>1. SetTo(ir, iref, i, -1) BY <2>6 DEF SetTo
    <3> QED BY <3>1, NumberSet
  <2>5. ASSUME NEW k \in Lowers PROVE iref'[k] = iref[k] + (IF r.ino = k THEN 1 ELSE 0) - HE(ldent, x, k)
    <3>1. HE(ldent, x, k) = IF k = i THEN 1 ELSE 0 BY <1>1, <2>2 DEF HE
    <3>2. r.ino # k BY <2>1, NoneAssumption
    <3>3. iref[k] \in Int OBVIOUS
    <3> QED BY <2>4, <2>7, <3>1, <3>2, <3>3 DEF Plus
  <2>8. iref' \in [Lowers -> Int] BY <2>4, <2>7 DEF Plus
  <2> QED BY <1>1, <2>1, <2>5, <2>8, BalanceLower
<1> QED BY <1>2, <1>3 DEF LowerUnlink



\* The steps that end with what is not used any more going.
LEMMA Settling ==
  ASSUME \/ \E t \in Tasks : \/ trfs_lookup(t) \/ LookupReturn(t) \/ CreateReturn(t) \/ UnlinkReturn(t)
                             \/ trfs_put_lower_path(t) \/ OpenReturn(t) \/ MmapReturn(t) \/ WriteReturn(t)
         \/ \E f \in Files : trfs_file_release(f)
         \/ \E d \in Dents : Prune(d)
  PROVE  \E dn, rf : Settle(dn, ldent, rf, iref)
<1>1. ASSUME NEW t \in Tasks,
             \/ trfs_lookup(t) \/ LookupReturn(t) \/ CreateReturn(t) \/ UnlinkReturn(t)
             \/ trfs_put_lower_path(t) \/ OpenReturn(t) \/ MmapReturn(t) \/ WriteReturn(t)
      PROVE  \E dn, rf : Settle(dn, ldent, rf, iref)
  <2>1. trfs_lookup(t) => \E dn, rf : Settle(dn, ldent, rf, iref) BY DEF trfs_lookup
  <2>2. LookupReturn(t) => \E dn, rf : Settle(dn, ldent, rf, iref) BY DEF LookupReturn
  <2>3. CreateReturn(t) => \E dn, rf : Settle(dn, ldent, rf, iref) BY DEF CreateReturn
  <2>4. UnlinkReturn(t) => \E dn, rf : Settle(dn, ldent, rf, iref) BY DEF UnlinkReturn
  <2>5. trfs_put_lower_path(t) => \E dn, rf : Settle(dn, ldent, rf, iref) BY DEF trfs_put_lower_path
  <2>6. OpenReturn(t) => \E dn, rf : Settle(dn, ldent, rf, iref) BY DEF OpenReturn
  <2>7. MmapReturn(t) => \E dn, rf : Settle(dn, ldent, rf, iref) BY DEF MmapReturn
  <2>8. WriteReturn(t) => \E dn, rf : Settle(dn, ldent, rf, iref) BY DEF WriteReturn
  <2> QED BY <1>1, <2>1, <2>2, <2>3, <2>4, <2>5, <2>6, <2>7, <2>8
<1>2. ASSUME NEW f \in Files, trfs_file_release(f) PROVE \E dn, rf : Settle(dn, ldent, rf, iref)
  BY <1>2 DEF trfs_file_release
<1>3. ASSUME NEW d \in Dents, Prune(d) PROVE \E dn, rf : Settle(dn, ldent, rf, iref) BY <1>3 DEF Prune
<1> QED BY <1>1, <1>2, <1>3

\* The steps that leave alone what refers to lower inodes.
LEMMA Resting ==
  ASSUME \/ \E t \in Tasks : \/ new_dentry_private_data(t) \/ d_splice_alias(t) \/ trfs_unlink(t)
                             \/ trfs_d_revalidate(t) \/ trfs_statfs(t) \/ trfs_getattr(t) \/ trfs_setattr(t)
                             \/ trfs_setxattr(t) \/ trfs_readlink(t) \/ trfs_fsync(t)
                             \/ trfs_open(t) \/ trfs_mmap(t) \/ trfs_write(t) \/ AioDone(t)
                             \/ notify_change(t)
         \/ \E f \in Files : Munmap(f)
  PROVE  upper' = upper /\ ldent' = ldent /\ iref' = iref /\ overput' = overput
<1> DEFINE R == upper' = upper /\ ldent' = ldent /\ iref' = iref /\ overput' = overput
<1>1. ASSUME NEW t \in Tasks,
             \/ new_dentry_private_data(t) \/ d_splice_alias(t) \/ trfs_unlink(t) \/ trfs_open(t) \/ trfs_mmap(t)
             \/ trfs_write(t) \/ AioDone(t) \/ notify_change(t)
      PROVE  R
  <2>1. new_dentry_private_data(t) => R BY DEF new_dentry_private_data, aside
  <2>2. d_splice_alias(t) => R BY DEF d_splice_alias, aside
  <2>3. trfs_unlink(t) => R BY DEF trfs_unlink, aside
  <2>4. trfs_open(t) => R BY DEF trfs_open, aside
  <2>5. trfs_mmap(t) => R BY DEF trfs_mmap, aside
  <2>6. trfs_write(t) \/ AioDone(t) => R BY WritesBelow DEF LowerWrite, BeginSize, Sizes
  <2>7. notify_change(t) => R BY DEF notify_change
  <2> QED BY <1>1, <2>1, <2>2, <2>3, <2>4, <2>5, <2>6, <2>7
<1>2. ASSUME NEW t \in Tasks,
             \/ trfs_d_revalidate(t) \/ trfs_statfs(t) \/ trfs_getattr(t) \/ trfs_setattr(t)
             \/ trfs_setxattr(t) \/ trfs_readlink(t) \/ trfs_fsync(t)
      PROVE  R
  <2>1. ASSUME NEW o, NEW d, trfs_get_lower_path(t, o, d) PROVE R BY <2>1 DEF trfs_get_lower_path, aside
  <2>2. ASSUME NEW o, PathCall(t, o) PROVE R BY <2>1, <2>2 DEF PathCall
  <2>3. trfs_fsync(t) => R BY <2>1 DEF trfs_fsync
  <2> HIDE DEF R
  <2> QED BY <1>2, <2>2, <2>3, Revalidates DEF trfs_statfs, trfs_getattr, trfs_setattr, trfs_setxattr,
                                  trfs_readlink
<1>3. ASSUME NEW f \in Files, Munmap(f) PROVE R BY <1>3 DEF Munmap, aside
<1> QED BY <1>1, <1>2, <1>3

\* The steps that write the size of an upper inode.
LEMMA Resizing ==
  ASSUME NowInv, NEW t \in Tasks, CopySize(t) \/ RestoreSize(t) \/ Truncate(t)
  PROVE  /\ \A u \in Uppers : KeptUpper(upper[u], upper'[u])
         /\ ldent' = ldent /\ iref' = iref /\ overput' = overput
<1>1. ldent' = ldent /\ iref' = iref /\ overput' = overput
  BY DEF CopySize, RestoreSize, Truncate, BeginSize, Sizes, aside
<1>2. upper' = upper \/ \E v : \E n \in Nat : upper' = [upper EXCEPT ![v].size = n]
  <2>1. job[t].size \in Nat
    <3>1. job[t] \in JobRecords BY Now DEF Types
    <3> QED BY <3>1 DEF JobRecords
  <2> QED BY <2>1 DEF CopySize, RestoreSize, Truncate
<1>3. CASE upper' = upper BY <1>1, <1>3 DEF KeptUpper
<1>4. ASSUME NEW v, NEW n \in Nat, upper' = [upper EXCEPT ![v].size = n]
      PROVE  \A u \in Uppers : KeptUpper(upper[u], upper'[u])
  BY <1>4, SizeSet
<1> QED BY <1>1, <1>2, <1>3, <1>4

\* Every step keeps the balance.
LEMMA BalanceNext == ASSUME IInv, Balanced, Next PROVE Balanced'
<1>1. NowInv /\ iref \in [Lowers -> Int] BY DEF IInv, NowInv, Numbers
<1>2. ASSUME NEW dn, NEW rf, Settle(dn, ldent, rf, iref) PROVE Balanced' BY <1>1, <1>2, BalanceSettled
<1>3. CASE upper' = upper /\ ldent' = ldent /\ iref' = iref /\ overput' = overput
  BY <1>3 DEF Balanced, Balance, Entries, Users
<1>4. ASSUME NEW t \in Tasks, CopySize(t) \/ RestoreSize(t) \/ Truncate(t) PROVE Balanced'
  <2>1. /\ \A u \in Uppers : upper'[u].lower = upper[u].lower
        /\ ldent' = ldent /\ iref' = iref /\ overput' = overput
    BY <1>1, <1>4, Resizing DEF KeptUpper
  <2>2. \A x \in LDents, i \in Lowers : x \in Entries(ldent', i) <=> x \in Entries(ldent, i) BY <2>1
  <2> QED BY <2>1, <2>2, BalanceKept
<1>5. ASSUME NEW t \in Tasks, VfsUnlink(t) PROVE Balanced'
  <2>1. upper' = upper /\ overput' = overput /\ iref' = iref /\ pc[t] = "unlink" BY <1>5 DEF VfsUnlink, aside
  <2>2. CASE ldent' = ldent BY <1>3, <2>1, <2>2
  <2>3. CASE ldent' = [ldent EXCEPT ![LowerOf(t)].hashed = FALSE]
    <3>1. PICK x : x = LowerOf(t) OBVIOUS
    <3>2. x \in LDents /\ ldent[x] # None
      <4>1. dent[D(t)].inode # None /\ D(t) \in Dents /\ dent[D(t)] # None
        BY <1>1, <2>1, TaskFacts DEF TaskOK, Raw, D
      <4> QED BY <1>1, <3>1, <4>1, PositiveFacts DEF LowerOf
    <3>3. PICK ld : ld = ldent' OBVIOUS
    <3>4. ld = [ldent EXCEPT ![x].hashed = FALSE] BY <2>3, <3>1, <3>3
    <3>5. PICK r : OneLower(ld, x, r) /\ r.ino = ldent[x].ino BY <1>1, <3>2, <3>4, UnhashedField
    <3>6. OneLower(ldent', x, r) BY <3>3, <3>5
    <3> QED BY <1>1, <2>1, <3>2, <3>5, <3>6, BalanceSame
  <2> QED BY <1>5, <2>2, <2>3 DEF VfsUnlink
<1>6. ASSUME NEW t \in Tasks,
             LookupLower(t) \/ iget5_locked(t) \/ trfs_iget(t) \/ trfs_create(t) \/ trfs_link(t)
      PROVE  Balanced'
  BY <1>1, <1>6, LookupBalance, IgetBalance, GrabBalance, EntryBalance
<1>7. ASSUME NEW x \in LDents, LowerUnlink(x) PROVE Balanced' BY <1>1, <1>7, UnlinkBalance
<1> QED BY <1>2, <1>3, <1>4, <1>5, <1>6, <1>7, Settling, Resting DEF Next

\* At first there are no upper inodes.
LEMMA BalanceInit == Init => Balanced
<1> SUFFICES ASSUME Init PROVE Balanced OBVIOUS
<1>1. ASSUME NEW i \in Lowers
      PROVE  iref[i] + overput[i] = Cardinality(Entries(ldent, i)) + Cardinality(Users(upper, i))
  <2>1. Users(upper, i) = {} BY NoneAssumption DEF Users, Init, NoUpper
  <2>2. iref[i] = Cardinality(Entries(ldent, i)) /\ overput[i] = 0 BY DEF Init, Entries
  <2>3. Cardinality({}) = 0 BY FS_EmptySet
  <2>4. Cardinality(Entries(ldent, i)) \in Nat
    <3>1. Entries(ldent, i) \subseteq LDents BY DEF Entries
    <3> QED BY <3>1, FiniteAssumption, FS_Subset, FS_CardinalityType
  <2> QED BY <2>1, <2>2, <2>3, <2>4
<1>2. overput \in [Lowers -> Nat] BY DEF Init
<1> QED BY <1>1, <1>2 DEF Balanced, Balance

\* References on lower inodes balance: the count of a lower inode is what the
\* lower dentries and the upper inodes hold, less what trfs_iget put without
\* owning it.
THEOREM InodesBalance == Spec => []LowerInodesCounted
<1>1. IInv /\ Balanced /\ [Next]_vars => Balanced'
  <2>1. IInv /\ Balanced /\ UNCHANGED vars => Balanced' BY DEF vars, Balanced, Balance, Entries, Users
  <2> QED BY <2>1, BalanceNext
<1>2. Balanced => LowerInodesCounted BY DEF Balanced, Balance, LowerInodesCounted, Entries, Users, Cached
<1> QED BY <1>1, <1>2, BalanceInit, InvHolds, PTL DEF Spec


-----------------------------------------------------------------------------
(* What no step changes: the lower dentry and the inode of a dentry that has *)
(* them, and the inode of a lower dentry; they may only go.                 *)

DentFrame(dn) ==
  \A d \in Dents : dent[d] # None /\ dn[d] # None =>
    /\ dent[d].lower # None /\ dn[d].lower # None => dn[d].lower = dent[d].lower
    /\ dent[d].inode # None => dn[d].inode = dent[d].inode
LowerFrame(ld) ==
  \A x \in LDents : ldent[x] # None /\ ld[x] # None /\ ldent[x].ino # None /\ ld[x].ino # None =>
    ld[x].ino = ldent[x].ino

\* A step that leaves both dentry tables alone is within the frames.
LEMMA FrameSame == DentFrame(dent) /\ LowerFrame(ldent)
BY DEF DentFrame, LowerFrame

\* One dentry is changed, in what may change.
LEMMA FrameOne ==
  ASSUME NEW e \in Dents, NEW r, NEW dn, OneDent(dn, e, r),
         dent[e] = None \/ (/\ dent[e].lower = None \/ r.lower = None \/ r.lower = dent[e].lower
                            /\ dent[e].inode = None \/ r.inode = dent[e].inode)
  PROVE  DentFrame(dn)
BY DEF DentFrame, OneDent

\* One lower dentry is changed, in what may change.
LEMMA FrameOneLower ==
  ASSUME NEW x \in LDents, NEW r, NEW ld, OneLower(ld, x, r),
         ldent[x] = None \/ ldent[x].ino = None \/ r.ino = None \/ r.ino = ldent[x].ino
  PROVE  LowerFrame(ld)
BY DEF LowerFrame, OneLower

\* What goes does not change.
LEMMA FrameSettled ==
  ASSUME NEW dn, NEW rf, DentFrame(dn), Settle(dn, ldent, rf, iref)
  PROVE  DentFrame(dent') /\ LowerFrame(ldent') /\ raced' = raced
<1>1. /\ \A d \in Dents : dent'[d] = None \/ dent'[d] = dn[d]
      /\ \A x \in LDents : ldent'[x] = None \/ ldent'[x] = ldent[x]
      /\ raced' = raced
  BY DEF Settle, aside
<1> QED BY <1>1 DEF DentFrame, LowerFrame

\* The steps that change a dentry on the way of a lookup.
LEMMA FrameLookup ==
  ASSUME NowInv, NEW t \in Tasks,
         \/ new_dentry_private_data(t) \/ LookupLower(t) \/ iget5_locked(t) \/ trfs_iget(t) \/ d_splice_alias(t)
  PROVE  DentFrame(dent')
<1>1. PICK e : e = job[t].d OBVIOUS
<1>2. pc[t] # "idle"
  BY DEF new_dentry_private_data, LookupLower, iget5_locked, trfs_iget, d_splice_alias
<1>3. D(t) = e /\ e \in Dents /\ dent[e] \in DentRecords /\ TaskOK(dent, upper, ldent, file, pc[t], job[t])
  BY <1>1, <1>2, TaskFacts
<1>4. CASE dent' = dent BY <1>4, FrameSame
<1>5. CASE dent' = [dent EXCEPT ![D(t)].info = TRUE]
  <2>1. PICK r : r = [dent[e] EXCEPT !.info = TRUE] OBVIOUS
  <2>2. r \in DentRecords /\ r.lower = dent[e].lower /\ r.inode = dent[e].inode BY <1>3, <2>1 DEF DentRecords
  <2>3. PICK dn : dn = dent' OBVIOUS
  <2>4. dn = [dent EXCEPT ![e] = r] BY <1>3, <1>5, <2>1, <2>3
  <2>5. OneDent(dn, e, r) BY <1>3, <2>2, <2>4, DentSet
  <2>6. DentFrame(dn) BY <1>3, <2>2, <2>5, FrameOne
  <2> QED BY <2>3, <2>6
<1>6. ASSUME NEW x \in LDents \cup {None}, dent' = [dent EXCEPT ![D(t)].lower = x],
             x = None \/ pc[t] = "lower"
      PROVE  DentFrame(dent')
  <2>1. PathSet(dent', e, x) BY <1>1, <1>2, <1>6, SetsPath
  <2>2. x = None \/ dent[e].lower = None BY <1>1, <1>3, <1>6 DEF TaskOK
  <2> QED BY <2>1, <2>2 DEF PathSet, DentFrame
<1>7. CASE new_dentry_private_data(t) BY <1>4, <1>5, <1>7 DEF new_dentry_private_data
<1>8. CASE LookupLower(t)
  <2>1. pc[t] = "lower" /\ (dent' = dent \/ \E x \in LDents : dent' = [dent EXCEPT ![D(t)].lower = x])
    BY <1>8 DEF LookupLower
  <2> QED BY <1>4, <1>6, <2>1
<1>9. ASSUME Unwind(t) PROVE DentFrame(dent')
  <2>1. dent' = dent \/ dent' = [dent EXCEPT ![D(t)].lower = None] BY <1>9 DEF Unwind
  <2> QED BY <1>4, <1>6, <2>1
<1>10. CASE iget5_locked(t) \/ trfs_iget(t) BY <1>4, <1>9, <1>10 DEF iget5_locked, trfs_iget
<1>11. CASE d_splice_alias(t)
  <2>1. PICK u : u = job[t].u OBVIOUS
  <2>2. PICK r : r = [dent[e] EXCEPT !.inode = u, !.hashed = TRUE] OBVIOUS
  <2>3. u \in Uppers \cup {None} /\ dent[e].inode = None
    <3>1. pc[t] \in Raw BY <1>11 DEF d_splice_alias, Raw
    <3> QED BY <1>1, <1>3, <2>1, <3>1, Now, Fields DEF TaskOK
  <2>4. r \in DentRecords /\ r.lower = dent[e].lower BY <1>3, <2>2, <2>3 DEF DentRecords
  <2>5. PICK dn : dn = dent' OBVIOUS
  <2>6. dn = [dent EXCEPT ![e] = r]
    <3>1. dn = [dent EXCEPT ![e].inode = u, ![e].hashed = TRUE] BY <1>3, <1>11, <2>1, <2>5 DEF d_splice_alias
    <3> QED BY <1>3, <2>2, <3>1
  <2>7. OneDent(dn, e, r) BY <1>3, <2>4, <2>6, DentSet
  <2>8. DentFrame(dn) BY <1>3, <2>3, <2>4, <2>7, FrameOne
  <2> QED BY <2>5, <2>8
<1> QED BY <1>7, <1>8, <1>10, <1>11

\* The steps that change a lower dentry.
LEMMA FrameBelow ==
  ASSUME NowInv,
         \/ \E t \in Tasks : LookupLower(t) \/ trfs_create(t) \/ trfs_link(t) \/ VfsUnlink(t)
         \/ \E x \in LDents : LowerUnlink(x)
  PROVE  LowerFrame(ldent')
<1>1. CASE ldent' = ldent BY <1>1, FrameSame
<1>2. ASSUME NEW x \in LDents, ldent[x] # None, ldent' = [ldent EXCEPT ![x].hashed = FALSE] PROVE LowerFrame(ldent')
  <2>1. PICK ld : ld = ldent' OBVIOUS
  <2>2. ld = [ldent EXCEPT ![x].hashed = FALSE] BY <1>2, <2>1
  <2>3. PICK r : OneLower(ld, x, r) /\ r.ino = ldent[x].ino BY <1>2, <2>2, UnhashedField
  <2> QED BY <2>1, <2>3, FrameOneLower
<1>3. ASSUME NEW x \in LDents, ldent[x] # None, NEW i \in Lowers \cup {None}, ldent' = [ldent EXCEPT ![x].ino = i],
             i = None \/ ldent[x].ino = None
      PROVE  LowerFrame(ldent')
  <2>1. PICK ld : ld = ldent' OBVIOUS
  <2>2. ld = [ldent EXCEPT ![x].ino = i] BY <1>3, <2>1
  <2>3. i \in Lowers \cup {None} /\ ldent[x] # None BY <1>3
  <2>4. PICK r : OneLower(ld, x, r) /\ r.ino = i BY <2>2, <2>3, InoField
  <2> QED BY <1>3, <2>1, <2>4, FrameOneLower
<1>4. ASSUME NEW x \in LDents, LowerUnlink(x) PROVE LowerFrame(ldent')
  <2>1. ldent[x] # None BY <1>4 DEF LowerUnlink
  <2>2. ldent' = [ldent EXCEPT ![x].hashed = FALSE] \/ ldent' = [ldent EXCEPT ![x].ino = None]
    BY <1>4 DEF LowerUnlink
  <2> QED BY <1>2, <1>3, <2>1, <2>2
<1>5. ASSUME NEW t \in Tasks, LookupLower(t) PROVE LowerFrame(ldent')
  <2>1. pc[t] = "lower" BY <1>5 DEF LookupLower
  <2>2. NameOf(t) \in Names BY <2>1, TaskFacts
  <2>3. PICK r : r = [name |-> NameOf(t), ino |-> None, hashed |-> TRUE] OBVIOUS
  <2>4. r \in LDentRecords /\ r.ino = None BY <2>2, <2>3 DEF LDentRecords
  <2>5. ldent' = ldent \/ \E x \in LDents : ldent' = [ldent EXCEPT ![x] = r] BY <1>5, <2>3 DEF LookupLower
  <2>6. ASSUME NEW x \in LDents, ldent' = [ldent EXCEPT ![x] = r] PROVE LowerFrame(ldent')
    <3>1. OneLower(ldent', x, r) BY <2>4, <2>6, LowerSet
    <3> QED BY <2>4, <3>1, FrameOneLower
  <2> QED BY <1>1, <2>5, <2>6
<1>6. ASSUME NEW t \in Tasks, trfs_create(t) \/ trfs_link(t) PROVE LowerFrame(ldent')
  <2>1. pc[t] = "negative" BY <1>6 DEF trfs_create, trfs_link
  <2>2. PICK x : x = LowerOf(t) OBVIOUS
  <2>3. x \in LDents /\ ldent[x] # None BY <2>1, <2>2, NegativeFacts
  <2>4. \/ ldent' = ldent
        \/ \E i \in Lowers : ldent[x].ino = None /\ ldent' = [ldent EXCEPT ![x].ino = i]
    <3>1. CASE trfs_create(t) BY <2>2, <3>1 DEF trfs_create
    <3>2. CASE trfs_link(t)
      <4>1. PICK old \in Dents :
              /\ Found(old)
              /\ \/ ldent' = ldent
                 \/ ldent[x].ino = None /\ ldent' = [ldent EXCEPT ![x].ino = ldent[dent[old].lower].ino]
        BY <2>2, <3>2 DEF trfs_link
      <4>2. ldent[dent[old].lower].ino \in Lowers BY <4>1, PositiveFacts DEF Found, Positive
      <4> QED BY <4>1, <4>2
    <3> QED BY <1>6, <3>1, <3>2
  <2> QED BY <1>1, <1>3, <2>3, <2>4
<1>7. ASSUME NEW t \in Tasks, VfsUnlink(t) PROVE LowerFrame(ldent')
  <2>1. pc[t] = "unlink" BY <1>7 DEF VfsUnlink
  <2>2. dent[D(t)].inode # None /\ D(t) \in Dents /\ dent[D(t)] # None
    BY <2>1, TaskFacts DEF TaskOK, Raw, D
  <2>3. LowerOf(t) \in LDents /\ ldent[LowerOf(t)] # None BY <2>2, PositiveFacts DEF LowerOf
  <2>4. ldent' = ldent \/ ldent' = [ldent EXCEPT ![LowerOf(t)].hashed = FALSE] BY <1>7 DEF VfsUnlink
  <2> QED BY <1>1, <1>2, <2>3, <2>4
<1> QED BY <1>4, <1>5, <1>6, <1>7

\* The steps at the end of which something may go.
LEMMA FrameSettling ==
  ASSUME NowInv,
         \/ \E t \in Tasks : \/ trfs_lookup(t) \/ LookupReturn(t) \/ CreateReturn(t) \/ UnlinkReturn(t)
                             \/ trfs_put_lower_path(t) \/ OpenReturn(t) \/ MmapReturn(t) \/ WriteReturn(t)
         \/ \E f \in Files : trfs_file_release(f)
         \/ \E d \in Dents : Prune(d)
  PROVE  DentFrame(dent') /\ LowerFrame(ldent') /\ raced' = raced
<1> DEFINE R == DentFrame(dent') /\ LowerFrame(ldent') /\ raced' = raced
<1>1. ASSUME NEW rf, Settle(dent, ldent, rf, iref) PROVE R BY <1>1, FrameSame, FrameSettled
<1>2. ASSUME NEW t \in Tasks, trfs_lookup(t) PROVE R
  <2>1. PICK n \in Names, d \in Dents : \E rf :
          /\ dent[d] = None
          /\ Settle([dent EXCEPT ![d] = [name |-> n, info |-> FALSE, lower |-> None, inode |-> None,
                                         hashed |-> FALSE]], ldent, rf, iref)
    BY <1>2 DEF trfs_lookup
  <2>2. PICK r : r = [name |-> n, info |-> FALSE, lower |-> None, inode |-> None, hashed |-> FALSE] OBVIOUS
  <2>3. r \in DentRecords BY <2>2 DEF DentRecords
  <2>4. PICK dn : dn = [dent EXCEPT ![d] = r] OBVIOUS
  <2>5. \E rf : Settle(dn, ldent, rf, iref) BY <2>1, <2>2, <2>4
  <2>6. OneDent(dn, d, r) BY <2>3, <2>4, DentSet
  <2>7. DentFrame(dn) BY <2>1, <2>6, FrameOne
  <2> QED BY <2>5, <2>7, FrameSettled
<1>3. ASSUME NEW d \in Dents, Prune(d) PROVE R
  <2>1. PICK dn : dn = [dent EXCEPT ![d].hashed = FALSE] OBVIOUS
  <2>2. Settle(dn, ldent, dref, iref) /\ dent[d] # None BY <1>3, <2>1 DEF Prune
  <2>3. \A e \in Dents : KeptDent(dent[e], dn[e]) BY <2>1, <2>2, Unhashes
  <2>4. DentFrame(dn) BY <2>3 DEF KeptDent, DentFrame
  <2> QED BY <2>2, <2>4, FrameSettled
<1>4. ASSUME NEW f \in Files, trfs_file_release(f) PROVE R
  <2>1. \E rf : Settle(dent, ldent, rf, iref) BY <1>4 DEF trfs_file_release
  <2> QED BY <1>1, <2>1
<1>5. ASSUME NEW t \in Tasks,
             \/ LookupReturn(t) \/ CreateReturn(t) \/ UnlinkReturn(t)
             \/ trfs_put_lower_path(t) \/ OpenReturn(t) \/ MmapReturn(t) \/ WriteReturn(t)
      PROVE  R
  <2> DEFINE E == \E rf : Settle(dent, ldent, rf, iref)
  <2>1. LookupReturn(t) => E BY DEF LookupReturn
  <2>2. CreateReturn(t) => E BY DEF CreateReturn
  <2>3. UnlinkReturn(t) => E BY DEF UnlinkReturn
  <2>4. trfs_put_lower_path(t) => E BY DEF trfs_put_lower_path
  <2>5. OpenReturn(t) => E BY DEF OpenReturn
  <2>6. MmapReturn(t) => E BY DEF MmapReturn
  <2>7. WriteReturn(t) => E BY DEF WriteReturn
  <2>8. E BY <1>5, <2>1, <2>2, <2>3, <2>4, <2>5, <2>6, <2>7
  <2> HIDE DEF R
  <2> QED BY <1>1, <2>8
<1> QED BY <1>2, <1>3, <1>4, <1>5

\* The other steps that leave the dentries, or all but whether one is hashed,
\* as they are.
LEMMA FrameOthers ==
  ASSUME NowInv,
         \/ \E t \in Tasks : \/ trfs_create(t) \/ trfs_link(t) \/ RestoreSize(t) \/ VfsUnlink(t) \/ trfs_unlink(t)
                             \/ trfs_d_revalidate(t) \/ trfs_statfs(t) \/ trfs_getattr(t) \/ trfs_setattr(t)
                             \/ trfs_setxattr(t) \/ trfs_readlink(t) \/ trfs_fsync(t)
                             \/ trfs_open(t) \/ trfs_mmap(t) \/ trfs_write(t) \/ AioDone(t) \/ CopySize(t)
                             \/ Truncate(t) \/ notify_change(t)
         \/ \E f \in Files : Munmap(f)
         \/ \E x \in LDents : LowerUnlink(x)
  PROVE  DentFrame(dent')
<1>1. ASSUME dent' = dent PROVE DentFrame(dent') BY <1>1, FrameSame
<1>2. ASSUME NEW t \in Tasks, VfsUnlink(t) PROVE DentFrame(dent')
  <2>1. pc[t] = "unlink" BY <1>2 DEF VfsUnlink
  <2>2. D(t) \in Dents /\ dent[D(t)] # None BY <2>1, TaskFacts
  <2>3. CASE dent' = [dent EXCEPT ![D(t)].hashed = FALSE]
    <3>1. PICK dn, e : dn = dent' /\ e = D(t) OBVIOUS
    <3>2. dn = [dent EXCEPT ![e].hashed = FALSE] /\ e \in Dents /\ dent[e] # None BY <2>2, <2>3, <3>1
    <3>3. \A d \in Dents : KeptDent(dent[d], dn[d]) BY <3>2, Unhashes
    <3>4. DentFrame(dn) BY <3>3 DEF KeptDent, DentFrame
    <3> QED BY <3>1, <3>4
  <2> QED BY <1>1, <1>2, <2>3 DEF VfsUnlink
<1>3. ASSUME NEW t \in Tasks,
             \/ trfs_create(t) \/ trfs_link(t) \/ RestoreSize(t) \/ trfs_unlink(t) \/ trfs_open(t) \/ trfs_mmap(t)
             \/ trfs_write(t) \/ AioDone(t) \/ CopySize(t) \/ Truncate(t) \/ notify_change(t)
      PROVE  dent' = dent
  <2>1. trfs_create(t) => dent' = dent BY DEF trfs_create
  <2>2. trfs_link(t) => dent' = dent BY DEF trfs_link
  <2>3. RestoreSize(t) => dent' = dent BY DEF RestoreSize
  <2>4. trfs_unlink(t) => dent' = dent BY DEF trfs_unlink
  <2>5. trfs_open(t) => dent' = dent BY DEF trfs_open
  <2>6. trfs_mmap(t) => dent' = dent BY DEF trfs_mmap
  <2>7. trfs_write(t) \/ AioDone(t) => dent' = dent BY WritesBelow DEF LowerWrite
  <2>8. CopySize(t) => dent' = dent BY DEF CopySize
  <2>9. Truncate(t) => dent' = dent BY DEF Truncate
  <2>10. notify_change(t) => dent' = dent BY DEF notify_change
  <2> QED BY <1>3, <2>1, <2>2, <2>3, <2>4, <2>5, <2>6, <2>7, <2>8, <2>9, <2>10
<1>4. ASSUME NEW t \in Tasks,
             \/ trfs_d_revalidate(t) \/ trfs_statfs(t) \/ trfs_getattr(t) \/ trfs_setattr(t)
             \/ trfs_setxattr(t) \/ trfs_readlink(t) \/ trfs_fsync(t)
      PROVE  dent' = dent
  <2>1. ASSUME NEW o, PathCall(t, o) PROVE dent' = dent BY <2>1 DEF PathCall, trfs_get_lower_path
  <2>2. trfs_fsync(t) => dent' = dent BY DEF trfs_fsync, trfs_get_lower_path
  <2> QED BY <1>4, <2>1, <2>2, Revalidates DEF trfs_statfs, trfs_getattr, trfs_setattr, trfs_setxattr,
                                  trfs_readlink
<1>5. ASSUME NEW f \in Files, Munmap(f) PROVE dent' = dent BY <1>5 DEF Munmap
<1>6. ASSUME NEW x \in LDents, LowerUnlink(x) PROVE dent' = dent BY <1>6 DEF LowerUnlink
<1> QED BY <1>1, <1>2, <1>3, <1>4, <1>5, <1>6

\* No step changes what the frame is about, and what raced stays so.
LEMMA Framed == ASSUME NowInv, Next PROVE DentFrame(dent') /\ LowerFrame(ldent') /\ raced \subseteq raced'
<1>1. ASSUME \/ \E t \in Tasks : \/ trfs_lookup(t) \/ LookupReturn(t) \/ CreateReturn(t) \/ UnlinkReturn(t)
                                 \/ trfs_put_lower_path(t) \/ OpenReturn(t) \/ MmapReturn(t) \/ WriteReturn(t)
             \/ \E f \in Files : trfs_file_release(f)
             \/ \E d \in Dents : Prune(d)
      PROVE  DentFrame(dent') /\ LowerFrame(ldent') /\ raced \subseteq raced'
  BY <1>1, FrameSettling
<1>2. DentFrame(dent') BY <1>1, FrameLookup, FrameOthers DEF Next
<1>3. LowerFrame(ldent')
  <2>1. ASSUME NEW t \in Tasks, iget5_locked(t) \/ trfs_iget(t) PROVE ldent' = ldent
    BY <2>1 DEF iget5_locked, trfs_iget, Unwind
  <2>2. ASSUME NEW t \in Tasks, RestoreSize(t) \/ CopySize(t) \/ Truncate(t) PROVE ldent' = ldent
    BY <2>2, Resizing
  <2>3. ldent' = ldent => LowerFrame(ldent') BY FrameSame
  <2> QED BY <1>1, <2>1, <2>2, <2>3, Resting, FrameBelow DEF Next

<1>4. raced \subseteq raced'
  <2>1. ASSUME NEW t \in Tasks,
               \/ new_dentry_private_data(t) \/ LookupLower(t) \/ iget5_locked(t) \/ trfs_iget(t)
               \/ d_splice_alias(t) \/ trfs_create(t) \/ trfs_link(t) \/ RestoreSize(t) \/ trfs_unlink(t) \/ VfsUnlink(t)
        PROVE  raced \subseteq raced'
    <3>1. new_dentry_private_data(t) => raced' = raced BY DEF new_dentry_private_data, aside
    <3>2. LookupLower(t) => raced' = raced BY DEF LookupLower, aside
    <3>3. iget5_locked(t) => raced \subseteq raced' BY DEF iget5_locked, aside
    <3>4. trfs_iget(t) => raced' = raced BY DEF trfs_iget, aside
    <3>5. d_splice_alias(t) => raced' = raced BY DEF d_splice_alias, aside
    <3>6. trfs_create(t) => raced' = raced BY DEF trfs_create, aside
    <3>7. trfs_link(t) => raced' = raced BY DEF trfs_link, Sizes
    <3>8. RestoreSize(t) => raced' = raced BY DEF RestoreSize, aside
    <3>9. trfs_unlink(t) => raced' = raced BY DEF trfs_unlink, aside
    <3>10. VfsUnlink(t) => raced' = raced BY DEF VfsUnlink, aside
    <3> QED BY <2>1, <3>1, <3>2, <3>3, <3>4, <3>5, <3>6, <3>7, <3>8, <3>9, <3>10
  <2>2. ASSUME NEW t \in Tasks,
               \/ trfs_d_revalidate(t) \/ trfs_statfs(t) \/ trfs_getattr(t) \/ trfs_setattr(t)
               \/ trfs_setxattr(t) \/ trfs_readlink(t) \/ trfs_fsync(t)
        PROVE  raced' = raced
    <3>1. ASSUME NEW o, PathCall(t, o) PROVE raced' = raced BY <3>1 DEF PathCall, trfs_get_lower_path, aside
    <3>2. trfs_fsync(t) => raced' = raced BY DEF trfs_fsync, trfs_get_lower_path, aside
    <3> QED BY <2>2, <3>1, <3>2, Revalidates DEF trfs_statfs, trfs_getattr, trfs_setattr, trfs_setxattr,
                                    trfs_readlink
  <2>3. ASSUME NEW t \in Tasks,
               \/ trfs_open(t) \/ trfs_mmap(t) \/ trfs_write(t) \/ AioDone(t) \/ CopySize(t) \/ Truncate(t)
               \/ notify_change(t)
        PROVE  raced' = raced
    <3>1. trfs_open(t) => raced' = raced BY DEF trfs_open, aside
    <3>2. trfs_mmap(t) => raced' = raced BY DEF trfs_mmap, aside
    <3>3. trfs_write(t) \/ AioDone(t) => raced' = raced BY WritesBelow DEF LowerWrite, BeginSize, Sizes
    <3>4. CopySize(t) => raced' = raced BY DEF CopySize
    <3>5. Truncate(t) => raced' = raced BY DEF Truncate, BeginSize, Sizes
    <3>6. notify_change(t) => raced' = raced BY DEF notify_change
    <3> QED BY <2>3, <3>1, <3>2, <3>3, <3>4, <3>5, <3>6
  <2>4. ASSUME NEW f \in Files, Munmap(f) PROVE raced' = raced BY <2>4 DEF Munmap, aside
  <2>5. ASSUME NEW x \in LDents, LowerUnlink(x) PROVE raced' = raced BY <2>5 DEF LowerUnlink, aside
  <2> QED BY <1>1, <2>1, <2>2, <2>3, <2>4, <2>5 DEF Next
<1> QED BY <1>2, <1>3, <1>4


-----------------------------------------------------------------------------
(* What a step does to the tasks *)

SizeOps == {"write", "truncate", "link"}
SameSize(j, k) == k.op = j.op /\ k.d = j.d /\ k.old = j.old /\ k.alone = j.alone /\ k.size = j.size

\* All tasks but t stay as they are.
Others(t) == \A s \in Tasks : s # t => pc'[s] = pc[s] /\ job'[s] = job[s]

Begins(t)  == Others(t) /\ pc[t] = "idle" /\ pc'[t] # "grab" /\ job'[t].op \notin SizeOps
Ends(t)    == /\ Others(t) /\ pc'[t] = "idle" /\ job'[t].op = "none"
              /\ pc[t] \in {"found", "fail", "negative", "made", "failed", "unlinked", "path", "open", "mmap", "written"}
StepsOn(t) == /\ Others(t) /\ SameSize(job[t], job'[t])
              /\ pc[t] \in {"alloc", "lower", "iget", "grab", "splice", "unlink"}
              /\ pc'[t] = "grab" => pc[t] = "iget"
Turns(t)   == Others(t) /\ pc[t] = "negative" /\ pc'[t] # "grab" /\ job'[t].op = "create" /\ job'[t].d = job[t].d
Idles      == pc' = pc /\ job' = job

\* A begin of an operation that changes no size.
LEMMA BeginKind ==
  ASSUME NowInv, NEW t \in Tasks, NEW j, NEW q, Begin(t, j, q), j.op \notin SizeOps, q # "grab"
  PROVE  Begins(t)
<1>1. job \in [Tasks -> JobRecords] /\ pc \in [Tasks -> Places] BY Now DEF Types
<1> QED BY <1>1 DEF Begin, Goto, Begins, Others

\* The end of an operation.
LEMMA EndKind ==
  ASSUME NowInv, NEW t \in Tasks, Finish(t),
         pc[t] \in {"found", "fail", "negative", "made", "failed", "unlinked", "path", "open", "mmap", "written"}
  PROVE  Ends(t)
<1>1. job \in [Tasks -> JobRecords] /\ pc \in [Tasks -> Places] BY Now DEF Types
<1>2. NoJob.op = "none" BY DEF NoJob
<1> QED BY <1>1, <1>2 DEF Finish, Goto, Ends, Others

\* A step inside an operation that changes no more of the job than its upper inode.
LEMMA StepKind ==
  ASSUME NowInv, NEW t \in Tasks, NEW q, Goto(t, q), job' = job \/ \E v : job' = [job EXCEPT ![t].u = v],
         pc[t] \in {"alloc", "lower", "iget", "grab", "splice", "unlink"}, q = "grab" => pc[t] = "iget"
  PROVE  StepsOn(t)
<1>1. job \in [Tasks -> JobRecords] /\ pc \in [Tasks -> Places] BY Now DEF Types
<1>2. (\A s \in Tasks : s # t => pc'[s] = pc[s]) /\ pc'[t] = q BY <1>1 DEF Goto
<1>3. CASE job' = job BY <1>2, <1>3 DEF StepsOn, Others, SameSize
<1>4. ASSUME NEW v, job' = [job EXCEPT ![t].u = v] PROVE StepsOn(t)
  <2>1. \A s \in Tasks : s # t => job'[s] = job[s] BY <1>1, <1>4
  <2>2. PICK j : j = job[t] OBVIOUS
  <2>3. j \in JobRecords BY <1>1, <2>2
  <2>4. PICK k : k = [j EXCEPT !.u = v] OBVIOUS
  <2>5. SameSize(j, k) BY <2>3, <2>4 DEF SameSize, JobRecords
  <2>6. job'[t] = k BY <1>1, <1>4, <2>2, <2>4
  <2> QED BY <1>2, <2>1, <2>2, <2>5, <2>6 DEF StepsOn, Others
<1> QED BY <1>3, <1>4

\* The kinds of the steps that change no size, but for a size that is new.
LEMMA BeginKinds ==
  ASSUME NowInv, NEW t \in Tasks,
         \/ trfs_lookup(t) \/ trfs_unlink(t) \/ trfs_open(t) \/ trfs_mmap(t)
         \/ trfs_d_revalidate(t) \/ trfs_statfs(t) \/ trfs_getattr(t) \/ trfs_setattr(t)
         \/ trfs_setxattr(t) \/ trfs_readlink(t) \/ trfs_fsync(t)
  PROVE  Begins(t)
<1>1. \A o, d : [NoJob EXCEPT !.op = o, !.d = d].op = o BY DEF NoJob
<1>2. ASSUME NEW o, NEW d, NEW q, Begin(t, [NoJob EXCEPT !.op = o, !.d = d], q), o \notin SizeOps, q # "grab"
      PROVE  Begins(t)
  BY <1>1, <1>2, BeginKind
<1>3. trfs_lookup(t) => Begins(t)
  <2>1. trfs_lookup(t) => \E d : Begin(t, [NoJob EXCEPT !.op = "lookup", !.d = d], "alloc") BY DEF trfs_lookup
  <2>2. "lookup" \notin SizeOps BY DEF SizeOps
  <2> QED BY <1>2, <2>1, <2>2
<1>4. trfs_unlink(t) => Begins(t)
  <2>1. trfs_unlink(t) => \E d : Begin(t, [NoJob EXCEPT !.op = "unlink", !.d = d], "unlink") BY DEF trfs_unlink
  <2>2. "unlink" \notin SizeOps BY DEF SizeOps
  <2> QED BY <1>2, <2>1, <2>2
<1>5. trfs_open(t) => Begins(t)
  <2>1. trfs_open(t) => \E d, f : Begin(t, [NoJob EXCEPT !.op = "open", !.d = d, !.f = f], "open") BY DEF trfs_open
  <2>2. "open" \notin SizeOps BY DEF SizeOps
  <2>3. \A d, f : [NoJob EXCEPT !.op = "open", !.d = d, !.f = f].op = "open" BY DEF NoJob
  <2>4. ASSUME NEW j, j.op = "open", Begin(t, j, "open") PROVE Begins(t) BY <2>2, <2>4, BeginKind
  <2> QED BY <2>1, <2>3, <2>4
<1>6. trfs_mmap(t) => Begins(t)
  <2>1. trfs_mmap(t) => \E d, f, b : Begin(t, [NoJob EXCEPT !.op = "mmap", !.d = d, !.f = f, !.saved = b], "mmap")
    BY DEF trfs_mmap
  <2>2. "mmap" \notin SizeOps BY DEF SizeOps
  <2>3. \A d, f, b : [NoJob EXCEPT !.op = "mmap", !.d = d, !.f = f, !.saved = b].op = "mmap" BY DEF NoJob
  <2>4. ASSUME NEW j, j.op = "mmap", Begin(t, j, "mmap") PROVE Begins(t) BY <2>2, <2>4, BeginKind
  <2> QED BY <2>1, <2>3, <2>4
<1>7. ASSUME NEW o, NEW d, trfs_get_lower_path(t, o, d), o \notin SizeOps PROVE Begins(t)
  BY <1>2, <1>7 DEF trfs_get_lower_path
<1>8. ASSUME NEW o, PathCall(t, o), o \notin SizeOps PROVE Begins(t) BY <1>7, <1>8 DEF PathCall
<1>9. trfs_fsync(t) => Begins(t)
  <2>1. "fsync" \notin SizeOps BY DEF SizeOps
  <2> QED BY <1>7, <2>1 DEF trfs_fsync
<1>10. {"d_revalidate", "statfs", "getattr", "setattr", "xattr", "readlink"} \cap SizeOps = {} BY DEF SizeOps
<1> QED BY <1>3, <1>4, <1>5, <1>6, <1>8, <1>9, <1>10
       , Revalidates DEF trfs_statfs, trfs_getattr, trfs_setattr, trfs_setxattr, trfs_readlink

\* The actions that end an operation.
LEMMA EndKinds ==
  ASSUME NowInv, NEW t \in Tasks,
         \/ LookupReturn(t) \/ CreateReturn(t) \/ UnlinkReturn(t) \/ trfs_put_lower_path(t)
         \/ OpenReturn(t) \/ MmapReturn(t) \/ WriteReturn(t)
  PROVE  Ends(t)
<1>1. /\ Finish(t)
      /\ pc[t] \in {"found", "fail", "negative", "made", "failed", "unlinked", "path", "open", "mmap", "written"}
  BY DEF LookupReturn, CreateReturn, UnlinkReturn, trfs_put_lower_path, OpenReturn, MmapReturn, WriteReturn
<1> QED BY <1>1, EndKind

\* The actions inside an operation.
LEMMA StepKinds ==
  ASSUME NowInv, NEW t \in Tasks,
         \/ new_dentry_private_data(t) \/ LookupLower(t) \/ iget5_locked(t) \/ trfs_iget(t) \/ d_splice_alias(t)
         \/ VfsUnlink(t)
  PROVE  StepsOn(t)
<1>1. pc[t] \in {"alloc", "lower", "iget", "grab", "splice", "unlink"}
  BY DEF new_dentry_private_data, LookupLower, iget5_locked, trfs_iget, d_splice_alias, VfsUnlink
<1>2. \E q : Goto(t, q) /\ (q = "grab" => pc[t] = "iget")
  <2> DEFINE R == \E q : Goto(t, q) /\ (q = "grab" => pc[t] = "iget")
  <2>1. ASSUME NEW q, Goto(t, q), q # "grab" \/ pc[t] = "iget" PROVE R BY <2>1
  <2>2. new_dentry_private_data(t) => Goto(t, "lower") \/ Goto(t, "fail") BY DEF new_dentry_private_data
  <2>3. LookupLower(t) => Goto(t, "negative") \/ Goto(t, "iget") \/ Goto(t, "fail") BY DEF LookupLower
  <2>4. Unwind(t) => Goto(t, "fail") \/ Goto(t, "failed") BY DEF Unwind
  <2>5. iget5_locked(t) => pc[t] = "iget" /\ (Unwind(t) \/ Goto(t, "splice") \/ Goto(t, "grab"))
    BY DEF iget5_locked
  <2>6. trfs_iget(t) => Unwind(t) \/ Goto(t, "splice") BY DEF trfs_iget
  <2>7. d_splice_alias(t) => Goto(t, "found") \/ Goto(t, "made") \/ Goto(t, "linked")
    <3> SUFFICES ASSUME d_splice_alias(t) PROVE Goto(t, "found") \/ Goto(t, "made") \/ Goto(t, "linked") OBVIOUS
    <3>1. pc[t] = "splice" BY DEF d_splice_alias
    <3>2. job[t].op \in {"lookup", "create", "link"} BY <3>1, Now DEF OpAt
    <3> QED BY <3>2 DEF d_splice_alias
  <2>8. VfsUnlink(t) => Goto(t, "unlinked") BY DEF VfsUnlink
  <2> HIDE DEF R
  <2>9. R BY <2>1, <2>2, <2>3, <2>4, <2>5, <2>6, <2>7, <2>8
  <2> QED BY <2>9 DEF R
<1>3. job' = job \/ \E v : job' = [job EXCEPT ![t].u = v]
  BY DEF new_dentry_private_data, LookupLower, iget5_locked, trfs_iget, d_splice_alias, VfsUnlink
<1> QED BY <1>1, <1>2, <1>3, StepKind

\* trfs_create goes on in the same operation.
LEMMA TurnKind == ASSUME NowInv, NEW t \in Tasks, trfs_create(t) PROVE Turns(t)
<1>1. job \in [Tasks -> JobRecords] /\ pc \in [Tasks -> Places] BY Now DEF Types
<1>2. (\A s \in Tasks : s # t => pc'[s] = pc[s]) /\ pc'[t] # "grab" BY <1>1 DEF trfs_create, Goto
<1>3. job' = [job EXCEPT ![t].op = "create"] /\ pc[t] = "negative" BY DEF trfs_create
<1>4. \A s \in Tasks : s # t => job'[s] = job[s] BY <1>1, <1>3
<1>5. job'[t].op = "create" /\ job'[t].d = job[t].d
  <2>1. job[t] \in JobRecords BY <1>1
  <2>2. PICK k : k = [job[t] EXCEPT !.op = "create"] OBVIOUS
  <2>3. k.op = "create" /\ k.d = job[t].d BY <2>1, <2>2 DEF JobRecords
  <2>4. job'[t] = k BY <1>1, <1>3, <2>2
  <2> QED BY <2>3, <2>4
<1> QED BY <1>2, <1>3, <1>4, <1>5 DEF Turns, Others

\* The actions that belong to no task.
LEMMA IdleKinds ==
  ASSUME \/ \E f \in Files : trfs_file_release(f) \/ Munmap(f)
         \/ \E d \in Dents : Prune(d)
         \/ \E x \in LDents : LowerUnlink(x)
  PROVE  Idles
BY DEF trfs_file_release, Munmap, Prune, LowerUnlink, Idles


\* The jobs after task t, with job j, became one of those that change the size
\* of i; if m, the lower size changed and t does not copy it.
Joined(t, j, i, m) ==
  /\ job' \in [Tasks -> JobRecords]
  /\ SameJob(j, job'[t]) /\ job'[t].size = j.size /\ (job'[t].alone <=> Sizing(i) = {})
  /\ \A s \in Tasks : s # t => /\ SameJob(job[s], job'[s]) /\ job'[s].size = job[s].size
                               /\ job'[s].alone <=> job[s].alone /\ s \notin Sizing(i)
  /\ torn' = (IF Sizing(i) = {} /\ ~m THEN torn ELSE torn \cup {i}) /\ raced' = raced /\ cut' = cut

\* What Sizes says of torn, the jobs and the steps.
LEMMA Joins ==
  ASSUME NowInv, NEW t \in Tasks, NEW j \in JobRecords, NEW i, NEW m, Sizes(t, j, i, m)
  PROVE  Joined(t, j, i, m)
<1>1. PICK b \in BOOLEAN : b = (Sizing(i) = {}) OBVIOUS
<1>2. job \in [Tasks -> JobRecords] BY Now DEF Types
<1>3. job' = [s \in Tasks |-> IF s = t THEN [j EXCEPT !.alone = b]
                              ELSE IF s \in Sizing(i) THEN [job[s] EXCEPT !.alone = FALSE]
                              ELSE job[s]]
  BY <1>1 DEF Sizes
<1>4. PICK k : k = [j EXCEPT !.alone = b] OBVIOUS
<1>5. k.size = j.size /\ k.alone = b BY <1>4 DEF JobRecords
<1>6. job'[t] = k BY <1>3, <1>4
<1>7. job'[t].size = j.size /\ (job'[t].alone <=> Sizing(i) = {}) BY <1>1, <1>5, <1>6
<1>8. ASSUME NEW s \in Tasks, s # t
      PROVE  job'[s].size = job[s].size /\ (job'[s].alone <=> job[s].alone /\ s \notin Sizing(i))
  <2>1. CASE s \notin Sizing(i)
    <3>1. job'[s] = job[s] BY <1>3, <1>8, <2>1
    <3> QED BY <2>1, <3>1
  <2>2. CASE s \in Sizing(i)
    <3>1. PICK r : r = [job[s] EXCEPT !.alone = FALSE] OBVIOUS
    <3>2. job[s] \in JobRecords BY <1>2
    <3>3. r.size = job[s].size /\ r.alone = FALSE BY <3>1, <3>2 DEF JobRecords
    <3>4. job'[s] = r BY <1>3, <1>8, <2>2, <3>1
    <3> QED BY <2>2, <3>3, <3>4
  <2> QED BY <2>1, <2>2
<1>9. Gets(t, job'[t]) /\ SameJob(j, job'[t]) BY SizesIs
<1>10. torn' = (IF Sizing(i) = {} /\ ~m THEN torn ELSE torn \cup {i}) /\ raced' = raced /\ cut' = cut BY DEF Sizes
<1> QED BY <1>7, <1>8, <1>9, <1>10 DEF Joined, Gets

\* A dentry with an inode, and its lower inode.
Leads(d, i) == d \in Dents /\ dent[d] # None /\ dent[d].inode # None /\ i \in Lowers /\ ldent[dent[d].lower].ino = i

\* A write begins, or a queued one is done: the lower size grows if g.
WriteStep(t, j, i, q, g) ==
  /\ pc[t] = "idle" /\ Joined(t, j, i, g /\ q = "written") /\ j.op = "write" /\ Leads(j.d, i)
  /\ Went(t, q)
  /\ lsize' = (IF g THEN [lsize EXCEPT ![i] = @ + 1] ELSE lsize)
  /\ dent' = dent /\ upper' = upper /\ ldent' = ldent

\* trfs_write in terms of what it does to sizes.
LEMMA WriteIs ==
  ASSUME NowInv, NEW t \in Tasks, trfs_write(t) \/ AioDone(t)
  PROVE  \E j, i : \E q \in {"getsize", "written"}, g \in BOOLEAN : WriteStep(t, j, i, q, g)
<1>0. PICK f \in Files, q \in {"getsize", "written"}, g \in BOOLEAN : LowerWrite(t, f, q, g) BY WritesBelow
<1>1. /\ file[f] # None
      /\ BeginSize(t, [NoJob EXCEPT !.op = "write", !.d = file[f].d, !.f = f], ldent[file[f].lower].ino, q,
                   g /\ q = "written")
      /\ lsize' = (IF g THEN [lsize EXCEPT ![ldent[file[f].lower].ino] = @ + 1] ELSE lsize)
      /\ dent' = dent /\ upper' = upper /\ ldent' = ldent
  BY <1>0 DEF LowerWrite
<1>2. PICK d, i : d = file[f].d /\ i = ldent[file[f].lower].ino OBVIOUS
<1>3. d \in Dents /\ dent[d] # None /\ dent[d].inode # None /\ dent[d].lower = file[f].lower
  BY <1>1, <1>2, FileFacts
<1>4. Leads(d, i)
  <2>1. ldent[dent[d].lower].ino \in Lowers BY <1>3, PositiveFacts
  <2> QED BY <1>2, <1>3, <2>1 DEF Leads
<1>5. PICK j : j = [NoJob EXCEPT !.op = "write", !.d = d, !.f = f] OBVIOUS
<1>6. j \in JobRecords /\ j.op = "write" /\ j.d = d
  <2>1. j = [op |-> "write", d |-> d, old |-> None, u |-> None, f |-> f, saved |-> FALSE, size |-> 0,
             alone |-> FALSE]
    BY <1>5 DEF NoJob
  <2> QED BY <1>3, <2>1, NewJob
<1>7. PICK m : m = (g /\ q = "written") OBVIOUS
<1>8. BeginSize(t, j, i, q, m) BY <1>1, <1>2, <1>5, <1>7
<1>9. pc[t] = "idle" /\ Went(t, q) BY <1>8, InPlaces, GotoIs DEF BeginSize
<1>10. Joined(t, j, i, m) BY <1>6, <1>8, Joins DEF BeginSize
<1>11. lsize' = (IF g THEN [lsize EXCEPT ![i] = @ + 1] ELSE lsize) BY <1>1, <1>2
<1>12. WriteStep(t, j, i, q, g) BY <1>1, <1>4, <1>6, <1>7, <1>9, <1>10, <1>11 DEF WriteStep
<1> QED BY <1>12

\* A truncation begins.
TruncateStep(t, j, i) ==
  /\ pc[t] = "idle" /\ Joined(t, j, i, FALSE) /\ j.op = "truncate" /\ Leads(j.d, i)
  /\ Went(t, "notify")
  /\ upper' = [upper EXCEPT ![dent[j.d].inode].size = 0]
  /\ dent' = dent /\ lsize' = lsize /\ ldent' = ldent

\* A truncating setattr in terms of what it does to sizes.
LEMMA TruncateIs == ASSUME NowInv, NEW t \in Tasks, Truncate(t) PROVE \E j, i : TruncateStep(t, j, i)
<1>1. PICK d \in Dents :
        /\ Reached(d)
        /\ BeginSize(t, [NoJob EXCEPT !.op = "truncate", !.d = d], ldent[dent[d].lower].ino, "notify", FALSE)
        /\ upper' = [upper EXCEPT ![dent[d].inode].size = 0]
        /\ dent' = dent /\ ldent' = ldent /\ lsize' = lsize
  BY DEF Truncate
<1>2. dent[d] # None /\ dent[d].inode # None BY <1>1, ReachedIs
<1>3. PICK i : i = ldent[dent[d].lower].ino OBVIOUS
<1>4. Leads(d, i)
  <2>1. ldent[dent[d].lower].ino \in Lowers BY <1>2, PositiveFacts
  <2> QED BY <1>2, <1>3, <2>1 DEF Leads
<1>5. PICK j : j = [NoJob EXCEPT !.op = "truncate", !.d = d] OBVIOUS
<1>6. j \in JobRecords /\ j.op = "truncate" /\ j.d = d
  <2>1. j = [op |-> "truncate", d |-> d, old |-> None, u |-> None, f |-> None, saved |-> FALSE, size |-> 0,
             alone |-> FALSE]
    BY <1>5 DEF NoJob
  <2>2. "truncate" \in PathOps BY DEF PathOps
  <2> QED BY <2>1, <2>2, NewJob
<1>7. BeginSize(t, j, i, "notify", FALSE) BY <1>1, <1>3, <1>5
<1>8. pc[t] = "idle" /\ Went(t, "notify") BY <1>7, InPlaces, GotoIs DEF BeginSize
<1>9. Joined(t, j, i, FALSE) BY <1>6, <1>7, Joins DEF BeginSize
<1>10. TruncateStep(t, j, i) BY <1>1, <1>4, <1>6, <1>8, <1>9 DEF TruncateStep
<1> QED BY <1>10

\* A link begins; it fails below, or makes the lower dentry x an entry of i.
LinkStep(t, j, i, x) ==
  /\ pc[t] = "negative" /\ Joined(t, j, i, FALSE) /\ j.op = "link" /\ j.d = job[t].d /\ Leads(j.old, i)
  /\ j.size = upper[dent[j.old].inode].size
  /\ x = dent[job[t].d].lower /\ x \in LDents /\ ldent[x] # None
  /\ dent' = dent /\ upper' = upper /\ lsize' = lsize
  /\ \/ Went(t, "failed") /\ ldent' = ldent
     \/ Went(t, "iget") /\ ldent[x].ino = None /\ \E r : OneLower(ldent', x, r) /\ r.ino = i

\* trfs_link in terms of what it does to sizes.
LEMMA LinkIs == ASSUME NowInv, NEW t \in Tasks, trfs_link(t) PROVE \E j, i, x : LinkStep(t, j, i, x)
<1>1. /\ pc[t] = "negative" /\ dent' = dent /\ upper' = upper /\ lsize' = lsize BY DEF trfs_link
<1>2. PICK x : x = dent[job[t].d].lower OBVIOUS
<1>3. job[t] \in JobRecords /\ LowerOf(t) = x /\ x \in LDents /\ ldent[x] # None BY <1>1, <1>2, NegativeFacts
<1>4. PICK old \in Dents :
        LET i == ldent[dent[old].lower].ino IN
        /\ Found(old)
        /\ Sizes(t, [job[t] EXCEPT !.op = "link", !.old = old, !.size = upper[dent[old].inode].size], i, FALSE)
        /\ \/ ldent[x].ino = None /\ ldent' = [ldent EXCEPT ![x].ino = i] /\ Goto(t, "iget")
           \/ Goto(t, "failed") /\ ldent' = ldent
  BY <1>3 DEF trfs_link
<1>5. /\ dent[old] # None /\ dent[old].inode # None BY <1>4 DEF Found, Positive
<1>6. PICK i, n : i = ldent[dent[old].lower].ino /\ n = upper[dent[old].inode].size OBVIOUS
<1>7. i \in Lowers /\ n \in Nat
  <2>1. dent[old].inode \in Uppers /\ ldent[dent[old].lower].ino \in Lowers BY <1>5, PositiveFacts
  <2>2. upper[dent[old].inode].size \in Nat BY <2>1, Now, Fields
  <2> QED BY <1>6, <2>1, <2>2
<1>8. PICK j : j = [job[t] EXCEPT !.op = "link", !.old = old, !.size = n] OBVIOUS
<1>9. j \in JobRecords /\ j.op = "link" /\ j.d = job[t].d /\ j.old = old /\ j.size = n
  BY <1>3, <1>7, <1>8 DEF JobRecords
<1>10. Sizes(t, j, i, FALSE) BY <1>4, <1>6, <1>8
<1>11. Joined(t, j, i, FALSE) BY <1>9, <1>10, Joins
<1>12. Leads(j.old, i) BY <1>5, <1>6, <1>7, <1>9 DEF Leads
<1>13. j.size = upper[dent[j.old].inode].size BY <1>6, <1>9
<1>14. \/ Went(t, "failed") /\ ldent' = ldent
       \/ Went(t, "iget") /\ ldent[x].ino = None /\ \E r : OneLower(ldent', x, r) /\ r.ino = i
  <2>1. CASE Goto(t, "failed") /\ ldent' = ldent BY <2>1, InPlaces, GotoIs
  <2>2. CASE ldent[x].ino = None /\ ldent' = [ldent EXCEPT ![x].ino = i] /\ Goto(t, "iget")
    <3>1. PICK ld : ld = ldent' OBVIOUS
    <3>2. ld = [ldent EXCEPT ![x].ino = i] BY <2>2, <3>1
    <3>3. i \in Lowers \cup {None} BY <1>7
    <3>7. x \in LDents /\ ldent[x] # None BY <1>3
    <3>4. PICK r : OneLower(ld, x, r) /\ r.ino = i BY <3>2, <3>3, <3>7, InoField
    <3>5. Went(t, "iget") BY <2>2, InPlaces, GotoIs
    <3>6. OneLower(ldent', x, r) BY <3>1, <3>4
    <3> QED BY <2>2, <3>4, <3>5, <3>6
  <2> QED BY <1>4, <1>6, <2>1, <2>2
<1>15. LinkStep(t, j, i, x)
  BY <1>1, <1>2, <1>3, <1>9, <1>11, <1>12, <1>13, <1>14 DEF LinkStep
<1> QED BY <1>15

\* A task keeps its dentry as long as it is at work, and comes to where a new
\* inode is filled in from where inodes are looked for.
KeepsDent(s) ==
  /\ pc[s] # "idle" /\ pc'[s] # "idle" => job'[s].d = job[s].d
  /\ pc'[s] = "grab" => pc[s] = "grab" \/ iget5_locked(s)

\* No step takes the lower path of a dentry from a task that works on its size.
LEMMA DentKept == ASSUME NowInv, Next, NEW s \in Tasks PROVE KeepsDent(s)
<1>1. ASSUME NEW t \in Tasks, Begins(t) \/ Ends(t) \/ Turns(t) \/ StepsOn(t), pc[t] = "iget" => iget5_locked(t)
      PROVE  KeepsDent(s)
  <2>1. CASE s = t BY <1>1, <2>1 DEF Begins, Ends, Turns, StepsOn, SameSize, KeepsDent
  <2>2. CASE s # t BY <1>1, <2>2 DEF Begins, Ends, Turns, StepsOn, Others, KeepsDent
  <2> QED BY <2>1, <2>2
<1>2. CASE Idles BY <1>2 DEF Idles, KeepsDent
<1>3. ASSUME NEW t \in Tasks, NEW q, q # "grab", Went(t, q), NEW j, Gets(t, j), pc[t] = "idle" \/ j.d = job[t].d
      PROVE  KeepsDent(s)
  BY <1>3 DEF Went, Gets, SameJob, KeepsDent
<1>4. ASSUME NEW t \in Tasks, NEW j, NEW i, NEW m, Joined(t, j, i, m) PROVE Gets(t, job'[t]) /\ job'[t].d = j.d
  BY <1>4 DEF Joined, Gets, SameJob
<1>5. ASSUME NEW t \in Tasks, trfs_write(t) \/ AioDone(t) PROVE KeepsDent(s)
  <2>1. PICK j, i : \E q \in {"getsize", "written"}, g \in BOOLEAN : WriteStep(t, j, i, q, g) BY <1>5, WriteIs
  <2>2. \E m : Joined(t, j, i, m) /\ pc[t] = "idle" /\ (Went(t, "getsize") \/ Went(t, "written")) BY <2>1 DEF WriteStep
  <2> QED BY <1>3, <1>4, <2>2
<1>6. ASSUME NEW t \in Tasks, Truncate(t) PROVE KeepsDent(s)
  <2>1. PICK j, i : TruncateStep(t, j, i) BY <1>6, TruncateIs
  <2>2. Joined(t, j, i, FALSE) /\ pc[t] = "idle" /\ Went(t, "notify") BY <2>1 DEF TruncateStep
  <2> QED BY <1>3, <1>4, <2>2
<1>7. ASSUME NEW t \in Tasks, trfs_link(t) PROVE KeepsDent(s)
  <2>1. PICK j, i, x : LinkStep(t, j, i, x) BY <1>7, LinkIs
  <2>2. Joined(t, j, i, FALSE) /\ j.d = job[t].d /\ (Went(t, "iget") \/ Went(t, "failed")) BY <2>1 DEF LinkStep
  <2> QED BY <1>3, <1>4, <2>2
<1>8. ASSUME NEW t \in Tasks, RestoreSize(t) \/ notify_change(t) \/ CopySize(t) PROVE KeepsDent(s)
  <2>1. job \in [Tasks -> JobRecords] /\ pc \in [Tasks -> Places] BY Now DEF Types
  <2>2. \E q : q # "grab" /\ pc' = [pc EXCEPT ![t] = q] BY <1>8 DEF RestoreSize, notify_change, CopySize, Goto
  <2>3. job' = job \/ \E n : job' = [job EXCEPT ![t].size = n] BY <1>8 DEF RestoreSize, notify_change, CopySize
  <2>4. job'[s].d = job[s].d
    <3>1. \A r \in JobRecords : \A n : [r EXCEPT !.size = n].d = r.d BY DEF JobRecords
    <3>2. ASSUME NEW n, job' = [job EXCEPT ![t].size = n] PROVE job'[s].d = job[s].d
      <4>1. job'[s] = IF s = t THEN [job[s] EXCEPT !.size = n] ELSE job[s] BY <2>1, <3>2
      <4> QED BY <2>1, <3>1, <4>1
    <3> QED BY <2>3, <3>2
  <2> QED BY <2>1, <2>2, <2>4 DEF KeepsDent
<1>9. ASSUME NEW t \in Tasks,
             \/ new_dentry_private_data(t) \/ LookupLower(t) \/ iget5_locked(t) \/ trfs_iget(t) \/ d_splice_alias(t)
             \/ VfsUnlink(t)
      PROVE  KeepsDent(s)
  <2>1. pc[t] = "iget" => iget5_locked(t)
    BY <1>9 DEF new_dentry_private_data, LookupLower, trfs_iget, d_splice_alias, VfsUnlink
  <2> QED BY <1>1, <1>9, <2>1, StepKinds
<1>10. ASSUME NEW t \in Tasks, Begins(t) \/ Ends(t) \/ Turns(t) PROVE KeepsDent(s)
  <2>1. pc[t] # "iget" BY <1>10 DEF Begins, Ends, Turns
  <2> QED BY <1>1, <1>10, <2>1
<1> QED BY <1>2, <1>5, <1>6, <1>7, <1>8, <1>9, <1>10, BeginKinds, EndKinds, TurnKind, IdleKinds DEF Next

\* The invariant of TrfsObjectsProofs before and after a step.
LEMMA ThenHolds == ASSUME IInv, Next PROVE NowInv /\ ThenInv
<1>1. IInv' BY StepInv
<1>2. ThenInv BY <1>1 DEF ThenInv, IInv, Inv, Types, DentsOK, DentOK, UppersOK, FilesOK, FileOK, TasksOK, Distinct,
                          Counted
<1> QED BY <1>2 DEF IInv, NowInv

\* The lower inode that a task looks up stays the same.
LEMMA InodeKept ==
  ASSUME IInv, Next, NEW s \in Tasks, pc[s] \in {"iget", "grab", "splice"}, pc'[s] \in {"iget", "grab", "splice"}
  PROVE  LowerInode(s)' = LowerInode(s) /\ LowerInode(s) \in Lowers
<1>1. NowInv /\ ThenInv BY ThenHolds
<1>2. PICK d : d = job[s].d OBVIOUS
<1>3. job'[s].d = d BY <1>1, <1>2, DentKept DEF KeepsDent
<1>4. /\ TaskOK(dent, upper, ldent, file, pc[s], job[s]) /\ d \in Dents /\ dent[d] # None
      /\ dent[d].lower \in LDents \cup {None} /\ DentOK(dent[d], upper, ldent) /\ LowerOf(s) = dent[d].lower
  BY <1>1, <1>2, TaskFacts
<1>5. /\ dent[d].lower # None /\ ldent[dent[d].lower].ino # None /\ ldent[dent[d].lower] # None
  BY <1>2, <1>4 DEF TaskOK, DentOK
<1>6. TaskOK(dent', upper', ldent', file', pc'[s], job'[s]) /\ DentsOK(dent', upper', ldent')
  BY <1>1 DEF ThenInv, Inv, TasksOK
<1>7. dent'[d] # None /\ dent'[d].lower # None /\ ldent'[dent'[d].lower].ino # None
  BY <1>3, <1>6 DEF TaskOK
<1>8. ldent'[dent'[d].lower] # None BY <1>4, <1>6, <1>7 DEF DentsOK, DentOK
<1>9. DentFrame(dent') /\ LowerFrame(ldent') BY <1>1, Framed
<1>10. dent'[d].lower = dent[d].lower BY <1>4, <1>5, <1>7, <1>9 DEF DentFrame
<1>11. ldent'[dent[d].lower].ino = ldent[dent[d].lower].ino
  BY <1>4, <1>5, <1>7, <1>8, <1>9, <1>10 DEF LowerFrame
<1>12. ldent[dent[d].lower].ino \in Lowers
  <2>1. ldent[dent[d].lower].ino \in Lowers \cup {None} BY <1>1, <1>4, <1>5, Now, Fields
  <2> QED BY <1>5, <2>1
<1>13. LowerInode(s) = ldent[dent[d].lower].ino BY <1>4 DEF LowerInode
<1>14. LowerInode(s)' = ldent'[dent'[d].lower].ino BY <1>3 DEF LowerInode, LowerOf, D
<1> QED BY <1>10, <1>11, <1>12, <1>13, <1>14


-----------------------------------------------------------------------------
(* One upper inode for a lower inode *)

\* The upper inodes that a step leaves have the lower inode that they had.
UpperFrame(up) == \A u \in Uppers : up[u].lower = None \/ (up[u].lower = upper[u].lower /\ up[u].size = upper[u].size)

\* trfs_iget fills in the new inode v of lower inode i.
GrabStep(t, v, i) ==
  /\ pc[t] = "grab" /\ Others(t) /\ pc'[t] = "splice" /\ i = LowerInode(t) /\ i \in Lowers
  /\ v = job[t].u /\ v \in Uppers /\ upper[v].state = "new" /\ upper[v].lower = None
  /\ upper'[v].lower = i /\ upper'[v].size = lsize[i]
  /\ \A u \in Uppers : u # v => upper'[u] = upper[u]
  /\ lsize' = lsize /\ raced' = raced /\ torn' = torn /\ cut' = cut

\* trfs_iget leaves the upper inodes alone or fills in one fresh one.
LEMMA GrabIs ==
  ASSUME IInv, NEW t \in Tasks, trfs_iget(t)
  PROVE  upper' = upper \/ \E v, i : GrabStep(t, v, i)
<1>1. NowInv BY DEF IInv, NowInv
<1>2. PICK v, i : v = job[t].u /\ i = LowerInode(t) OBVIOUS
<1>3. CASE upper' = [upper EXCEPT ![v] = [state |-> "live", lower |-> i, size |-> lsize[i]]] /\ Goto(t, "splice")
  <2>1. pc[t] = "grab" /\ lsize' = lsize /\ raced' = raced /\ torn' = torn /\ cut' = cut
    BY DEF trfs_iget, aside
  <2>2. TaskOK(dent, upper, ldent, file, pc[t], job[t]) /\ Shape(pc[t], job[t]) BY <1>1, <2>1, TaskFacts
  <2>3. v \in Uppers
    <3>1. v \in Uppers \cup {None} BY <1>1, <1>2, Now, Fields
    <3> QED BY <1>2, <2>1, <2>2, <3>1 DEF Shape
  <2>4. upper[v].state = "new" /\ upper[v].lower = None
    <3>1. upper[v].state = "new" BY <1>2, <2>1, <2>2 DEF TaskOK
    <3> QED BY <1>1, <2>3, <3>1, Now DEF UppersOK
  <2>5. i \in Lowers
    <3>1. /\ job[t].d \in Dents /\ dent[job[t].d] # None /\ dent[job[t].d].lower \in LDents \cup {None}
          /\ LowerOf(t) = dent[job[t].d].lower /\ DentOK(dent[job[t].d], upper, ldent)
      BY <1>1, <2>1, TaskFacts
    <3>2. dent[job[t].d].lower # None /\ ldent[dent[job[t].d].lower].ino # None BY <2>1, <2>2 DEF TaskOK
    <3>3. ldent[dent[job[t].d].lower].ino \in Lowers \cup {None} BY <1>1, <3>1, <3>2, Now, Fields DEF DentOK
    <3> QED BY <1>2, <3>1, <3>2, <3>3 DEF LowerInode
  <2>6. PICK r : r = [state |-> "live", lower |-> i, size |-> lsize[i]] OBVIOUS
  <2>7. r.lower = i /\ r.size = lsize[i] BY <2>6
  <2>8. upper \in [Uppers -> UpperRecords] /\ upper' = [upper EXCEPT ![v] = r] BY <1>1, <1>3, <2>6, Now DEF Types
  <2>9. upper'[v] = r /\ \A u \in Uppers : u # v => upper'[u] = upper[u] BY <2>3, <2>8
  <2>10. Others(t) BY <1>1, StepKinds DEF StepsOn
  <2>11. pc'[t] = "splice"
    <3>1. Went(t, "splice") BY <1>1, <1>3, InPlaces, GotoIs
    <3> QED BY <3>1 DEF Went
  <2>12. GrabStep(t, v, i) BY <1>2, <2>1, <2>3, <2>4, <2>5, <2>7, <2>9, <2>10, <2>11 DEF GrabStep
  <2> QED BY <2>12
<1> QED BY <1>2, <1>3 DEF trfs_iget

\* iget5_locked only makes an inode new.
LEMMA IgetUppers ==
  ASSUME NowInv, NEW t \in Tasks, iget5_locked(t)
  PROVE  UpperFrame(upper')
<1>1. CASE upper' = upper BY <1>1 DEF UpperFrame
<1>2. ASSUME NEW v \in Uppers, upper' = [upper EXCEPT ![v].state = "new"] PROVE UpperFrame(upper')
  <2>1. upper \in [Uppers -> UpperRecords] BY Now DEF Types
  <2>2. \A r \in UpperRecords : [r EXCEPT !.state = "new"].lower = r.lower /\ [r EXCEPT !.state = "new"].size = r.size
    BY DEF UpperRecords
  <2>3. \A u \in Uppers : upper'[u] = IF u = v THEN [upper[u] EXCEPT !.state = "new"] ELSE upper[u] BY <1>2, <2>1
  <2> QED BY <2>1, <2>2, <2>3 DEF UpperFrame
<1> QED BY <1>1, <1>2 DEF iget5_locked

\* What goes does not change.
LEMMA SettleUppers ==
  ASSUME NEW dn, NEW rf, Settle(dn, ldent, rf, iref)
  PROVE  UpperFrame(upper') /\ lsize' = lsize /\ torn' = torn /\ cut' = cut
<1>1. \A u \in Uppers : upper'[u] = NoUpper \/ upper'[u] = upper[u] BY DEF Settle
<1>2. NoUpper.lower = None BY DEF NoUpper
<1> QED BY <1>1, <1>2 DEF Settle, UpperFrame, aside

\* No step but these changes an upper inode that it leaves.
LEMMA UppersFramed ==
  ASSUME IInv, Next
  PROVE  \/ UpperFrame(upper')
         \/ \E t \in Tasks : \E v, i : GrabStep(t, v, i)
         \/ \E t \in Tasks : (CopySize(t) \/ RestoreSize(t) \/ Truncate(t)) /\ \A u \in Uppers : KeptUpper(upper[u], upper'[u])
<1>1. NowInv BY DEF IInv, NowInv
<1>2. upper' = upper => UpperFrame(upper') BY DEF UpperFrame
<1>3. ASSUME NEW t \in Tasks, LookupLower(t) \/ trfs_create(t) \/ trfs_link(t) \/ VfsUnlink(t) PROVE upper' = upper
  BY <1>3 DEF LookupLower, trfs_create, trfs_link, VfsUnlink
<1>4. ASSUME NEW x \in LDents, LowerUnlink(x) PROVE upper' = upper BY <1>4 DEF LowerUnlink
<1>5. ASSUME NEW dn, NEW rf, Settle(dn, ldent, rf, iref) PROVE UpperFrame(upper') BY <1>5, SettleUppers
<1> QED BY <1>1, <1>2, <1>3, <1>4, <1>5, Settling, Resting, Resizing, GrabIs, IgetUppers DEF Next

\* While a new inode is filled in, its lower inode has no other upper inode,
\* unless two of these overlap.
GrabInv ==
  \A t \in Tasks : pc[t] = "grab" =>
    /\ Cached(LowerInode(t)) # {} => LowerInode(t) \in raced
    /\ \A s \in Tasks : s # t /\ pc[s] = "grab" /\ LowerInode(s) = LowerInode(t) => LowerInode(t) \in raced

\* A step that fills in a new inode.
LEMMA OneGrabbed ==
  ASSUME IInv, Next, GrabInv, OneUpper, NEW t \in Tasks, NEW v, NEW i, GrabStep(t, v, i)
  PROVE  GrabInv' /\ OneUpper'
<1>1. /\ pc[t] = "grab" /\ pc'[t] = "splice" /\ i = LowerInode(t) /\ i \in Lowers /\ raced' = raced
      /\ v \in Uppers /\ upper[v].lower = None /\ upper'[v].lower = i
      /\ \A u \in Uppers : u # v => upper'[u] = upper[u]
      /\ \A s \in Tasks : s # t => pc'[s] = pc[s]
  BY DEF GrabStep, Others
<1>2. \A k \in Lowers : k # i => Cached(k)' = Cached(k) BY <1>1, NoneAssumption DEF Cached
<1>3. ASSUME NEW s \in Tasks, pc'[s] = "grab"
      PROVE  s # t /\ pc[s] = "grab" /\ LowerInode(s)' = LowerInode(s) /\ LowerInode(s) \in Lowers
  <2>1. s # t /\ pc[s] = "grab" BY <1>1, <1>3
  <2> QED BY <1>3, <2>1, InodeKept
<1>4. ASSUME NEW s \in Tasks, pc'[s] = "grab", Cached(LowerInode(s))' # {} PROVE LowerInode(s)' \in raced'
  <2>1. s # t /\ pc[s] = "grab" /\ LowerInode(s)' = LowerInode(s) /\ LowerInode(s) \in Lowers BY <1>3, <1>4
  <2>2. CASE LowerInode(s) = i BY <1>1, <2>1, <2>2 DEF GrabInv
  <2>3. CASE LowerInode(s) # i
    <3>1. Cached(LowerInode(s)) # {} BY <1>2, <1>4, <2>1, <2>3 DEF Cached
    <3> QED BY <1>1, <2>1, <3>1 DEF GrabInv
  <2> QED BY <2>2, <2>3
<1>5. ASSUME NEW s \in Tasks, pc'[s] = "grab", NEW r \in Tasks, r # s, pc'[r] = "grab",
             LowerInode(r)' = LowerInode(s)'
      PROVE  LowerInode(s)' \in raced'
  <2>1. pc[s] = "grab" /\ LowerInode(s)' = LowerInode(s) /\ pc[r] = "grab" /\ LowerInode(r)' = LowerInode(r)
    BY <1>3, <1>5
  <2> QED BY <1>1, <1>5, <2>1 DEF GrabInv
<1>6. GrabInv' BY <1>4, <1>5 DEF GrabInv
<1>7. ASSUME NEW k \in Lowers, Twins(k)' PROVE k \in raced'
  <2>1. PICK u \in Uppers, w \in Uppers : u # w /\ upper'[u].lower = k /\ upper'[w].lower = k
    BY <1>7 DEF Twins, Cached
  <2>2. CASE k = i
    <3>1. Cached(i) # {} BY <1>1, <2>1, <2>2 DEF Cached
    <3> QED BY <1>1, <2>2, <3>1 DEF GrabInv
  <2>3. CASE k # i
    <3>1. Twins(k) BY <1>1, <2>1, <2>3 DEF Twins, Cached
    <3> QED BY <1>1, <3>1 DEF OneUpper
  <2> QED BY <2>2, <2>3
<1> QED BY <1>6, <1>7 DEF OneUpper

\* A step that gives no upper inode a lower inode.
LEMMA OneKept ==
  ASSUME IInv, Next, GrabInv, OneUpper, \A u \in Uppers : upper'[u].lower = None \/ upper'[u].lower = upper[u].lower
  PROVE  GrabInv' /\ OneUpper'
<1>1. NowInv /\ raced \subseteq raced'
  <2>1. NowInv BY DEF IInv, NowInv
  <2> QED BY <2>1, Framed
<1>2. \A k \in Lowers : \A u \in Uppers : upper'[u].lower = k => upper[u].lower = k BY NoneAssumption
<1>3. ASSUME NEW k \in Lowers, Twins(k)' PROVE k \in raced'
  <2>1. Twins(k) BY <1>2, <1>3 DEF Twins, Cached
  <2> QED BY <1>1, <2>1 DEF OneUpper
<1>4. ASSUME NEW s \in Tasks, pc'[s] = "grab"
      PROVE  /\ LowerInode(s)' = LowerInode(s) /\ LowerInode(s) \in Lowers
             /\ pc[s] = "grab" \/ iget5_locked(s)
  <2>1. pc[s] = "grab" \/ iget5_locked(s) BY <1>1, <1>4, DentKept DEF KeepsDent
  <2>2. pc[s] \in {"iget", "grab", "splice"} BY <2>1 DEF iget5_locked
  <2> QED BY <1>4, <2>1, <2>2, InodeKept
<1>5. ASSUME NEW s \in Tasks, iget5_locked(s), pc'[s] = "grab"
      PROVE  /\ Cached(LowerInode(s)) = {} /\ pc[s] = "iget"
             /\ (\E r \in Tasks : pc[r] = "grab" /\ LowerInode(r) = LowerInode(s)) => LowerInode(s) \in raced'
             /\ \A r \in Tasks : r # s => pc'[r] = pc[r]
  <2>1. StepsOn(s) BY <1>1, <1>5, StepKinds
  <2>2. pc \in [Tasks -> Places] BY <1>1, Now
  <2>3. \/ Goto(s, "fail") \/ Goto(s, "failed") \/ Goto(s, "splice")
        \/ /\ Cached(LowerInode(s)) = {}
           /\ (\E r \in Tasks : pc[r] = "grab" /\ LowerInode(r) = LowerInode(s)) => LowerInode(s) \in raced'
    BY <1>5 DEF iget5_locked, Unwind
  <2>4. pc[s] = "iget" BY <1>5 DEF iget5_locked
  <2> QED BY <1>5, <2>1, <2>2, <2>3, <2>4 DEF StepsOn, Others, Goto
<1>6. ASSUME NEW s \in Tasks, pc'[s] = "grab", Cached(LowerInode(s))' # {} PROVE LowerInode(s)' \in raced'
  <2>1. LowerInode(s)' = LowerInode(s) /\ LowerInode(s) \in Lowers BY <1>4, <1>6
  <2>2. Cached(LowerInode(s)) # {} BY <1>2, <1>6, <2>1 DEF Cached
  <2>3. pc[s] = "grab" BY <1>4, <1>5, <1>6, <2>2
  <2> QED BY <1>1, <2>1, <2>2, <2>3 DEF GrabInv
<1>7. ASSUME NEW s \in Tasks, pc'[s] = "grab", NEW r \in Tasks, r # s, pc'[r] = "grab",
             LowerInode(r)' = LowerInode(s)'
      PROVE  LowerInode(s)' \in raced'
  <2>1. LowerInode(s)' = LowerInode(s) /\ LowerInode(r)' = LowerInode(r) BY <1>4, <1>7
  <2>2. CASE pc[s] = "grab" /\ pc[r] = "grab" BY <1>1, <1>7, <2>1, <2>2 DEF GrabInv
  <2>3. CASE pc[s] # "grab" BY <1>4, <1>5, <1>7, <2>1, <2>3
  <2>4. CASE pc[r] # "grab" BY <1>4, <1>5, <1>7, <2>1, <2>4
  <2> QED BY <2>2, <2>3, <2>4
<1>8. GrabInv' BY <1>6, <1>7 DEF GrabInv
<1> QED BY <1>3, <1>8 DEF OneUpper

\* Every step keeps it.
LEMMA OneStep == IInv /\ GrabInv /\ OneUpper /\ [Next]_vars => GrabInv' /\ OneUpper'
<1> SUFFICES ASSUME IInv, GrabInv, OneUpper, [Next]_vars PROVE GrabInv' /\ OneUpper' OBVIOUS
<1>1. CASE UNCHANGED vars
  BY <1>1 DEF vars, GrabInv, OneUpper, Twins, Cached, LowerInode, LowerOf, D
<1>2. CASE Next
  <2>1. ASSUME UpperFrame(upper') PROVE GrabInv' /\ OneUpper'
    <3>1. \A u \in Uppers : upper'[u].lower = None \/ upper'[u].lower = upper[u].lower BY <2>1 DEF UpperFrame
    <3> QED BY <1>2, <3>1, OneKept
  <2>2. ASSUME \A u \in Uppers : KeptUpper(upper[u], upper'[u]) PROVE GrabInv' /\ OneUpper'
    <3>1. \A u \in Uppers : upper'[u].lower = None \/ upper'[u].lower = upper[u].lower BY <2>2 DEF KeptUpper
    <3> QED BY <1>2, <3>1, OneKept
  <2> QED BY <1>2, <2>1, <2>2, UppersFramed, OneGrabbed
<1> QED BY <1>1, <1>2

\* Nothing is cached at the start.
LEMMA OneInit == Init => GrabInv /\ OneUpper
<1> SUFFICES ASSUME Init PROVE GrabInv /\ OneUpper OBVIOUS
<1>1. \A u \in Uppers : upper[u].lower = None BY DEF Init, NoUpper
<1>2. \A t \in Tasks : pc[t] # "grab" BY DEF Init
<1> QED BY <1>1, <1>2, NoneAssumption DEF GrabInv, OneUpper, Twins, Cached

\* The invariant holds in every state of every behaviour.
LEMMA OneHolds == Spec => [](IInv /\ GrabInv /\ OneUpper)
BY OneInit, OneStep, InitInv, StepInv, PTL DEF Spec

\* Hard links and repeated lookups of a lower inode share one upper inode,
\* unless two trfs_iget of it overlapped.
THEOREM UpperUnique == Spec => []OneUpper
BY OneHolds, PTL

=============================================================================
