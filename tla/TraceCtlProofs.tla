-------------------------- MODULE TraceCtlProofs --------------------------
(***************************************************************************)
(* The safety properties of TrfsMount and TraceCtl, proved for any mounts, *)
(* trace files, bitmaps and bounds and any finite set of callers.          *)
(***************************************************************************)
EXTENDS TraceCtl, FiniteSetTheorems, TLAPS

-----------------------------------------------------------------------------
(* The mounts *)

\* What an attempt holds at each label of trfs_read_super, and what a mount does,
\* besides its device number.
HeldAt(at) ==
  CASE at \in {"none", "kern_path"} -> {}
    [] at = "sb_info" -> {"path"}
    [] at = "page" -> {"path", "sb_info"}
    [] at = "trfile" -> {"path", "sb_info", "page"}
    [] at = "iget" -> {"path", "sb_info", "page", "file"}
    [] at = "root" -> {"path", "sb_info", "page", "file", "active", "inode"}
    [] at \in {"private", "mounted"} -> Resources \ {"minor"}
    [] OTHER -> {}

\* An attempt that did not die holds what its label says.
HeldInv == \A m \in Mounts : pc[m] # "oops" => held[m] \ {"minor"} = HeldAt(pc[m])

\* What the module has set up in each of its states, and that it is loaded
\* while there is an attempt to mount.
ModInv ==
  /\ mod = "out" => caches = {}
  /\ mod = "dentry" => caches = {"inode"}
  /\ mod = "register" => caches = {"inode", "dentry"}
  /\ mod = "in" => caches = {"inode", "dentry", "registered"}
  /\ mod = "going" => caches = {"registered"}
  /\ \A m \in Mounts : pc[m] # "none" => mod = "in"

\* Only a mount has records, and unless reset none is above the counter.
IdsInv ==
  \A m \in Mounts :
    /\ pc[m] # "mounted" => ids[m] = <<>>
    /\ ~reset[m] => \A i \in DOMAIN ids[m] : ids[m][i] <= trecord_id

MountInv == TypeOK /\ HeldInv /\ ModInv /\ OwnTraceFile /\ IdsInv /\ IdsGrow

\* Before anything is loaded the mounts have nothing.
LEMMA MountInit == Init => MountInv
  BY FileAssumption, BoundAssumption, MinorsAssumption
     DEF Init, MountInv, TypeOK, HeldInv, HeldAt, ModInv, OwnTraceFile, IdsInv, IdsGrow

\* Loading and unloading change nothing of a mount, and an unload finds none.
LEMMA ModuleStep ==
  ASSUME MountInv,
         \/ trfs_init_inode_cache \/ trfs_init_dentry_cache \/ register_filesystem
         \/ exit_trfs_fs \/ unregister_filesystem
  PROVE  MountInv'
<1>1. UNCHANGED <<pc, held, tfile, umask, pins, minors, files, trecord_id, ids, reset>>
  BY DEF trfs_init_inode_cache, trfs_init_dentry_cache, register_filesystem, exit_trfs_fs,
         unregister_filesystem, Load
<1>2. HeldInv' /\ OwnTraceFile' /\ IdsInv' /\ IdsGrow'
  BY <1>1 DEF MountInv, HeldInv, HeldAt, OwnTraceFile, IdsInv, IdsGrow
<1>3. ModInv' /\ mod' \in {"out", "dentry", "register", "in", "going"}
          /\ caches' \subseteq {"inode", "dentry", "registered"}
  BY DEF MountInv, TypeOK, ModInv, trfs_init_inode_cache, trfs_init_dentry_cache,
         register_filesystem, exit_trfs_fs, unregister_filesystem, Load
<1>4. TypeOK'
  BY <1>1, <1>3 DEF MountInv, TypeOK
<1> QED BY <1>2, <1>3, <1>4 DEF MountInv

\* An attempt begins with nothing, and a mount that is in use is marked when
\* the counter is set back.
LEMMA MountBegins ==
  ASSUME MountInv, NEW m \in Mounts, Mount(m)
  PROVE  MountInv'
<1> USE DEF MountInv
<1>1. mod = "in" /\ pc[m] = "none" /\ ids[m] = <<>> BY DEF TypeOK, ModInv, IdsInv, Mount, Mountable
<1>2. /\ trecord_id' = -1 /\ reset' = [n \in Mounts |-> n # m /\ (pc[n] # "none" \/ reset[n])]
      /\ UNCHANGED <<tfile, umask, pins, mod, caches, files, ids>>
  BY DEF Mount, module
<1>3. /\ minors' \in 0 .. MaxMinors
      /\ \/ pc' = [pc EXCEPT ![m] = "kern_path"] /\ held' = [held EXCEPT ![m] = {"minor"}]
         \/ UNCHANGED <<pc, held>>
  BY MinorsAssumption DEF TypeOK, Mount
<1>4. TypeOK' /\ HeldInv' /\ ModInv' /\ OwnTraceFile'
  <2>1. reset' \in [Mounts -> BOOLEAN] BY <1>2 DEF TypeOK
  <2>2. -1 \in -1 .. MaxRecs BY BoundAssumption
  <2>3. CASE pc' = [pc EXCEPT ![m] = "kern_path"] /\ held' = [held EXCEPT ![m] = {"minor"}]
    <3>1. TypeOK' BY <1>2, <1>3, <2>1, <2>2, <2>3 DEF TypeOK, Resources
    <3>2. HeldInv'
      <4>1. pc'[m] = "kern_path" /\ held'[m] = {"minor"} BY <2>3 DEF TypeOK
      <4>2. \A n \in Mounts \ {m} : pc'[n] = pc[n] /\ held'[n] = held[n] BY <2>3 DEF TypeOK
      <4>3. held'[m] \ {"minor"} = HeldAt(pc'[m]) BY <4>1 DEF HeldAt
      <4> QED BY <4>2, <4>3 DEF HeldInv
    <3>3. ModInv' BY <1>1, <1>2, <2>3 DEF TypeOK, ModInv
    <3>4. OwnTraceFile' BY <1>2, <2>3 DEF TypeOK, OwnTraceFile
    <3> QED BY <3>1, <3>2, <3>3, <3>4
  <2>4. CASE UNCHANGED <<pc, held>>
    <3>1. TypeOK' BY <1>2, <1>3, <2>1, <2>2, <2>4 DEF TypeOK
    <3>2. HeldInv' /\ ModInv' /\ OwnTraceFile' BY <1>2, <2>4 DEF HeldInv, ModInv, OwnTraceFile
    <3> QED BY <3>1, <3>2
  <2> QED BY <1>3, <2>3, <2>4
<1>5. pc'[m] # "mounted" /\ \A n \in Mounts \ {m} : pc'[n] = pc[n] BY <1>1, <1>3 DEF TypeOK
<1>6. IdsInv'
  <2> SUFFICES ASSUME NEW n \in Mounts
               PROVE  /\ pc'[n] # "mounted" => ids'[n] = <<>>
                      /\ ~reset'[n] => \A i \in DOMAIN ids'[n] : ids'[n][i] <= trecord_id'
    BY DEF IdsInv
  <2>1. CASE n = m BY <1>1, <1>2, <2>1
  <2>2. CASE n # m
    <3>1. pc'[n] = pc[n] /\ ids'[n] = ids[n] BY <1>2, <1>5, <2>2
    <3>2. ~reset'[n] => pc[n] = "none" BY <1>2, <2>2
    <3>3. pc[n] # "mounted" => ids[n] = <<>> BY DEF IdsInv
    <3> QED BY <3>1, <3>2, <3>3
  <2> QED BY <2>1, <2>2
<1>7. IdsGrow'
  <2> SUFFICES ASSUME NEW n \in Mounts, ~reset'[n]
               PROVE  \A i, j \in DOMAIN ids'[n] : i < j => ids'[n][i] < ids'[n][j]
    BY DEF IdsGrow
  <2>1. CASE n = m BY <1>1, <1>2, <2>1
  <2>2. CASE n # m
    <3>1. ids'[n] = ids[n] /\ ~reset[n] BY <1>2, <2>2 DEF TypeOK
    <3> QED BY <3>1 DEF IdsGrow
  <2> QED BY <2>1, <2>2
<1> QED BY <1>4, <1>6, <1>7

\* The labels of trfs_read_super between the first step and the last.
Under == {"kern_path", "sb_info", "page", "trfile", "iget", "root", "private"}

\* A step of an attempt that neither makes a trace file nor mounts.
LEMMA QuietStep ==
  ASSUME MountInv, NEW m \in Mounts, NEW to,
         pc[m] \in Under, to \in {"none", "oops"} \cup Under,
         pc' = [pc EXCEPT ![m] = to],
         NEW h \in SUBSET Resources, held' = [held EXCEPT ![m] = h],
         to # "oops" => h \ {"minor"} = HeldAt(to),
         "file" \in h => "file" \in held[m],
         UNCHANGED <<tfile, umask, pins, module, minors, files, trecord_id, ids, reset>>
  PROVE  MountInv'
<1> USE DEF MountInv
<1>1. TypeOK' BY DEF TypeOK, Under, module
<1>2. HeldInv' BY DEF TypeOK, HeldInv, HeldAt
<1>3. ModInv' BY DEF TypeOK, ModInv, Under, module
<1>4. OwnTraceFile' BY DEF TypeOK, OwnTraceFile
<1>5. IdsInv' BY DEF TypeOK, IdsInv, Under
<1>6. IdsGrow' BY DEF IdsGrow
<1> QED BY <1>1, <1>2, <1>3, <1>4, <1>5, <1>6

\* The steps of trfs_read_super that make no trace file and do not mount: what
\* each error label releases is what the labels before it acquired.
LEMMA AttemptStep ==
  ASSUME MountInv, NEW m \in Mounts,
         \/ KernPath(m) \/ AllocSbInfo(m) \/ AllocPage(m) \/ Iget(m) \/ MakeRoot(m)
         \/ Fail(m, "trfile", {"page", "sb_info", "path"}, "none")
         \/ Fail(m, "private", {"inode"}, "oops")
  PROVE  MountInv'
<1>1. /\ pc[m] \in Under
      /\ held[m] \ {"minor"} = HeldAt(pc[m])
      /\ UNCHANGED <<tfile, umask, pins, module, minors, files, trecord_id, ids, reset>>
  BY DEF MountInv, HeldInv, KernPath, AllocSbInfo, AllocPage, Iget, MakeRoot, Acquire, Fail, Under
<1>2. PICK to \in {"none", "oops"} \cup Under : pc' = [pc EXCEPT ![m] = to]
  BY DEF KernPath, AllocSbInfo, AllocPage, Iget, MakeRoot, Acquire, Fail, Under
<1> DEFINE h == held'[m]
<1>3. /\ held' = [held EXCEPT ![m] = h] /\ h \in SUBSET Resources
      /\ "file" \in h => "file" \in held[m]
  <2>1. /\ held \in [Mounts -> SUBSET Resources]
        /\ \E r \in SUBSET (Resources \ {"file"}) :
             \/ held' = [held EXCEPT ![m] = @ \cup r]
             \/ held' = [held EXCEPT ![m] = @ \ r]
    BY DEF MountInv, TypeOK, Resources, KernPath, AllocSbInfo, AllocPage, Iget, MakeRoot, Acquire, Fail
  <2> QED BY <2>1
<1>4. to # "oops" => h \ {"minor"} = HeldAt(to)
  BY <1>1, <1>2 DEF MountInv, TypeOK, HeldAt, Resources, KernPath, AllocSbInfo, AllocPage, Iget, MakeRoot, Acquire, Fail
<1> HIDE DEF h
<1> QED BY <1>1, <1>2, <1>3, <1>4, QuietStep

\* O_EXCL: the file made is no other mount's.
LEMMA TraceFileMade ==
  ASSUME MountInv, NEW m \in Mounts, Acquire(m, "trfile", {"file"}, "iget"), UNCHANGED umask,
         NEW f \in Files \ files, tfile' = [tfile EXCEPT ![m] = f], files' = files \cup {f}
  PROVE  MountInv'
<1> USE DEF MountInv
<1>1. TypeOK' BY DEF TypeOK, Acquire, module, Resources
<1>2. HeldInv' BY DEF TypeOK, HeldInv, HeldAt, Acquire
<1>3. ModInv' BY DEF TypeOK, ModInv, Acquire, module
<1>4. OwnTraceFile'
  <2>1. tfile'[m] = f /\ f \in files' /\ \A n \in Mounts \ {m} : tfile'[n] = tfile[n] /\ held'[n] = held[n]
    BY DEF TypeOK, Acquire
  <2>2. \A n \in Mounts \ {m} : "file" \in held[n] => tfile[n] \in files /\ tfile[n] # f
    BY DEF OwnTraceFile
  <2> QED BY <2>1, <2>2 DEF OwnTraceFile
<1>5. IdsInv' BY DEF TypeOK, IdsInv, Acquire
<1>6. IdsGrow' BY DEF IdsGrow, Acquire
<1> QED BY <1>1, <1>2, <1>3, <1>4, <1>5, <1>6

\* The last step of trfs_read_super: the attempt has all it needs and is mounted.
LEMMA MountDone ==
  ASSUME MountInv, NEW m \in Mounts, Acquire(m, "private", {}, "mounted"),
         umask' = [umask EXCEPT ![m] = Bits], UNCHANGED <<tfile, files>>
  PROVE  MountInv'
<1> USE DEF MountInv
<1>1. TypeOK' BY DEF TypeOK, Acquire, module
<1>2. HeldInv' BY DEF TypeOK, HeldInv, HeldAt, Acquire
<1>3. ModInv' BY DEF TypeOK, ModInv, Acquire, module
<1>4. OwnTraceFile' BY DEF TypeOK, OwnTraceFile, Acquire
<1>5. IdsInv' BY DEF TypeOK, IdsInv, Acquire
<1>6. IdsGrow' BY DEF IdsGrow, Acquire
<1> QED BY <1>1, <1>2, <1>3, <1>4, <1>5, <1>6

\* The ids of a trace are integers.
LEMMA IdIsInt ==
  ASSUME NEW s \in Seq(0 .. MaxRecs), NEW i \in DOMAIN s
  PROVE  s[i] \in Int
<1>1. \A S : \A q \in Seq(S) : \A k \in DOMAIN q : q[k] \in S OBVIOUS
<1>2. s[i] \in 0 .. MaxRecs BY <1>1
<1> QED BY <1>2, BoundAssumption

\* A record gets an id above all others of a mount that was not reset.
LEMMA RecordAdded ==
  ASSUME MountInv, NEW m \in Mounts, Record(m)
  PROVE  MountInv'
<1> USE DEF MountInv
<1> DEFINE r == trecord_id + 1
<1>1. r \in 0 .. MaxRecs /\ ids[m] \in Seq(0 .. MaxRecs) /\ trecord_id' = r
  BY BoundAssumption DEF TypeOK, Record
<1>2. ids' = [ids EXCEPT ![m] = Append(ids[m], r)] /\ Append(ids[m], r) \in Seq(0 .. MaxRecs)
  BY <1>1 DEF Record
<1>3. TypeOK' BY <1>1, <1>2, BoundAssumption DEF TypeOK, Record, module
<1>4. HeldInv' /\ ModInv' /\ OwnTraceFile'
  BY DEF Record, module, HeldInv, HeldAt, ModInv, OwnTraceFile
<1>5. \A n \in Mounts \ {m} : ids'[n] = ids[n] BY <1>2 DEF TypeOK
<1>6. /\ DOMAIN ids'[m] = 1 .. Len(ids[m]) + 1
      /\ \A i \in 1 .. Len(ids[m]) : ids'[m][i] = ids[m][i]
      /\ ids'[m][Len(ids[m]) + 1] = r
      /\ DOMAIN ids[m] = 1 .. Len(ids[m]) /\ Len(ids[m]) \in Nat
      /\ \A i \in 1 .. Len(ids[m]) : ids[m][i] \in Int
  <2>1. DOMAIN ids[m] = 1 .. Len(ids[m]) /\ Len(ids[m]) \in Nat BY <1>1
  <2>2. \A i \in 1 .. Len(ids[m]) : ids[m][i] \in Int BY <1>1, <2>1, IdIsInt
  <2>3. ids'[m] = Append(ids[m], r) BY <1>2 DEF TypeOK
  <2>4. /\ DOMAIN Append(ids[m], r) = 1 .. Len(ids[m]) + 1
        /\ \A i \in 1 .. Len(ids[m]) : Append(ids[m], r)[i] = ids[m][i]
        /\ Append(ids[m], r)[Len(ids[m]) + 1] = r
    BY <1>1, <2>1
  <2> QED BY <2>1, <2>2, <2>3, <2>4
<1>7. UNCHANGED <<pc, reset>> /\ pc[m] = "mounted" /\ trecord_id \in Int
  BY DEF Record, TypeOK
<1>8. IdsInv'
  <2> SUFFICES ASSUME NEW n \in Mounts, ~reset[n], NEW i \in DOMAIN ids'[n]
               PROVE  ids'[n][i] <= r
    BY <1>1, <1>5, <1>7 DEF IdsInv
  <2>1. CASE n # m
    <3>1. ids'[n] = ids[n] /\ ids[n] \in Seq(0 .. MaxRecs) BY <1>5, <2>1 DEF TypeOK
    <3>2. ids[n][i] <= trecord_id BY <3>1 DEF IdsInv
    <3>3. ids[n][i] \in Int BY <3>1, IdIsInt
    <3> QED BY <3>1, <3>2, <3>3, <1>7
  <2>2. CASE n = m BY <2>2, <1>6, <1>7 DEF IdsInv
  <2> QED BY <2>1, <2>2
<1>9. IdsGrow'
  <2> SUFFICES ASSUME NEW n \in Mounts, ~reset[n]
               PROVE  \A i, j \in DOMAIN ids'[n] : i < j => ids'[n][i] < ids'[n][j]
    BY <1>7 DEF IdsGrow
  <2>1. CASE n # m BY <1>5, <2>1 DEF IdsGrow
  <2>2. CASE n = m
    <3>1. \A i \in 1 .. Len(ids[m]) : ids[m][i] < r BY <1>6, <1>7, <2>2 DEF IdsInv
    <3>2. \A i, j \in 1 .. Len(ids[m]) : i < j => ids[m][i] < ids[m][j] BY <1>6, <2>2 DEF IdsGrow
    <3> QED BY <1>6, <2>2, <3>1, <3>2
  <2> QED BY <2>1, <2>2
<1> QED BY <1>3, <1>4, <1>8, <1>9

\* Unmounting removes the mount's own trace file and no other.
LEMMA Unmounted ==
  ASSUME MountInv, NEW m \in Mounts, Umount(m)
  PROVE  MountInv'
<1> USE DEF MountInv
<1>1. held[m] \ {"minor"} = Resources \ {"minor"} BY DEF HeldInv, HeldAt, Umount
<1>2. TypeOK' BY DEF TypeOK, Umount, module
<1>3. HeldInv' BY <1>1 DEF TypeOK, HeldInv, HeldAt, Umount, Resources
<1>4. ModInv' BY DEF TypeOK, ModInv, Umount, module
<1>5. OwnTraceFile'
  <2>1. "file" \in held[m] /\ "file" \notin held'[m] BY <1>1 DEF TypeOK, Umount, Resources
  <2>2. \A n \in Mounts \ {m} : tfile'[n] = tfile[n] /\ held'[n] = held[n] BY DEF TypeOK, Umount
  <2>3. \A n \in Mounts \ {m} : "file" \in held[n] => tfile[n] \in files' BY <2>1 DEF OwnTraceFile, Umount
  <2> QED BY <2>1, <2>2, <2>3 DEF OwnTraceFile
<1>6. IdsInv' BY DEF TypeOK, IdsInv, Umount
<1>7. IdsGrow'
  <2>1. ids'[m] = <<>> /\ \A n \in Mounts \ {m} : ids'[n] = ids[n] /\ reset'[n] = reset[n]
    BY DEF TypeOK, Umount
  <2> QED BY <2>1 DEF IdsGrow
<1> QED BY <1>2, <1>3, <1>4, <1>5, <1>6, <1>7

\* Every step of TrfsMount keeps the invariant of the mounts.
LEMMA MountStep ==
  ASSUME MountInv, Next
  PROVE  MountInv'
<1>1. CASE \/ trfs_init_inode_cache \/ trfs_init_dentry_cache \/ register_filesystem
           \/ exit_trfs_fs \/ unregister_filesystem
  BY <1>1, ModuleStep
<1>2. ASSUME NEW m \in Mounts,
             \/ Mount(m) \/ KernPath(m) \/ AllocSbInfo(m) \/ AllocPage(m) \/ CreateTrfile(m)
             \/ Iget(m) \/ MakeRoot(m) \/ PrivateData(m) \/ Record(m) \/ Umount(m)
      PROVE  MountInv'
  <2>1. CASE Mount(m) BY <2>1, MountBegins
  <2>2. CASE KernPath(m) \/ AllocSbInfo(m) \/ AllocPage(m) \/ Iget(m) \/ MakeRoot(m) BY <2>2, AttemptStep
  <2>3. CASE CreateTrfile(m) BY <2>3, AttemptStep, TraceFileMade DEF CreateTrfile
  <2>4. CASE PrivateData(m) BY <2>4, AttemptStep, MountDone DEF PrivateData
  <2>5. CASE Record(m) BY <2>5, RecordAdded
  <2>6. CASE Umount(m) BY <2>6, Unmounted
  <2> QED BY <1>2, <2>1, <2>2, <2>3, <2>4, <2>5, <2>6
<1> QED BY <1>1, <1>2 DEF Next

\* The ioctl changes only the bitmap and the open files of a mount.
LEMMA MountKept ==
  ASSUME MountInv, pins' \in [Mounts -> Nat], umask' \in [Mounts -> SUBSET Bits],
         UNCHANGED <<pc, held, tfile, module, minors, files, trecord_id, ids, reset>>
  PROVE  MountInv'
  BY DEF MountInv, TypeOK, module, HeldInv, HeldAt, ModInv, OwnTraceFile, IdsInv, IdsGrow

-----------------------------------------------------------------------------
(* The callers *)

\* What a caller holds at each step, and where its superblock comes from.
CallInv(r) ==
  /\ r.at \in {"idle", "open"} => r.held = {}
  /\ r.at = "ioctl" => r.held = {"fd"}
  /\ r.at = "filp_open" => r.held = {"fd", "name"}
  /\ r.at \in {"idle", "open", "ioctl", "filp_open"} => r.sb = Elsewhere
  /\ r.at \in {"type", "access", "put"} => r.held = {"fd", "name", "filp"}
  /\ r.at = "copy" => r.held = {"fd"}
  /\ r.at = "close" => IF r.ret = -22 THEN r.held = {"fd", "name", "filp"} /\ r.sb = Elsewhere
                       ELSE r.held = {"fd"}
  /\ r.at \in {"access", "put"} => r.sb # Elsewhere
  /\ r.at # "close" => r.ret = 0
  /\ r.at \in {"put", "copy"} \/ (r.at = "close" /\ r.ret = 0) => r.bitmap \in r.seen
  /\ r.cmd = "set" => r.typed = r.bitmap /\ r.ret = 0

\* The open files that callers have on a mount.
Openers(m) == {c \in Ctls : ctl[c].sb = m /\ "filp" \in ctl[c].held}

PinsCounted == \A m \in Mounts : pins[m] = Cardinality(Openers(m))

\* A mount that a caller has open is in place, and the caller sees its bitmap.
OpenInv ==
  \A m \in Mounts : \A c \in Openers(m) : pc[m] = "mounted" /\ umask[m] \in ctl[c].seen

CtlInv ==
  /\ CtlTypeOK
  /\ \A c \in Ctls : CallInv(ctl[c])
  /\ PinsCounted
  /\ OpenInv
  /\ leaked = 2 * refused
  /\ DeviceClean

IInv == MountInv /\ CtlInv

CallRecords == [at : {"idle", "open", "ioctl", "filp_open", "type", "access", "put", "copy", "close"},
                cmd : {"none", "get", "set"}, path : Mounts \cup {Elsewhere},
                typed : SUBSET (Bits \cup {Beyond}), bitmap : SUBSET Bits, held : SUBSET {"fd", "name", "filp"},
                sb : Mounts \cup {Elsewhere}, ret : {0, -1, -22}, seen : SUBSET SUBSET Bits]

\* A caller between two runs is as it should be.
LEMMA NoCallGood == NoCall \in CallRecords /\ CallInv(NoCall)
  BY DEF NoCall, CallRecords, CallInv

\* The initial states satisfy the inductive invariant.
LEMMA InitGood == CtlInit => IInv
<1> SUFFICES ASSUME CtlInit PROVE IInv OBVIOUS
<1>1. MountInv BY MountInit DEF CtlInit
<1>2. CtlTypeOK BY NoCallGood, CallsAssumption DEF CtlInit, CtlTypeOK, CallRecords
<1>3. \A c \in Ctls : CallInv(ctl[c]) BY NoCallGood DEF CtlInit
<1>4. \A m \in Mounts : Openers(m) = {} BY DEF CtlInit, NoCall, Openers
<1>5. PinsCounted BY <1>4, FS_EmptySet DEF PinsCounted, CtlInit, Init
<1>6. OpenInv BY <1>4 DEF OpenInv
<1>7. leaked = 2 * refused /\ DeviceClean BY DEF CtlInit, DeviceClean
<1> QED BY <1>1, <1>2, <1>3, <1>5, <1>6, <1>7 DEF IInv, CtlInv

\* The callers that have a mount open can be counted.
LEMMA OpenersFinite ==
  ASSUME NEW m
  PROVE  IsFiniteSet(Openers(m)) /\ Cardinality(Openers(m)) \in Nat
<1>1. Openers(m) \subseteq Ctls BY DEF Openers
<1> QED BY <1>1, CtlsAssumption, FS_Subset, FS_CardinalityType

\* A mount that is unmounted has no openers.
LEMMA NotOpen ==
  ASSUME PinsCounted, NEW m \in Mounts, pins[m] = 0
  PROVE  Openers(m) = {}
  BY OpenersFinite, FS_EmptySet DEF PinsCounted

\* Mounts go on while callers are where they are: no step of a mount but
\* Umount and PrivateData changes a bitmap, and no mount with an opener ends.
LEMMA MountsGoOn ==
  ASSUME IInv, Next, UNCHANGED ctlvars
  PROVE  IInv'
<1>1. MountInv' BY MountStep DEF IInv
<1>2. UNCHANGED <<dev, devpc, ctl, calls, leaked, refused>> BY DEF ctlvars
<1>3. UNCHANGED pins
  BY DEF Next, trfs_init_inode_cache, trfs_init_dentry_cache, register_filesystem, exit_trfs_fs,
         unregister_filesystem, Load, Mount, KernPath, AllocSbInfo, AllocPage, CreateTrfile, Iget,
         MakeRoot, PrivateData, Record, Umount, Acquire, Fail
<1>4. \A m \in Mounts : Openers(m)' = Openers(m) BY <1>2 DEF Openers
<1>5. PinsCounted' BY <1>3, <1>4 DEF IInv, CtlInv, PinsCounted
<1>6. ASSUME NEW m \in Mounts, NEW c \in Openers(m)
      PROVE  pc'[m] = "mounted" /\ umask'[m] = umask[m]
  <2>1. pc[m] = "mounted" /\ pins[m] # 0 BY <1>6, NotOpen DEF IInv, CtlInv, OpenInv
  <2> QED BY <2>1 DEF IInv, MountInv, TypeOK,
         Next, trfs_init_inode_cache, trfs_init_dentry_cache, register_filesystem, exit_trfs_fs,
         unregister_filesystem, Load, Mount, KernPath, AllocSbInfo, AllocPage, CreateTrfile, Iget,
         MakeRoot, PrivateData, Record, Umount, Acquire, Fail
<1>7. OpenInv' BY <1>2, <1>4, <1>6 DEF IInv, CtlInv, OpenInv
<1>8. CtlTypeOK' /\ (\A c \in Ctls : CallInv(ctl'[c])) /\ leaked' = 2 * refused' /\ DeviceClean'
  BY <1>2 DEF IInv, CtlInv, CtlTypeOK, DeviceClean
<1> QED BY <1>1, <1>5, <1>7, <1>8 DEF IInv, CtlInv

\* Nothing of the mounts changes.
LEMMA MountsSame ==
  ASSUME MountInv, UNCHANGED vars
  PROVE  MountInv'
  BY MountKept DEF MountInv, TypeOK, vars

\* The steps of the trace_ctl module.
LEMMA DeviceStep ==
  ASSUME IInv,
         \/ alloc_chrdev_region \/ cdev_add \/ class_create \/ device_create \/ tr_ioctl_exit
  PROVE  IInv'
<1>1. UNCHANGED <<vars, ctl, calls, leaked, refused>>
  BY DEF alloc_chrdev_region, cdev_add, class_create, device_create, tr_ioctl_exit, Setup
<1>2. /\ dev' \subseteq {"region", "cdev", "class", "device", "lost"}
      /\ devpc' \in {"out", "cdev", "class", "device", "in"}
      /\ devpc' = "out" => dev' \subseteq {"lost"}
  BY DEF IInv, CtlInv, CtlTypeOK, DeviceClean, alloc_chrdev_region, cdev_add, class_create, device_create,
         tr_ioctl_exit, Setup
<1>3. MountInv' BY <1>1, MountsSame DEF IInv
<1>4. CtlTypeOK' /\ DeviceClean' BY <1>1, <1>2 DEF IInv, CtlInv, CtlTypeOK, DeviceClean
<1>5. (\A c \in Ctls : CallInv(ctl'[c])) /\ leaked' = 2 * refused' BY <1>1 DEF IInv, CtlInv
<1>6. \A m \in Mounts : Openers(m)' = Openers(m) BY <1>1 DEF Openers
<1>7. PinsCounted' /\ OpenInv' BY <1>1, <1>6 DEF IInv, CtlInv, PinsCounted, OpenInv, vars
<1> QED BY <1>3, <1>4, <1>5, <1>7 DEF IInv, CtlInv

\* A caller has a file of a mount open.
HasOpen(r) == "filp" \in r.held /\ r.sb # Elsewhere

\* A step of one caller that opens and closes no file of a mount.
LEMMA CallerStep ==
  ASSUME IInv, NEW c \in Ctls, NEW r \in CallRecords, CallInv(r),
         ctl' = [ctl EXCEPT ![c] = r],
         HasOpen(r) <=> HasOpen(ctl[c]),
         HasOpen(r) => r.sb = ctl[c].sb /\ r.seen = ctl[c].seen,
         calls' \in 0 .. MaxCalls, leaked' \in Nat, refused' \in Nat, leaked' = 2 * refused',
         UNCHANGED <<vars, dev, devpc>>
  PROVE  IInv'
<1>1. MountInv' BY MountsSame DEF IInv
<1>2. ctl \in [Ctls -> CallRecords] BY DEF IInv, CtlInv, CtlTypeOK, CallRecords
<1>3. ctl' \in [Ctls -> CallRecords] /\ ctl'[c] = r /\ \A x \in Ctls \ {c} : ctl'[x] = ctl[x]
  BY <1>2
<1>4. CtlTypeOK' BY <1>3 DEF IInv, CtlInv, CtlTypeOK, CallRecords
<1>5. \A x \in Ctls : CallInv(ctl'[x]) BY <1>3 DEF IInv, CtlInv
<1>6. \A m \in Mounts : Openers(m)' = Openers(m) BY <1>3, ElsewhereAssumption DEF Openers, HasOpen
<1>7. PinsCounted' BY <1>6 DEF IInv, CtlInv, PinsCounted, vars
<1>8. \A m \in Mounts : \A x \in Openers(m) : ctl'[x].seen = ctl[x].seen
  BY <1>3, ElsewhereAssumption DEF Openers, HasOpen
<1>9. OpenInv' BY <1>6, <1>8 DEF IInv, CtlInv, OpenInv, vars
<1>10. DeviceClean' BY DEF IInv, CtlInv, DeviceClean
<1> QED BY <1>1, <1>4, <1>5, <1>7, <1>9, <1>10 DEF IInv, CtlInv


\* An ioctl that fails leaves the caller its descriptor, or with -EINVAL all.
LEMMA FailedGood ==
  ASSUME NEW h, NEW e,
         \/ h = {"fd"} /\ e = -1
         \/ h = {"fd", "name", "filp"} /\ e = -22,
         NEW r, r = [[NoCall EXCEPT !.held = h, !.ret = e] EXCEPT !.at = "close"]
  PROVE  r \in CallRecords /\ CallInv(r) /\ ~HasOpen(r)
<1> DEFINE g == [at |-> "close", cmd |-> "none", path |-> Elsewhere, typed |-> {}, bitmap |-> {},
                 held |-> h, sb |-> Elsewhere, ret |-> e, seen |-> {}]
<1>1. r = g BY DEF NoCall
<1>2. h \in SUBSET {"fd", "name", "filp"} /\ e \in {0, -1, -22} /\ e # 0 OBVIOUS
<1>3. g \in CallRecords BY <1>2 DEF CallRecords
<1>4. g.at = "close" /\ g.held = h /\ g.sb = Elsewhere /\ g.ret = e /\ g.cmd = "none" OBVIOUS
<1> HIDE DEF g
<1>5. CallInv(g) BY <1>2, <1>4 DEF CallInv
<1>6. ~HasOpen(g) BY <1>4 DEF HasOpen
<1> QED BY <1>1, <1>3, <1>5, <1>6, Zenon

\* trctl, and the steps of the ioctl that put no file of a mount.
LEMMA PlainStep ==
  ASSUME IInv, NEW c \in Ctls,
         \/ Main(c) \/ OpenDevice(c) \/ Close(c) \/ GetName(c) \/ CheckType(c) \/ CopyToUser(c)
  PROVE  IInv'
<1>1. ctl[c] \in CallRecords /\ CallInv(ctl[c]) BY DEF IInv, CtlInv, CtlTypeOK, CallRecords
<1>2. /\ calls \in 0 .. MaxCalls /\ leaked \in Nat /\ refused \in Nat /\ leaked = 2 * refused
  BY DEF IInv, CtlInv, CtlTypeOK
<1> USE CallsAssumption, ElsewhereAssumption
<1>3. CASE Main(c)
  <2>1. \A b \in Numbers : b \in SUBSET Bits /\ strtoul(b) = b
    BY BeyondAssumption DEF Numbers, Texts, isvalidhex, strtoul
  <2>2. PICK r \in CallRecords : CallInv(r) /\ r.held = {} /\ ctl' = [ctl EXCEPT ![c] = r]
    <3>1. PICK p \in Mounts \cup {Elsewhere} :
            \/ \E b \in SUBSET Bits : Go(c, "open", [NoCall EXCEPT !.cmd = "get", !.path = p, !.bitmap = b])
            \/ \E b \in Numbers : Go(c, "open", [NoCall EXCEPT !.cmd = "set", !.path = p, !.typed = b,
                                                            !.bitmap = strtoul(b)])
      BY <1>3 DEF Main
    <3>2. ASSUME NEW b \in SUBSET Bits, Go(c, "open", [NoCall EXCEPT !.cmd = "get", !.path = p, !.bitmap = b])
          PROVE  \E r \in CallRecords : CallInv(r) /\ r.held = {} /\ ctl' = [ctl EXCEPT ![c] = r]
      <4> DEFINE r == [[NoCall EXCEPT !.cmd = "get", !.path = p, !.bitmap = b] EXCEPT !.at = "open"]
      <4>1. r \in CallRecords /\ CallInv(r) /\ r.held = {} BY DEF NoCall, CallRecords, CallInv
      <4> QED BY <3>2, <4>1 DEF Go
    <3>3. ASSUME NEW b \in Numbers,
                 Go(c, "open", [NoCall EXCEPT !.cmd = "set", !.path = p, !.typed = b, !.bitmap = strtoul(b)])
          PROVE  \E r \in CallRecords : CallInv(r) /\ r.held = {} /\ ctl' = [ctl EXCEPT ![c] = r]
      <4> DEFINE r == [[NoCall EXCEPT !.cmd = "set", !.path = p, !.typed = b, !.bitmap = strtoul(b)]
                         EXCEPT !.at = "open"]
      <4>1. r \in CallRecords /\ CallInv(r) /\ r.held = {} BY <2>1 DEF NoCall, CallRecords, CallInv
      <4> QED BY <3>3, <4>1 DEF Go
    <3> QED BY <3>1, <3>2, <3>3
  <2>3. ~HasOpen(r) /\ ~HasOpen(ctl[c]) BY <1>1, <1>3, <2>2 DEF Main, CallInv, HasOpen
  <2>4. calls' = calls + 1 /\ calls < MaxCalls /\ UNCHANGED <<vars, dev, devpc, leaked, refused>>
    BY <1>3 DEF Main
  <2>5. calls' \in 0 .. MaxCalls BY <1>2, <2>4
  <2> QED BY <1>2, <2>2, <2>3, <2>4, <2>5, CallerStep
<1>4. CASE ~Main(c)
  <2>1. PICK r \in CallRecords :
          /\ CallInv(r) /\ ctl' = [ctl EXCEPT ![c] = r]
          /\ HasOpen(r) <=> HasOpen(ctl[c])
          /\ HasOpen(r) => r.sb = ctl[c].sb /\ r.seen = ctl[c].seen
    <3>1. CASE OpenDevice(c)
      <4> DEFINE r == [[ctl[c] EXCEPT !.held = {"fd"}] EXCEPT !.at = "ioctl"]
      <4>1. r \in CallRecords /\ CallInv(r) /\ ~HasOpen(r) /\ ~HasOpen(ctl[c])
        BY <1>1, <3>1 DEF OpenDevice, CallRecords, CallInv, HasOpen
      <4>2. NoCall \in CallRecords /\ CallInv(NoCall) /\ ~HasOpen(NoCall)
        BY NoCallGood DEF NoCall, HasOpen
      <4>3. ctl' = [ctl EXCEPT ![c] = r] \/ ctl' = [ctl EXCEPT ![c] = NoCall]
        BY <3>1 DEF OpenDevice, Go
      <4> HIDE DEF r
      <4> QED BY <4>1, <4>2, <4>3
    <3>2. CASE Close(c)
      <4>1. NoCall \in CallRecords /\ CallInv(NoCall) /\ ~HasOpen(NoCall)
        BY NoCallGood DEF NoCall, HasOpen
      <4>2. ~HasOpen(ctl[c]) BY <1>1, <3>2 DEF Close, CallInv, HasOpen
      <4> QED BY <3>2, <4>1, <4>2 DEF Close
    <3>3. CASE GetName(c)
      <4> DEFINE r == [[ctl[c] EXCEPT !.held = @ \cup {"name"}] EXCEPT !.at = "filp_open"]
      <4> DEFINE q == [[NoCall EXCEPT !.held = ctl[c].held \ {}, !.ret = -1] EXCEPT !.at = "close"]
      <4>1. ctl[c].at = "ioctl" /\ ctl[c].held = {"fd"} /\ ctl[c].sb = Elsewhere
        BY <1>1, <3>3 DEF GetName, CallInv
      <4>2. ctl[c].held \ {} = {"fd"} BY <4>1
      <4>3. q \in CallRecords /\ CallInv(q) /\ ~HasOpen(q) BY <4>2, FailedGood
      <4>4. r \in CallRecords /\ CallInv(r) /\ ~HasOpen(r) /\ ~HasOpen(ctl[c])
        BY <1>1, <4>1 DEF CallRecords, CallInv, HasOpen
      <4>5. ctl' = [ctl EXCEPT ![c] = r] \/ ctl' = [ctl EXCEPT ![c] = q]
        BY <3>3 DEF GetName, Go, Fails
      <4> HIDE DEF r, q
      <4> QED BY <4>3, <4>4, <4>5
    <3>4. CASE CheckType(c)
      <4> DEFINE r == [ctl[c] EXCEPT !.at = "access"]
      <4> DEFINE q == [[NoCall EXCEPT !.held = ctl[c].held \ {}, !.ret = -22] EXCEPT !.at = "close"]
      <4>1. ctl[c].at = "type" /\ ctl[c].held = {"fd", "name", "filp"}
        BY <1>1, <3>4 DEF CheckType, CallInv
      <4>2. ctl[c].held \ {} = {"fd", "name", "filp"} BY <4>1
      <4>3. q \in CallRecords /\ CallInv(q) /\ ~HasOpen(q) BY <4>2, FailedGood
      <4>4. CASE ctl[c].sb # Elsewhere
        <5>1. r \in CallRecords /\ CallInv(r) /\ r.sb = ctl[c].sb /\ r.seen = ctl[c].seen /\ r.held = ctl[c].held
          BY <1>1, <4>1, <4>4 DEF CallRecords, CallInv
        <5>2. ctl' = [ctl EXCEPT ![c] = r] BY <3>4, <4>4 DEF CheckType, Go
        <5> QED BY <5>1, <5>2 DEF HasOpen
      <4>5. CASE ctl[c].sb = Elsewhere
        <5>1. ctl' = [ctl EXCEPT ![c] = q] BY <3>4, <4>5 DEF CheckType, Go, Fails
        <5>2. ~HasOpen(ctl[c]) BY <4>5 DEF HasOpen
        <5> HIDE DEF q
        <5> QED BY <4>3, <5>1, <5>2
      <4> QED BY <4>4, <4>5
    <3>5. CASE CopyToUser(c)
      <4> DEFINE r == [ctl[c] EXCEPT !.at = "close"]
      <4> DEFINE q == [[NoCall EXCEPT !.held = ctl[c].held \ {}, !.ret = -1] EXCEPT !.at = "close"]
      <4>1. ctl[c].at = "copy" /\ ctl[c].held = {"fd"} BY <1>1, <3>5 DEF CopyToUser, CallInv
      <4>2. ctl[c].held \ {} = {"fd"} BY <4>1
      <4>3. q \in CallRecords /\ CallInv(q) /\ ~HasOpen(q) BY <4>2, FailedGood
      <4>4. r \in CallRecords /\ CallInv(r) /\ ~HasOpen(r) /\ ~HasOpen(ctl[c])
        BY <1>1, <4>1 DEF CallRecords, CallInv, HasOpen
      <4>5. ctl' = [ctl EXCEPT ![c] = r] \/ ctl' = [ctl EXCEPT ![c] = q]
        BY <3>5 DEF CopyToUser, Go, Fails
      <4> HIDE DEF r, q
      <4> QED BY <4>3, <4>4, <4>5
    <3> QED BY <1>4, <3>1, <3>2, <3>3, <3>4, <3>5
  <2>2. calls' = calls /\ UNCHANGED <<vars, dev, devpc>>
    BY <1>4 DEF OpenDevice, Close, GetName, CheckType, CopyToUser
  <2>3. leaked' \in Nat /\ refused' \in Nat /\ leaked' = 2 * refused'
    <3>1. CASE Close(c)
      <4>1. CASE ctl[c].ret = -22
        <5>1. ctl[c].held \ {"fd"} = {"name", "filp"} BY <1>1, <3>1, <4>1 DEF Close, CallInv
        <5>2. Cardinality({"name", "filp"}) = 2
          <6>1. IsFiniteSet({"name"}) /\ Cardinality({"name"}) = 1 BY FS_Singleton
          <6>2. Cardinality({"name"} \cup {"filp"}) = Cardinality({"name"}) + 1
            BY <6>1, FS_AddElement, "filp" \notin {"name"}
          <6>3. {"name"} \cup {"filp"} = {"name", "filp"} OBVIOUS
          <6> QED BY <6>1, <6>2, <6>3
        <5>3. leaked' = leaked + 2 /\ refused' = refused + 1 BY <3>1, <4>1, <5>1, <5>2 DEF Close
        <5> QED BY <1>2, <5>3
      <4>2. CASE ctl[c].ret # -22
        <5>1. ctl[c].held \ {"fd"} = {} BY <1>1, <3>1, <4>2 DEF Close, CallInv
        <5>2. leaked' = leaked + 0 /\ refused' = refused + 0 BY <3>1, <4>2, <5>1, FS_EmptySet DEF Close
        <5> QED BY <1>2, <5>2
      <4> QED BY <4>1, <4>2
    <3>2. CASE ~Close(c)
      BY <1>2, <1>4, <3>2 DEF OpenDevice, GetName, CheckType, CopyToUser
    <3> QED BY <3>1, <3>2
  <2> QED BY <1>2, <2>1, <2>2, <2>3, CallerStep
<1> QED BY <1>3, <1>4

\* A step of caller c whose file on mount m is opened, used or closed: what
\* is left to show of the callers, given the counts and bitmaps of the mounts.
LEMMA FileStep ==
  ASSUME IInv, NEW c \in Ctls, ctl' \in [Ctls -> CallRecords], \A x \in Ctls : CallInv(ctl'[x]),
         pins' \in [Mounts -> Nat], umask' \in [Mounts -> SUBSET Bits], PinsCounted', OpenInv',
         UNCHANGED <<pc, held, tfile, module, minors, files, trecord_id, ids, reset,
                     dev, devpc, calls, leaked, refused>>
  PROVE  IInv'
<1>1. MountInv' BY MountKept DEF IInv
<1>2. CtlTypeOK' BY DEF IInv, CtlInv, CtlTypeOK, CallRecords
<1>3. DeviceClean' /\ leaked' = 2 * refused' BY DEF IInv, CtlInv, DeviceClean
<1> QED BY <1>1, <1>2, <1>3 DEF IInv, CtlInv

\* filp_open: one opener more, whose mount is in place, or none.
LEMMA FilpOpenStep ==
  ASSUME IInv, NEW c \in Ctls, FilpOpen(c)
  PROVE  IInv'
<1> USE ElsewhereAssumption
<1> DEFINE p == ctl[c].path
<1>1. /\ ctl \in [Ctls -> CallRecords] /\ ctl[c] \in CallRecords /\ CallInv(ctl[c])
      /\ \A x \in Ctls : CallInv(ctl[x])
      /\ calls \in 0 .. MaxCalls /\ leaked \in Nat /\ refused \in Nat /\ leaked = 2 * refused
      /\ PinsCounted /\ OpenInv
  BY DEF IInv, CtlInv, CtlTypeOK, CallRecords
<1>2. ctl[c].at = "filp_open" /\ ctl[c].held = {"fd", "name"} /\ ctl[c].sb = Elsewhere
        /\ ctl[c].ret = 0 /\ ~HasOpen(ctl[c])
  BY <1>1 DEF FilpOpen, CallInv, HasOpen
<1>3. CASE /\ OnTrfs(p)
           /\ Go(c, "type", [ctl[c] EXCEPT !.held = @ \cup {"filp"}, !.sb = p, !.seen = {umask[p]},
                                           !.path = Elsewhere])
           /\ pins' = [pins EXCEPT ![p] = @ + 1]
  <2> DEFINE r == [[ctl[c] EXCEPT !.held = @ \cup {"filp"}, !.sb = p, !.seen = {umask[p]},
                                  !.path = Elsewhere] EXCEPT !.at = "type"]
  <2>1. PICK m \in Mounts : m = p /\ pc[m] = "mounted" BY <1>3 DEF OnTrfs
  <2>2. umask \in [Mounts -> SUBSET Bits] /\ pins \in [Mounts -> Nat] BY DEF IInv, MountInv, TypeOK
  <2>3. r \in CallRecords /\ CallInv(r) /\ r.sb = m /\ "filp" \in r.held /\ r.seen = {umask[m]}
    <3>1. r = [ctl[c] EXCEPT !.held = {"fd", "name", "filp"}, !.sb = m, !.seen = {umask[m]},
                             !.path = Elsewhere, !.at = "type"]
      BY <1>1, <1>2, <2>1 DEF CallRecords
    <3>2. {umask[m]} \in SUBSET SUBSET Bits BY <2>2
    <3>3. /\ r.at = "type" /\ r.held = {"fd", "name", "filp"} /\ r.sb = m /\ r.seen = {umask[m]}
          /\ r.ret = 0 /\ r.cmd = ctl[c].cmd /\ r.typed = ctl[c].typed /\ r.bitmap = ctl[c].bitmap
      BY <1>1, <1>2, <3>1 DEF CallRecords
    <3>4. r \in CallRecords BY <1>1, <2>1, <3>1, <3>2 DEF CallRecords
    <3> HIDE DEF r
    <3>5. CallInv(r) BY <1>1, <3>3 DEF CallInv
    <3> QED BY <3>3, <3>4, <3>5
  <2>4. ctl' = [ctl EXCEPT ![c] = r] BY <1>3 DEF Go
  <2> HIDE DEF r
  <2>5. ctl' \in [Ctls -> CallRecords] /\ ctl'[c] = r /\ \A x \in Ctls \ {c} : ctl'[x] = ctl[x]
    BY <1>1, <2>3, <2>4
  <2>6. \A x \in Ctls : CallInv(ctl'[x]) BY <1>1, <2>3, <2>5
  <2>7. UNCHANGED <<pc, held, tfile, umask, module, minors, files, trecord_id, ids, reset,
                    dev, devpc, calls, leaked, refused>>
    BY DEF FilpOpen
  <2>8. c \notin Openers(m) /\ Openers(m)' = Openers(m) \cup {c}
    BY <1>2, <2>1, <2>3, <2>5 DEF Openers
  <2>9. \A n \in Mounts \ {m} : Openers(n)' = Openers(n) BY <1>2, <2>3, <2>5 DEF Openers
  <2>10. Cardinality(Openers(m)') = Cardinality(Openers(m)) + 1
    BY <2>8, OpenersFinite, FS_AddElement
  <2>11. pins' \in [Mounts -> Nat] /\ pins'[m] = pins[m] + 1 /\ \A n \in Mounts \ {m} : pins'[n] = pins[n]
    BY <1>3, <2>1, <2>2
  <2>12. PinsCounted' BY <1>1, <2>1, <2>9, <2>10, <2>11 DEF PinsCounted
  <2>13. \A n \in Mounts : \A x \in Openers(n) \ {c} : ctl'[x].seen = ctl[x].seen
    BY <2>5 DEF Openers
  <2>14. OpenInv'
    <3> SUFFICES ASSUME NEW n \in Mounts, NEW x \in Openers(n)'
                 PROVE  pc[n] = "mounted" /\ umask[n] \in ctl'[x].seen
      BY <2>7 DEF OpenInv
    <3>1. CASE x = c
      <4>1. n = m BY <2>3, <2>5, <3>1 DEF Openers
      <4> QED BY <2>1, <2>3, <2>5, <3>1, <4>1
    <3>2. CASE x # c
      <4>1. x \in Openers(n) BY <2>8, <2>9, <3>2
      <4> QED BY <1>1, <2>13, <3>2, <4>1 DEF OpenInv
    <3> QED BY <3>1, <3>2
  <2>15. umask' \in [Mounts -> SUBSET Bits] BY <2>2, <2>7
  <2> QED BY <2>5, <2>6, <2>7, <2>11, <2>12, <2>14, <2>15, FileStep
<1>4. CASE ~ /\ OnTrfs(p)
             /\ Go(c, "type", [ctl[c] EXCEPT !.held = @ \cup {"filp"}, !.sb = p, !.seen = {umask[p]},
                                             !.path = Elsewhere])
             /\ pins' = [pins EXCEPT ![p] = @ + 1]
  <2> DEFINE r == [[ctl[c] EXCEPT !.held = @ \cup {"filp"}, !.path = Elsewhere] EXCEPT !.at = "type"]
  <2> DEFINE q == [[NoCall EXCEPT !.held = ctl[c].held \ {"name"}, !.ret = -1] EXCEPT !.at = "close"]
  <2>1. ctl[c].held \ {"name"} = {"fd"} BY <1>2
  <2>2. q \in CallRecords /\ CallInv(q) /\ ~HasOpen(q) BY <2>1, FailedGood
  <2>3. r \in CallRecords /\ CallInv(r) /\ ~HasOpen(r)
    <3>1. r = [ctl[c] EXCEPT !.held = {"fd", "name", "filp"}, !.path = Elsewhere, !.at = "type"]
      BY <1>1, <1>2 DEF CallRecords
    <3>2. r \in CallRecords BY <1>1, <3>1 DEF CallRecords
    <3>3. /\ r.at = "type" /\ r.held = {"fd", "name", "filp"} /\ r.sb = Elsewhere /\ r.ret = 0
          /\ r.cmd = ctl[c].cmd /\ r.typed = ctl[c].typed /\ r.bitmap = ctl[c].bitmap
      BY <1>1, <1>2, <3>1 DEF CallRecords
    <3> HIDE DEF r
    <3>4. CallInv(r) BY <1>1, <3>3 DEF CallInv
    <3>5. ~HasOpen(r) BY <3>3 DEF HasOpen
    <3> QED BY <3>2, <3>4, <3>5
  <2>4. ctl' = [ctl EXCEPT ![c] = r] \/ ctl' = [ctl EXCEPT ![c] = q]
    BY <1>4 DEF FilpOpen, Go, Fails
  <2>5. UNCHANGED <<vars, dev, devpc, calls, leaked, refused>>
    BY <1>4 DEF FilpOpen, vars
  <2> HIDE DEF r, q
  <2> QED BY <1>1, <1>2, <2>2, <2>3, <2>4, <2>5, CallerStep
<1> QED BY <1>3, <1>4

\* umask is read or set: who has the mount open sees the new bitmap.
LEMMA AccessStep ==
  ASSUME IInv, NEW c \in Ctls, Access(c)
  PROVE  IInv'
<1> USE ElsewhereAssumption
<1> DEFINE m == ctl[c].sb
<1>1. /\ ctl \in [Ctls -> CallRecords] /\ ctl[c] \in CallRecords /\ CallInv(ctl[c])
      /\ \A x \in Ctls : CallInv(ctl[x]) /\ ctl[x] \in CallRecords
      /\ PinsCounted /\ OpenInv
  BY DEF IInv, CtlInv, CtlTypeOK, CallRecords
<1>2. ctl[c].at = "access" /\ ctl[c].held = {"fd", "name", "filp"} /\ ctl[c].ret = 0 /\ m \in Mounts
  BY <1>1 DEF Access, CallInv, CallRecords
<1>3. pc[m] = "mounted" /\ umask[m] \in ctl[c].seen BY <1>1, <1>2 DEF OpenInv, Openers
<1>4. umask \in [Mounts -> SUBSET Bits] /\ pins \in [Mounts -> Nat] BY DEF IInv, MountInv, TypeOK
<1>5. UNCHANGED <<pc, held, tfile, pins, module, minors, files, trecord_id, ids, reset,
                  dev, devpc, calls, leaked, refused>>
  BY DEF Access
<1>6. CASE ctl[c].cmd = "get" /\ Go(c, "put", [ctl[c] EXCEPT !.bitmap = umask[m]]) /\ UNCHANGED umask
  <2> DEFINE r == [[ctl[c] EXCEPT !.bitmap = umask[m]] EXCEPT !.at = "put"]
  <2>0. umask[m] \in SUBSET Bits BY <1>2, <1>4
  <2>1. /\ r \in CallRecords /\ CallInv(r)
        /\ r.sb = ctl[c].sb /\ r.seen = ctl[c].seen /\ r.held = ctl[c].held
    <3>1. r = [ctl[c] EXCEPT !.bitmap = umask[m], !.at = "put"] BY <1>1 DEF CallRecords
    <3>2. r \in CallRecords BY <1>1, <2>0, <3>1 DEF CallRecords
    <3>3. /\ r.at = "put" /\ r.cmd = "get" /\ r.bitmap = umask[m] /\ r.ret = 0
          /\ r.sb = ctl[c].sb /\ r.seen = ctl[c].seen /\ r.held = {"fd", "name", "filp"}
      BY <1>1, <1>2, <1>6, <3>1 DEF CallRecords
    <3> HIDE DEF r
    <3>4. CallInv(r) BY <1>2, <1>3, <3>3 DEF CallInv
    <3> QED BY <1>2, <3>2, <3>3, <3>4
  <2>2. ctl' = [ctl EXCEPT ![c] = r] BY <1>6 DEF Go
  <2>3. UNCHANGED vars BY <1>5, <1>6 DEF vars
  <2>4. calls \in 0 .. MaxCalls /\ leaked \in Nat /\ refused \in Nat /\ leaked = 2 * refused
    BY DEF IInv, CtlInv, CtlTypeOK
  <2> HIDE DEF r
  <2> QED BY <1>5, <2>1, <2>2, <2>3, <2>4, CallerStep DEF HasOpen
<1>7. CASE ctl[c].cmd = "set" /\ SetUmask(m, ctl[c].bitmap, c, "put")
  <2> DEFINE b == ctl[c].bitmap
  <2>1. b \in SUBSET Bits BY <1>1 DEF CallRecords
  <2>2. umask' = [umask EXCEPT ![m] = b] /\ umask' \in [Mounts -> SUBSET Bits]
    BY <1>2, <1>4, <1>7, <2>1 DEF SetUmask
  <2>3. ctl' = [x \in Ctls |-> [ctl[x] EXCEPT
                  !.seen = IF ctl[x].sb = m /\ "filp" \in ctl[x].held THEN @ \cup {b} ELSE @,
                  !.at = IF x = c THEN "put" ELSE @]]
    BY <1>7 DEF SetUmask
  <2>4. ASSUME NEW x \in Ctls
        PROVE  /\ ctl'[x] \in CallRecords /\ CallInv(ctl'[x])
               /\ ctl'[x].sb = ctl[x].sb /\ ctl'[x].held = ctl[x].held
               /\ ctl'[x].seen = IF x \in Openers(m) THEN ctl[x].seen \cup {b} ELSE ctl[x].seen
    <3>1. ctl'[x] = [ctl[x] EXCEPT
                  !.seen = IF x \in Openers(m) THEN @ \cup {b} ELSE @,
                  !.at = IF x = c THEN "put" ELSE @]
      BY <2>3 DEF Openers
    <3>2. c \in Openers(m) BY <1>2 DEF Openers
    <3>3. CASE x \in Openers(m)
      <4> DEFINE at == IF x = c THEN "put" ELSE ctl[x].at
      <4> DEFINE r == [ctl[x] EXCEPT !.seen = ctl[x].seen \cup {b}, !.at = at]
      <4>1. ctl[x] \in CallRecords /\ CallInv(ctl[x]) BY <1>1
      <4>2. ctl'[x] = r BY <3>1, <3>3
      <4>3. r \in CallRecords BY <2>1, <4>1 DEF CallRecords
      <4>4. /\ r.at = at /\ r.seen = ctl[x].seen \cup {b}
            /\ r.held = ctl[x].held /\ r.sb = ctl[x].sb /\ r.ret = ctl[x].ret /\ r.bitmap = ctl[x].bitmap
            /\ r.cmd = ctl[x].cmd /\ r.typed = ctl[x].typed
        BY <4>1 DEF CallRecords
      <4> HIDE DEF r
      <4>5. CASE x = c
        <5>1. r.at = "put" /\ r.held = {"fd", "name", "filp"} /\ r.sb # Elsewhere /\ r.ret = 0
                /\ r.bitmap \in r.seen
          BY <1>2, <4>4, <4>5
        <5> QED BY <3>3, <4>1, <4>2, <4>3, <4>4, <5>1 DEF CallInv
      <4>6. CASE x # c
        <5>1. CallInv(r) BY <4>1, <4>4, <4>6 DEF CallInv
        <5> QED BY <3>3, <4>2, <4>3, <4>4, <5>1
      <4> QED BY <4>5, <4>6
    <3>4. CASE x \notin Openers(m)
      <4>1. ctl'[x] = [ctl[x] EXCEPT !.seen = @, !.at = @] BY <3>1, <3>2, <3>4
      <4>2. ctl[x] \in CallRecords /\ CallInv(ctl[x]) BY <1>1
      <4>3. ctl'[x] = ctl[x] BY <4>1, <4>2 DEF CallRecords
      <4> QED BY <3>4, <4>2, <4>3
    <3> QED BY <3>3, <3>4
  <2>5. ctl' \in [Ctls -> CallRecords] /\ \A x \in Ctls : CallInv(ctl'[x])
    <3>1. \A x \in Ctls : ctl'[x] \in CallRecords BY <2>4
    <3>2. ctl' = [x \in Ctls |-> ctl'[x]] BY <2>3
    <3> QED BY <2>4, <3>1, <3>2
  <2>6. \A n \in Mounts : Openers(n)' = Openers(n) BY <2>4 DEF Openers
  <2>7. PinsCounted' BY <1>1, <1>5, <2>6 DEF PinsCounted
  <2>8. OpenInv'
    <3> SUFFICES ASSUME NEW n \in Mounts, NEW x \in Openers(n)
                 PROVE  pc[n] = "mounted" /\ umask'[n] \in ctl'[x].seen
      BY <1>5, <2>6 DEF OpenInv
    <3>1. pc[n] = "mounted" /\ umask[n] \in ctl[x].seen /\ x \in Ctls BY <1>1 DEF OpenInv, Openers
    <3>2. CASE n = m BY <1>2, <1>4, <2>2, <2>4, <3>1, <3>2
    <3>3. CASE n # m BY <1>4, <2>2, <2>4, <3>1, <3>3
    <3> QED BY <3>2, <3>3
  <2>9. pins' \in [Mounts -> Nat] BY <1>4, <1>5
  <2> QED BY <1>5, <2>2, <2>5, <2>7, <2>8, <2>9, FileStep
<1> QED BY <1>6, <1>7 DEF Access

\* putname and filp_close: one opener less.
LEMMA PutStep ==
  ASSUME IInv, NEW c \in Ctls, PutBoth(c)
  PROVE  IInv'
<1> USE ElsewhereAssumption
<1> DEFINE r == [[ctl[c] EXCEPT !.held = @ \ {"name", "filp"}] EXCEPT !.at = "copy"]
<1>1. /\ ctl \in [Ctls -> CallRecords] /\ ctl[c] \in CallRecords /\ CallInv(ctl[c])
      /\ \A x \in Ctls : CallInv(ctl[x])
      /\ PinsCounted /\ OpenInv
  BY DEF IInv, CtlInv, CtlTypeOK, CallRecords
<1>2. PICK m \in Mounts :
        ctl[c].at = "put" /\ ctl[c].held = {"fd", "name", "filp"} /\ ctl[c].ret = 0 /\ m = ctl[c].sb
  BY <1>1 DEF PutBoth, CallInv, CallRecords
<1>3. umask \in [Mounts -> SUBSET Bits] /\ pins \in [Mounts -> Nat] BY DEF IInv, MountInv, TypeOK
<1>4. r \in CallRecords /\ CallInv(r) /\ r.held = {"fd"} BY <1>1, <1>2 DEF CallRecords, CallInv
<1>5. /\ ctl' = [ctl EXCEPT ![c] = r] /\ pins' = [pins EXCEPT ![m] = @ - 1]
      /\ UNCHANGED <<pc, held, tfile, umask, module, minors, files, trecord_id, ids, reset,
                     dev, devpc, calls, leaked, refused>>
  BY <1>2 DEF PutBoth, Go
<1> HIDE DEF r
<1>6. ctl' \in [Ctls -> CallRecords] /\ ctl'[c] = r /\ \A x \in Ctls \ {c} : ctl'[x] = ctl[x]
  BY <1>1, <1>4, <1>5
<1>7. \A x \in Ctls : CallInv(ctl'[x]) BY <1>1, <1>4, <1>6
<1>8. c \in Openers(m) /\ Openers(m)' = Openers(m) \ {c} BY <1>2, <1>4, <1>6 DEF Openers
<1>9. \A n \in Mounts \ {m} : Openers(n)' = Openers(n) BY <1>2, <1>4, <1>6 DEF Openers
<1>10. Cardinality(Openers(m)') = Cardinality(Openers(m)) - 1 /\ Cardinality(Openers(m)') \in Nat
  <2>1. IsFiniteSet(Openers(m)) BY OpenersFinite
  <2>2. IsFiniteSet(Openers(m) \ {c}) /\ Cardinality(Openers(m) \ {c}) = Cardinality(Openers(m)) - 1
    BY <1>8, <2>1, FS_RemoveElement
  <2> QED BY <1>8, <2>2, FS_CardinalityType
<1>11. pins'[m] = pins[m] - 1 /\ \A n \in Mounts \ {m} : pins'[n] = pins[n] BY <1>2, <1>3, <1>5
<1>12. PinsCounted' BY <1>1, <1>2, <1>9, <1>10, <1>11 DEF PinsCounted
<1>13. pins' \in [Mounts -> Nat]
  <2>1. pins[m] - 1 \in Nat BY <1>1, <1>2, <1>10 DEF PinsCounted
  <2> QED BY <1>3, <1>5, <2>1
<1>14. OpenInv'
  <2>1. \A n \in Mounts : \A x \in Openers(n)' : x \in Openers(n) /\ x # c /\ ctl'[x] = ctl[x]
    BY <1>4, <1>6 DEF Openers
  <2> QED BY <1>1, <1>5, <2>1 DEF OpenInv
<1>15. umask' \in [Mounts -> SUBSET Bits] BY <1>3, <1>5
<1> QED BY <1>5, <1>6, <1>7, <1>12, <1>13, <1>14, <1>15, FileStep

\* Every step keeps the inductive invariant.
LEMMA StepGood == IInv /\ [CtlNext]_<<vars, ctlvars>> => IInv'
<1> SUFFICES ASSUME IInv, [CtlNext]_<<vars, ctlvars>> PROVE IInv' OBVIOUS
<1>1. CASE Next /\ UNCHANGED ctlvars BY <1>1, MountsGoOn
<1>2. CASE \/ alloc_chrdev_region \/ cdev_add \/ class_create \/ device_create \/ tr_ioctl_exit
  BY <1>2, DeviceStep
<1>3. ASSUME NEW c \in Ctls,
             \/ Main(c) \/ OpenDevice(c) \/ Close(c)
             \/ GetName(c) \/ FilpOpen(c) \/ CheckType(c) \/ Access(c) \/ PutBoth(c) \/ CopyToUser(c)
      PROVE  IInv'
  BY <1>3, PlainStep, FilpOpenStep, AccessStep, PutStep
<1>4. CASE UNCHANGED <<vars, ctlvars>>
  <2>1. MountInv' BY <1>4, MountsSame DEF IInv
  <2>2. UNCHANGED <<pc, umask, pins>> /\ UNCHANGED <<dev, devpc, ctl, calls, leaked, refused>>
    BY <1>4 DEF vars, ctlvars
  <2>3. CtlInv' BY <2>2 DEF IInv, CtlInv, CtlTypeOK, CallInv, PinsCounted, OpenInv, Openers, DeviceClean
  <2> QED BY <2>1, <2>3 DEF IInv
<1> QED BY <1>1, <1>2, <1>3, <1>4 DEF CtlNext

\* The inductive invariant holds in every state.
LEMMA Inductive == CtlSpec => []IInv
  BY InitGood, StepGood, PTL DEF CtlSpec

-----------------------------------------------------------------------------
(* Theorems *)

\* Types of mounts; among them, that pins never falls below zero: every
\* filp_close of tr_ioctl has its filp_open.
THEOREM MountTypes == CtlSpec => []TypeOK
<1>1. IInv => TypeOK BY DEF IInv, MountInv
<1> QED BY <1>1, Inductive, PTL

\* An attempt to mount that failed and returned, and a mount that ended, keeps
\* at most the anonymous device number (the labels of trfs_read_super up to
\* out_fsp_free, trfs_put_super, and kill_sb, which does not free the number).
THEOREM MinorAlone == CtlSpec => []OnlyMinorKept
<1>1. IInv => OnlyMinorKept BY DEF IInv, MountInv, HeldInv, HeldAt, OnlyMinorKept
<1> QED BY <1>1, Inductive, PTL

\* No two mounts share a trace file and none loses its own (create_trfile,
\* trfs_put_super).
THEOREM TraceFilesOwned == CtlSpec => []OwnTraceFile
<1>1. IInv => OwnTraceFile BY DEF IInv, MountInv
<1> QED BY <1>1, Inductive, PTL

\* rec_ids grow in a trace that no other mount reset (trfs_mount, fill_record).
THEOREM IdsInOrder == CtlSpec => []IdsGrow
<1>1. IInv => IdsGrow BY DEF IInv, MountInv
<1> QED BY <1>1, Inductive, PTL

\* Attempts and mounts find the caches, an unloaded module leaves none
\* (init_trfs_fs, exit_trfs_fs).
THEOREM CachesThere == CtlSpec => []CachesInPlace
<1>1. IInv => CachesInPlace BY DEF IInv, MountInv, ModInv, CachesInPlace
<1> QED BY <1>1, Inductive, PTL

\* tr_ioctl uses the superblock of a mount that is in place: whoever is between
\* filp_open and filp_close is counted by what keeps the mount from ending.
THEOREM SuperblockThere == CtlSpec => []AccessOnMounted
<1>1. ASSUME IInv, NEW c \in Ctls, ctl[c].at = "access"
      PROVE  pc[ctl[c].sb] = "mounted" /\ "sb_info" \in held[ctl[c].sb]
  <2>1. ctl[c] \in CallRecords /\ CallInv(ctl[c]) BY <1>1 DEF IInv, CtlInv, CtlTypeOK, CallRecords
  <2>2. ctl[c].sb \in Mounts /\ "filp" \in ctl[c].held BY <1>1, <2>1 DEF CallInv, CallRecords
  <2>3. pc[ctl[c].sb] = "mounted" BY <1>1, <2>2 DEF IInv, CtlInv, OpenInv, Openers
  <2>4. held[ctl[c].sb] \ {"minor"} = Resources \ {"minor"} BY <1>1, <2>2, <2>3 DEF IInv, MountInv, HeldInv, HeldAt
  <2> QED BY <2>3, <2>4 DEF Resources
<1>2. IInv => AccessOnMounted BY <1>1 DEF AccessOnMounted
<1> QED BY <1>2, Inductive, PTL

\* The answer of a get is a bitmap of the mount asked, from the time of the
\* call, and a set was in force (tr_ioctl, under trfs_lock).
THEOREM AnswersInForce == CtlSpec => []AnswerInForce
<1>1. IInv => AnswerInForce BY DEF IInv, CtlInv, CallInv, AnswerInForce
<1> QED BY <1>1, Inductive, PTL

\* The number given to trctl, and no other, was in force after a set that
\* succeeded (isvalidhex, strtoul, tr_ioctl).
THEOREM TypedNumberSet == CtlSpec => []TypedInForce
<1>1. IInv => TypedInForce
  <2> SUFFICES ASSUME IInv, NEW c \in Ctls, ctl[c].at = "close", ctl[c].cmd = "set"
               PROVE  ctl[c].typed \in ctl[c].seen
    BY DEF TypedInForce
  <2>1. CallInv(ctl[c]) BY DEF IInv, CtlInv
  <2> QED BY <2>1 DEF CallInv
<1> QED BY <1>1, Inductive, PTL

\* Only a path outside trfs makes tr_ioctl leave references, and none of them
\* is one on a trfs mount.
THEOREM OnlyRefusedLeaves == CtlSpec => []LeftOnlyByRefused
<1>1. IInv => LeftOnlyByRefused BY DEF IInv, CtlInv, PinsCounted, Openers, LeftOnlyByRefused
<1> QED BY <1>1, Inductive, PTL

\* The trace_ctl module leaves nothing but the device number of a failed
\* cdev_add (tr_ioctl_init, tr_ioctl_exit).
THEOREM DeviceLeftClean == CtlSpec => []DeviceClean
<1>1. IInv => DeviceClean BY DEF IInv, CtlInv
<1> QED BY <1>1, Inductive, PTL
=============================================================================
