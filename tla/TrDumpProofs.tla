---------------------------- MODULE TrDumpProofs ----------------------------
(***************************************************************************)
(* Proofs about the logging path of trfs, for any tasks, calls and bounds. *)
(***************************************************************************)
EXTENDS TrDump, TLAPS

-----------------------------------------------------------------------------
(* The 16-bit arithmetic of the record's size fields.                       *)

\* A conversion to short yields a short.
LEMMA ShortType == \A n \in Int : Short(n) \in Int /\ Short(n) \in ShortInt
  BY SMTT(60) DEF Short, ShortInt

\* fill_record builds a well-typed record whatever the lengths are.
LEMMA MakeRecordType ==
  ASSUME NEW id \in Nat, NEW type \in rec_type_t, NEW plen \in Nat, NEW alen \in Nat
  PROVE  MakeRecord(id, type, plen, alen) \in tr_record
<1>1. /\ Short(plen) \in ShortInt /\ Short(plen) \in Int
      /\ Short(alen) \in ShortInt /\ Short(alen) \in Int
  BY ShortType, plen \in Int, alen \in Int
<1>2. RECORD_SIZE(Short(plen), Short(alen)) \in Int
  BY <1>1 DEF RECORD_SIZE, RecHeader
<1>3. Short(RECORD_SIZE(Short(plen), Short(alen))) \in ShortInt
  BY <1>2, ShortType
<1>4. QED
  BY <1>1, <1>3 DEF MakeRecord, tr_record

\* The overflow of rec_size and that of rec_size_common cancel out: the part
\* of the struct that append_record copies is always the fixed header.
LEMMA CommonIsHeader ==
  ASSUME NEW id \in Nat, NEW type \in rec_type_t, NEW plen \in Nat, NEW alen \in Nat
  PROVE  RecSizeCommon(MakeRecord(id, type, plen, alen)) = RecHeader
<1> DEFINE p == Short(plen)
           a == Short(alen)
<1>1. p \in Int /\ a \in Int
  BY ShortType, plen \in Int, alen \in Int
<1>2. \A x, y \in Int : Short(Short(32 + x + y) - x - y) = 32
  BY SMT DEF Short
<1>3. RecSizeCommon(MakeRecord(id, type, plen, alen)) = Short(Short(32 + p + a) - p - a)
  BY DEF RecSizeCommon, MakeRecord, RECORD_SIZE, RecHeader
<1> HIDE DEF p, a
<1>4. QED
  BY <1>1, <1>2, <1>3 DEF RecHeader

-----------------------------------------------------------------------------
(* Type correctness.                                                        *)

LogTyped == f_pos \in Int /\ log \in Seq(Writes) /\ torn \in BOOLEAN /\ backed \in Nat

\* The byte counts append_record passes to kernel_write are ints.
LEMMA LengthsAreInts ==
  ASSUME NEW r \in tr_record
  PROVE  HeadLen(r) \in Int /\ r.aux_len \in Int
<1>1. \A n \in ShortInt : n \in Int
  BY DEF ShortInt
<1>2. r.rec_size \in ShortInt /\ r.aux_len \in ShortInt
  BY DEF tr_record
<1>3. QED
  BY <1>1, <1>2 DEF HeadLen

\* A kernel_write, complete, short or failed, keeps the trace file well typed.
LEMMA KernelWriteType ==
  ASSUME LogTyped, NEW r \in tr_record, NEW part \in {"head", "aux"}, NEW len \in Int,
         KernelWrite(r, part, len)
  PROVE  LogTyped'
<1>1. CASE WriteAll(r, part, len)
  <2>1. [at |-> f_pos, len |-> len, rec |-> r, part |-> part, full |-> TRUE] \in Writes
    BY <1>1 DEF WriteAll, Writes, LogTyped
  <2>2. QED
    BY <1>1, <2>1 DEF WriteAll, LogTyped
<1>2. CASE WriteNothing(len)
  BY <1>2 DEF WriteNothing, CountErrnos, LogTyped
<1>3. CASE WriteSome(r, part, len)
  <2>1. len \div 2 \in Nat /\ f_pos \in Nat
    BY <1>3 DEF WriteSome, LogTyped
  <2>2. [at |-> f_pos, len |-> len \div 2, rec |-> r, part |-> part, full |-> FALSE] \in Writes
    BY <2>1 DEF Writes, LogTyped
  <2>3. QED
    BY <1>3, <2>2 DEF WriteSome, LogTyped
<1>4. QED
  BY <1>1, <1>2, <1>3 DEF KernelWrite

\* A task that finds its record's aux empty goes to a point of the tail.
LEMMA AfterHeadType == ASSUME NEW r PROVE AfterHead(r) \in PC
  BY DEF AfterHead, PC

\* The record a call is logged with is well typed.
LEMMA CallRecord ==
  ASSUME NEW c \in LoggedCalls, NEW id \in Nat
  PROVE  /\ MakeRecord(id, c.type, c.plen, c.alen) \in tr_record
         /\ RecSizeCommon(MakeRecord(id, c.type, c.plen, c.alen)) = RecHeader
<1>1. c.type \in rec_type_t /\ c.plen \in Nat /\ c.alen \in Nat
  BY DEF LoggedCalls
<1>2. QED
  BY <1>1, MakeRecordType, CommonIsHeader

\* The record a task starts with is well typed.
LEMMA NoRecType == NoRec \in tr_record
  BY MakeRecordType DEF NoRec, rec_type_t

\* The initial state is well typed.
LEMMA InitType == Init => TypeOK
<1> SUFFICES ASSUME Init PROVE TypeOK
  OBVIOUS
<1>1. NoCall \in LoggedCalls
  BY DEF NoCall, LoggedCalls, rec_type_t, AuxTypes, PageSize
<1>2. /\ pc \in [Tasks -> PC] /\ call \in [Tasks -> LoggedCalls] /\ rec \in [Tasks -> tr_record]
      /\ pages \in [Tasks -> SUBSET {"path", "aux"}] /\ tr_page \in tr_record
  BY <1>1, NoRecType DEF Init, PC
<1>3. log \in Seq(Writes)
  BY DEF Init
<1>4. ncalls \in 0 .. MaxCalls
  BY BoundAssumption DEF Init
<1>5. f_pos \in Int /\ backed \in Nat /\ trecord_id \in Nat \cup {-1}
  <2>1. f_pos = 0 /\ backed = 0 /\ trecord_id = -1 BY DEF Init
  <2> QED BY <2>1
<1>6. QED
  BY <1>2, <1>3, <1>4, <1>5 DEF Init, TypeOK

\* Each action of the specification preserves the types.
LEMMA StepType == TypeOK /\ [Next]_vars => TypeOK'
<1> SUFFICES ASSUME TypeOK, [Next]_vars PROVE TypeOK'
  OBVIOUS
<1> USE DEF TypeOK, Goto
<1>1. ASSUME NEW t \in Tasks, Call(t) PROVE TypeOK'
  BY <1>1, CallsAssumption, BoundAssumption DEF Call, logvars, PC
<1>2. ASSUME NEW t \in Tasks, Lock(t) PROVE TypeOK'
  BY <1>2 DEF Lock, logvars, PC
<1>3. ASSUME NEW t \in Tasks, FillMasked(t) \/ FillNoMem(t) PROVE TypeOK'
  BY <1>3 DEF FillMasked, FillNoMem, logvars, PC
<1>4. ASSUME NEW t \in Tasks, FillRecord(t) PROVE TypeOK'
  <2>1. trecord_id + 1 \in Nat
    OBVIOUS
  <2>2. MakeRecord(trecord_id + 1, call[t].type, call[t].plen, call[t].alen) \in tr_record
    BY <2>1, CallRecord
  <2>3. QED
    BY <1>4, <2>1, <2>2 DEF FillRecord, logvars, PC
<1>5. ASSUME NEW t \in Tasks, CopyToPage(t) PROVE TypeOK'
  BY <1>5 DEF CopyToPage, logvars, PC
<1>6. ASSUME NEW t \in Tasks, WriteHead(t) PROVE TypeOK'
  <2>1. LogTyped'
    BY <1>6, KernelWriteType, LengthsAreInts DEF WriteHead, LogTyped
  <2>2. QED
    BY <1>6, <2>1, AfterHeadType DEF WriteHead, LogTyped
<1>7. ASSUME NEW t \in Tasks, WriteAux(t) PROVE TypeOK'
  <2>1. LogTyped'
    BY <1>7, KernelWriteType, LengthsAreInts DEF WriteAux, LogTyped
  <2>2. mmfaults' \subseteq {"leaked", "freed"} \X {"path", "aux", "symname"}
    BY <1>7 DEF WriteAux
  <2>3. QED
    BY <1>7, <2>1, <2>2 DEF WriteAux, LogTyped, PC
<1>8. ASSUME NEW t \in Tasks, Unlock(t) PROVE TypeOK'
  BY <1>8 DEF Unlock, logvars, PC
<1>9. ASSUME NEW bitmap \in Bitmaps, SetBmap(bitmap) PROVE TypeOK'
  BY <1>9, BoundAssumption DEF SetBmap, logvars
<1>10. CASE UNCHANGED vars
  BY <1>10 DEF vars
<1>11. QED
  BY <1>1, <1>2, <1>3, <1>4, <1>5, <1>6, <1>7, <1>8, <1>9, <1>10 DEF Next, Step

\* The state of the logging path keeps its C types whatever calls are made.
THEOREM TypeCorrect == Spec => []TypeOK
  BY InitType, StepType, PTL DEF Spec

-----------------------------------------------------------------------------
(* What trfs_lock protects.                                                 *)

\* The owner of the lock is the task inside the tail.
LockInv == \A t \in Tasks : lock = t <=> pc[t] \notin {"idle", "lock"}

\* A record being appended is the last one numbered, that of its call.
RecInv == \A t \in Tasks :
  Inflight(t) => /\ trecord_id \in Nat
                 /\ rec[t] = MakeRecord(trecord_id, call[t].type, call[t].plen, call[t].alen)

\* tr_page holds the owner's record when it is written, and the pages of a
\* call are the ones allocated and not freed so far.
PageInv == \A t \in Tasks :
  /\ pc[t] = "head" => tr_page = rec[t]
  /\ pc[t] \in {"idle", "lock", "fill"} => pages[t] = {}
  /\ pc[t] \in {"head", "aux", "unlock", "bug"} => "path" \notin pages[t]

LockedInv == LockInv /\ RecInv /\ PageInv /\ LoggedUnderMask /\ PathPageFreed

\* Nobody holds the lock, a record or a page at the start.
LEMMA InitLocked == Init => LockedInv
  BY TasksAssumption DEF Init, LockedInv, LockInv, RecInv, PageInv, LoggedUnderMask, PathPageFreed, Inflight

\* What fill_record stores of a call in its record.
LEMMA RecFields ==
  ASSUME NEW id, NEW type, NEW plen, NEW alen
  PROVE  /\ MakeRecord(id, type, plen, alen).type = type
         /\ MakeRecord(id, type, plen, alen).rec_id = id
  BY DEF MakeRecord

\* Each action preserves what the lock protects.
LEMMA StepLocked == TypeOK /\ LockedInv /\ [Next]_vars => LockedInv'
<1> SUFFICES ASSUME TypeOK, LockedInv, [Next]_vars PROVE LockedInv'
  OBVIOUS
<1> USE TasksAssumption DEF LockedInv, LockInv, RecInv, PageInv, LoggedUnderMask, PathPageFreed,
        Inflight, Goto, TypeOK
<1>1. ASSUME NEW t \in Tasks, Call(t) PROVE LockedInv'
  BY <1>1 DEF Call
<1>2. ASSUME NEW t \in Tasks, Lock(t) PROVE LockedInv'
  BY <1>2 DEF Lock
<1>3. ASSUME NEW t \in Tasks, FillMasked(t) \/ FillNoMem(t) PROVE LockedInv'
  BY <1>3 DEF FillMasked, FillNoMem
<1>4. ASSUME NEW t \in Tasks, FillRecord(t) PROVE LockedInv'
  <2> DEFINE r == MakeRecord(trecord_id + 1, call[t].type, call[t].plen, call[t].alen)
  <2>1. rec' = [rec EXCEPT ![t] = r] /\ trecord_id + 1 \in Nat /\ r.type = call[t].type
    BY <1>4, RecFields DEF FillRecord
  <2>2. r = MakeRecord(trecord_id', call'[t].type, call'[t].plen, call'[t].alen)
    BY <1>4 DEF FillRecord
  <2> HIDE DEF r
  <2>3. \A u \in Tasks : u # t => ~Inflight(u)
    BY <1>4 DEF FillRecord
  <2>4. RecInv'
    BY <1>4, <2>1, <2>2, <2>3 DEF FillRecord
  <2>5. LockInv' /\ PageInv' /\ PathPageFreed'
    BY <1>4, <2>1, <2>3 DEF FillRecord
  <2>6. LoggedUnderMask'
    BY <1>4, <2>1, <2>3 DEF FillRecord
  <2>7. QED
    BY <2>4, <2>5, <2>6
<1>5. ASSUME NEW t \in Tasks, CopyToPage(t) PROVE LockedInv'
  BY <1>5 DEF CopyToPage
<1>6. ASSUME NEW t \in Tasks, WriteHead(t) PROVE LockedInv'
  BY <1>6 DEF WriteHead, AfterHead
<1>7. ASSUME NEW t \in Tasks, WriteAux(t) PROVE LockedInv'
  BY <1>7 DEF WriteAux
<1>8. ASSUME NEW t \in Tasks, Unlock(t) PROVE LockedInv'
  BY <1>8 DEF Unlock
<1>9. ASSUME NEW bitmap \in Bitmaps, SetBmap(bitmap) PROVE LockedInv'
  BY <1>9 DEF SetBmap
<1>10. CASE UNCHANGED vars
  BY <1>10 DEF vars
<1>11. QED
  BY <1>1, <1>2, <1>3, <1>4, <1>5, <1>6, <1>7, <1>8, <1>9, <1>10 DEF Next, Step

\* What the lock protects holds in every reachable state.
LEMMA LockedCorrect == Spec => []LockedInv
  BY TypeCorrect, InitLocked, StepLocked, PTL DEF Spec

\* A record is only appended while the bitmap has its type.
THEOREM UnderMask == Spec => []LoggedUnderMask
  BY LockedCorrect, PTL DEF LockedInv

\* The page of the primary path is never lost.
THEOREM PathPage == Spec => []PathPageFreed
  BY LockedCorrect, PTL DEF LockedInv

\* BUG_ON(rec_size_common <= 0) never fires, overflow of the shorts included.
THEOREM NoSizeBug == Spec => []RecSizeCommonPositive
<1>1. TypeOK /\ LockedInv => RecSizeCommonPositive
  <2> SUFFICES ASSUME TypeOK, LockedInv, NEW t \in Tasks, pc[t] = "copy"
               PROVE  RecSizeCommon(rec[t]) = RecHeader
    BY DEF RecSizeCommonPositive
  <2>1. trecord_id \in Nat /\ rec[t] = MakeRecord(trecord_id, call[t].type, call[t].plen, call[t].alen)
    BY DEF LockedInv, RecInv, Inflight
  <2>2. call[t] \in LoggedCalls
    BY DEF TypeOK
  <2>3. QED
    BY <2>1, <2>2, CallRecord
<1>2. QED
  BY <1>1, TypeCorrect, LockedCorrect, PTL

-----------------------------------------------------------------------------
(* The trace file is a run of whole records.                                *)

\* While no write has failed, a task about to write aux data finds the head
\* of its record at the end of the file.
AuxNext ==
  ~torn => \A t \in Tasks : pc[t] = "aux" =>
             log # <<>> /\ log[Len(log)].part = "head" /\ log[Len(log)].rec = rec[t]

FileInv == LogTiled /\ WholeRecords /\ AuxNext

\* Appending keeps the old writes and adds the new one at the end.
LEMMA AppendFacts ==
  ASSUME NEW S, NEW s \in Seq(S), NEW w \in S
  PROVE  /\ Len(Append(s, w)) = Len(s) + 1 /\ Len(s) \in Nat
         /\ DOMAIN Append(s, w) = 1 .. Len(s) + 1 /\ DOMAIN s = 1 .. Len(s)
         /\ \A i \in 1 .. Len(s) : Append(s, w)[i] = s[i]
         /\ Append(s, w)[Len(s) + 1] = w
         /\ Append(s, w) # <<>>
         /\ s = <<>> <=> Len(s) = 0
  OBVIOUS

\* A step that leaves the file alone and no "aux" task comes, goes or changes
\* its record keeps the file whole.
LEMMA FileUntouched ==
  ASSUME FileInv, UNCHANGED logvars,
         \A u \in Tasks : (pc[u] = "aux" <=> pc'[u] = "aux") /\ (pc[u] = "aux" => rec'[u] = rec[u])
  PROVE  FileInv'
  BY DEF FileInv, LogTiled, WholeRecords, AuxNext, logvars

\* Each action preserves the shape of the trace file.
LEMMA StepFile == TypeOK /\ LockedInv /\ FileInv /\ [Next]_vars => FileInv'
<1> SUFFICES ASSUME TypeOK, LockedInv, FileInv, [Next]_vars PROVE FileInv'
  OBVIOUS
<1>1. ASSUME NEW t \in Tasks, Call(t) \/ Lock(t) \/ FillMasked(t) \/ FillNoMem(t) \/ FillRecord(t)
                               \/ CopyToPage(t) \/ Unlock(t)
      PROVE FileInv'
  <2>1. UNCHANGED logvars
    BY <1>1 DEF Call, Lock, FillMasked, FillNoMem, FillRecord, CopyToPage, Unlock
  <2>2. \A u \in Tasks : (pc[u] = "aux" <=> pc'[u] = "aux") /\ (pc[u] = "aux" => rec'[u] = rec[u])
    BY <1>1 DEF TypeOK, Goto, Call, Lock, FillMasked, FillNoMem, FillRecord, CopyToPage, Unlock
  <2>3. QED
    BY <2>1, <2>2, FileUntouched
<1>2. ASSUME NEW t \in Tasks, WriteHead(t), ~torn' PROVE FileInv'
  <2> DEFINE w == [at |-> f_pos, len |-> HeadLen(rec[t]), rec |-> rec[t], part |-> "head", full |-> TRUE]
  <2>1. /\ log' = Append(log, w) /\ f_pos' = f_pos + HeadLen(rec[t]) /\ ~torn
        /\ HeadLen(rec[t]) \in Nat /\ f_pos \in Nat
    <3>1. tr_page = rec[t]
      BY <1>2 DEF WriteHead, Goto, LockedInv, PageInv
    <3>2. HeadLen(rec[t]) \in Int
      BY LengthsAreInts DEF TypeOK
    <3>3. WriteAll(tr_page, "head", HeadLen(rec[t]))
      BY <1>2 DEF WriteHead, KernelWrite, WriteNothing, WriteSome
    <3>4. QED
      BY <1>2, <3>1, <3>2, <3>3 DEF WriteAll, TypeOK
  <2>2. w \in Writes /\ w.at = f_pos /\ w.len = HeadLen(rec[t]) /\ w.rec = rec[t] /\ w.part = "head"
    BY <2>1 DEF Writes, TypeOK
  <2>3. pc[t] = "head" /\ pc' = [pc EXCEPT ![t] = AfterHead(rec[t])] /\ rec' = rec
    BY <1>2 DEF WriteHead, Goto
  <2> HIDE DEF w
  <2>4. \A u \in Tasks : pc[u] # "aux"
    BY <2>3, TasksAssumption DEF LockedInv, LockInv
  <2>5. log \in Seq(Writes)
    BY DEF TypeOK
  <2>6. LogTiled'
    BY <2>1, <2>2, <2>5, AppendFacts DEF FileInv, LogTiled
  <2>7. rec[t].aux_len # 0 => pc'[t] = "aux"
    BY <2>3 DEF AfterHead, TypeOK
  <2>8. WholeRecords'
    <3> SUFFICES ASSUME NEW i \in 1 .. Len(log) + 1
                 PROVE  /\ log'[i].len = IF log'[i].part = "head" THEN HeadLen(log'[i].rec)
                                         ELSE log'[i].rec.aux_len
                        /\ log'[i].part = "aux" =>
                             i > 1 /\ log'[i-1].part = "head" /\ log'[i-1].rec = log'[i].rec
                        /\ log'[i].part = "head" /\ log'[i].rec.aux_len # 0 =>
                             IF i < Len(log) + 1
                             THEN log'[i+1].part = "aux" /\ log'[i+1].rec = log'[i].rec
                             ELSE \E u \in Tasks : pc'[u] = "aux" /\ rec'[u] = log'[i].rec
      BY <2>1, <2>2, <2>5, AppendFacts DEF WholeRecords
    <3>1. CASE i = Len(log) + 1
      BY <2>1, <2>2, <2>3, <2>5, <2>7, <3>1, AppendFacts
    <3>2. CASE i < Len(log)
      BY <2>1, <2>2, <2>4, <2>5, <3>2, AppendFacts DEF FileInv, WholeRecords
    <3>3. CASE i = Len(log)
      BY <2>1, <2>2, <2>4, <2>5, <3>3, AppendFacts DEF FileInv, WholeRecords
    <3>4. QED
      BY <2>5, <3>1, <3>2, <3>3, AppendFacts, <2>2
  <2>9. AuxNext'
    BY <2>1, <2>2, <2>3, <2>4, <2>5, AppendFacts DEF AuxNext, TypeOK
  <2>10. QED
    BY <2>6, <2>8, <2>9 DEF FileInv
<1>3. ASSUME NEW t \in Tasks, WriteAux(t), ~torn' PROVE FileInv'
  <2> DEFINE w == [at |-> f_pos, len |-> rec[t].aux_len, rec |-> rec[t], part |-> "aux", full |-> TRUE]
  <2>1. /\ log' = Append(log, w) /\ f_pos' = f_pos + rec[t].aux_len /\ ~torn
        /\ rec[t].aux_len \in Nat /\ f_pos \in Nat
    BY <1>3, LengthsAreInts
    DEF WriteAux, KernelWrite, WriteAll, WriteNothing, WriteSome, TypeOK
  <2>2. w \in Writes /\ w.at = f_pos /\ w.len = rec[t].aux_len /\ w.rec = rec[t] /\ w.part = "aux"
    BY <2>1 DEF Writes, TypeOK
  <2>3. pc[t] = "aux" /\ pc' = [pc EXCEPT ![t] = "unlock"] /\ rec' = rec
    BY <1>3 DEF WriteAux, Goto
  <2> HIDE DEF w
  <2>4. \A u \in Tasks : pc'[u] # "aux"
    BY <2>3, TasksAssumption DEF LockedInv, LockInv, TypeOK
  <2>5. log \in Seq(Writes)
    BY DEF TypeOK
  <2>6. LogTiled'
    BY <2>1, <2>2, <2>5, AppendFacts DEF FileInv, LogTiled
  <2>7. log # <<>> /\ log[Len(log)].part = "head" /\ log[Len(log)].rec = rec[t]
    BY <2>1, <2>3 DEF FileInv, AuxNext
  <2>8. WholeRecords'
    <3>1. /\ DOMAIN log = 1 .. Len(log) /\ DOMAIN log' = 1 .. Len(log) + 1 /\ Len(log) \in Nat
          /\ Len(log') = Len(log) + 1 /\ Len(log) > 0
          /\ \A i \in 1 .. Len(log) : log'[i] = log[i]
          /\ log'[Len(log) + 1] = w
      BY <2>1, <2>2, <2>5, <2>7, AppendFacts
    <3> QED BY <2>1, <2>2, <2>7, <3>1 DEF FileInv, WholeRecords
  <2>9. AuxNext'
    BY <2>4 DEF AuxNext
  <2>10. QED
    BY <2>6, <2>8, <2>9 DEF FileInv
<1>4. ASSUME NEW bitmap \in Bitmaps, SetBmap(bitmap) PROVE FileInv'
  BY <1>4, FileUntouched DEF SetBmap
<1>5. CASE UNCHANGED vars
  BY <1>5, FileUntouched DEF vars, logvars
<1>6. CASE torn'
  BY <1>6 DEF FileInv, LogTiled, WholeRecords, AuxNext
<1>7. QED
  BY <1>1, <1>2, <1>3, <1>4, <1>5, <1>6 DEF Next, Step

\* The shape of the trace file is an invariant.
LEMMA FileCorrect == Spec => []FileInv
<1>1. Init => FileInv
  BY DEF Init, FileInv, LogTiled, WholeRecords, AuxNext
<1>2. QED
  BY <1>1, TypeCorrect, LockedCorrect, StepFile, PTL DEF Spec

\* Until a write fails, the writes of the trace file lie end to end.
THEOREM Tiled == Spec => []LogTiled
  BY FileCorrect, PTL DEF FileInv

\* Until a write fails, the trace file is a run of whole records, of which at
\* most the last is still missing its aux data.
THEOREM Whole == Spec => []WholeRecords
  BY FileCorrect, PTL DEF FileInv

-----------------------------------------------------------------------------
(* What is written stays, ids are in order and none is missing, and the two *)
(* writes of a record implement the one step of AtomicLog.                  *)

-----------------------------------------------------------------------------
(* What append_record does to the file, in one place                        *)

Heads == {i \in DOMAIN log : log[i].part = "head"}

\* The elements of a sequence are of its type.
LEMMA Members == ASSUME NEW S, NEW q \in Seq(S), NEW k \in DOMAIN q PROVE q[k] \in S
  OBVIOUS

\* A kernel_write adds at most one write, at f_pos, and f_pos moves past it if
\* and only if it was complete; without a write f_pos only moves by what is
\* counted in backed.
LEMMA WriteFacts ==
  ASSUME TypeOK, NEW r \in tr_record, NEW part \in {"head", "aux"}, NEW len \in Int,
         KernelWrite(r, part, len)
  PROVE  \/ /\ log' = log /\ torn'
            /\ f_pos' \in Int /\ backed' \in Nat
            /\ f_pos' + backed' = f_pos + backed /\ backed' >= backed
         \/ \E w \in Writes :
              /\ log' = Append(log, w) /\ backed' = backed
              /\ w.at = f_pos /\ w.rec = r /\ w.part = part
              /\ f_pos' \in Int /\ f_pos' >= f_pos
              /\ w.full => f_pos' = f_pos + w.len
              /\ ~torn' => w.len = len /\ f_pos' = f_pos + len /\ len \in Nat /\ ~torn
<1>1. CASE WriteAll(r, part, len)
  <2> DEFINE w == [at |-> f_pos, len |-> len, rec |-> r, part |-> part, full |-> TRUE]
  <2>1. w \in Writes /\ w.at = f_pos /\ w.rec = r /\ w.part = part /\ w.len = len
    BY <1>1 DEF WriteAll, Writes, TypeOK
  <2>2. log' = Append(log, w) /\ f_pos' = f_pos + len /\ UNCHANGED <<torn, backed>> /\ len \in Nat /\ f_pos \in Nat
    BY <1>1 DEF WriteAll, TypeOK
  <2> HIDE DEF w
  <2> QED BY <2>1, <2>2
<1>2. CASE WriteNothing(len) BY <1>2 DEF WriteNothing, CountErrnos, TypeOK
<1>3. CASE WriteSome(r, part, len)
  <2> DEFINE w == [at |-> f_pos, len |-> len \div 2, rec |-> r, part |-> part, full |-> FALSE]
  <2>1. len \div 2 \in Nat /\ f_pos \in Nat BY <1>3 DEF WriteSome, TypeOK
  <2>2. w \in Writes /\ w.at = f_pos /\ w.rec = r /\ w.part = part /\ w.full = FALSE
    BY <2>1 DEF Writes, TypeOK
  <2>3. log' = Append(log, w) /\ UNCHANGED <<f_pos, backed>> /\ torn' /\ f_pos \in Nat BY <1>3 DEF WriteSome, TypeOK
  <2> HIDE DEF w
  <2> QED BY <2>2, <2>3
<1> QED BY <1>1, <1>2, <1>3 DEF KernelWrite

\* The write of a head is that of the owner's record, the last one numbered.
LEMMA HeadFacts ==
  ASSUME TypeOK, LockedInv, NEW t \in Tasks, WriteHead(t)
  PROVE  /\ tr_page = rec[t] /\ rec[t] \in tr_record /\ HeadLen(rec[t]) \in Int
         /\ KernelWrite(rec[t], "head", HeadLen(rec[t]))
         /\ trecord_id \in Nat /\ rec[t].rec_id = trecord_id
         /\ pc[t] = "head" /\ pc' = [pc EXCEPT ![t] = AfterHead(rec[t])]
         /\ UNCHANGED <<rec, trecord_id, call, lock>>
         /\ \A u \in Tasks : u # t => ~Inflight(u)
<1>1. pc[t] = "head" /\ pc' = [pc EXCEPT ![t] = AfterHead(rec[t])] /\ UNCHANGED <<rec, trecord_id, call, lock>>
  BY DEF WriteHead, Goto
<1>2. tr_page = rec[t] /\ rec[t] \in tr_record BY <1>1 DEF LockedInv, PageInv, TypeOK
<1>3. KernelWrite(rec[t], "head", HeadLen(rec[t])) BY <1>2 DEF WriteHead
<1>4. trecord_id \in Nat /\ rec[t].rec_id = trecord_id
  BY <1>1, RecFields DEF LockedInv, RecInv, Inflight
<1>5. \A u \in Tasks : u # t => ~Inflight(u)
  BY <1>1, TasksAssumption DEF LockedInv, LockInv, Inflight
<1> QED BY <1>1, <1>2, <1>3, <1>4, <1>5, LengthsAreInts

\* The write of the aux data is that of the owner's record too.
LEMMA AuxFacts ==
  ASSUME TypeOK, LockedInv, NEW t \in Tasks, WriteAux(t)
  PROVE  /\ rec[t] \in tr_record /\ rec[t].aux_len \in Int
         /\ KernelWrite(rec[t], "aux", rec[t].aux_len)
         /\ trecord_id \in Nat /\ rec[t].rec_id = trecord_id
         /\ pc[t] = "aux" /\ pc' = [pc EXCEPT ![t] = "unlock"]
         /\ UNCHANGED <<rec, trecord_id, call, lock>>
         /\ \A u \in Tasks : u # t => ~Inflight(u)
<1>1. pc[t] = "aux" /\ pc' = [pc EXCEPT ![t] = "unlock"] /\ UNCHANGED <<rec, trecord_id, call, lock>>
  BY DEF WriteAux, Goto
<1>2. rec[t] \in tr_record BY DEF TypeOK
<1>3. KernelWrite(rec[t], "aux", rec[t].aux_len) BY DEF WriteAux
<1>4. trecord_id \in Nat /\ rec[t].rec_id = trecord_id
  BY <1>1, RecFields DEF LockedInv, RecInv, Inflight
<1>5. \A u \in Tasks : u # t => ~Inflight(u)
  BY <1>1, TasksAssumption DEF LockedInv, LockInv, Inflight
<1> QED BY <1>1, <1>2, <1>3, <1>4, <1>5, LengthsAreInts

\* Every other action leaves the file alone.
LEMMA OtherSteps ==
  ASSUME NEW t \in Tasks,
         Call(t) \/ Lock(t) \/ FillMasked(t) \/ FillNoMem(t) \/ FillRecord(t) \/ CopyToPage(t) \/ Unlock(t)
  PROVE  UNCHANGED logvars
  BY DEF Call, Lock, FillMasked, FillNoMem, FillRecord, CopyToPage, Unlock

-----------------------------------------------------------------------------
(* Complete writes stay                                                     *)

\* What was written in full ends at or before f_pos, but for what f_pos went
\* back.
PastFull == \A i \in DOMAIN log : log[i].full => log[i].at + log[i].len <= f_pos + backed

\* One write more keeps the complete ones apart.
LEMMA WriteKeeps ==
  ASSUME TypeOK, PastFull, NeverOverwritten, NEW r \in tr_record, NEW part \in {"head", "aux"}, NEW len \in Int,
         KernelWrite(r, part, len)
  PROVE  PastFull' /\ NeverOverwritten'
<1> DEFINE Ends(v) == v.at \in Nat /\ v.len \in Nat
<1>0. /\ log \in Seq(Writes) /\ f_pos \in Int /\ backed \in Nat
      /\ DOMAIN log = 1 .. Len(log) /\ Len(log) \in Nat
      /\ \A i \in 1 .. Len(log) : Ends(log[i])
  <2>1. log \in Seq(Writes) /\ f_pos \in Int /\ backed \in Nat BY DEF TypeOK
  <2>2. DOMAIN log = 1 .. Len(log) /\ Len(log) \in Nat BY <2>1
  <2>3. \A i \in 1 .. Len(log) : log[i] \in Writes BY <2>1, <2>2, Members
  <2>4. \A v \in Writes : Ends(v) BY DEF Writes
  <2> QED BY <2>1, <2>2, <2>3, <2>4
<1>1. ASSUME log' = log, f_pos' \in Int, backed' \in Nat, f_pos' + backed' = f_pos + backed, backed' >= backed
      PROVE  PastFull' /\ NeverOverwritten'
  <2>1. PastFull' BY <1>1 DEF PastFull
  <2>2. \A a, b, c, d \in Int : a + c >= b /\ d >= c => a + d >= b OBVIOUS
  <2>3. NeverOverwritten'
    <3> SUFFICES ASSUME NEW i \in 1 .. Len(log), NEW j \in 1 .. Len(log), i < j, log[i].full
                 PROVE  log[j].at + backed' >= log[i].at + log[i].len
      BY <1>0, <1>1 DEF NeverOverwritten
    <3>1. log[j].at + backed >= log[i].at + log[i].len BY <1>0 DEF NeverOverwritten
    <3>2. log[j].at \in Int /\ log[i].at + log[i].len \in Int BY <1>0
    <3> QED BY <1>0, <1>1, <2>2, <3>1, <3>2
  <2> QED BY <2>1, <2>3
<1>2. ASSUME NEW w \in Writes, log' = Append(log, w), backed' = backed, w.at = f_pos, f_pos' \in Int,
             f_pos' >= f_pos, w.full => f_pos' = f_pos + w.len
      PROVE  PastFull' /\ NeverOverwritten'
  <2>1. /\ DOMAIN log' = 1 .. Len(log) + 1
        /\ \A i \in 1 .. Len(log) : log'[i] = log[i]
        /\ log'[Len(log) + 1] = w
    BY <1>0, <1>2, AppendFacts
  <2>2. PastFull' BY <1>0, <1>2, <2>1 DEF PastFull
  <2>3. NeverOverwritten' BY <1>0, <1>2, <2>1 DEF PastFull, NeverOverwritten
  <2> QED BY <2>2, <2>3
<1> QED BY <1>1, <1>2, WriteFacts

\* Each action keeps them.
LEMMA StepKeeps ==
  TypeOK /\ LockedInv /\ PastFull /\ NeverOverwritten /\ [Next]_vars => PastFull' /\ NeverOverwritten'
<1> SUFFICES ASSUME TypeOK, LockedInv, PastFull, NeverOverwritten, [Next]_vars
             PROVE  PastFull' /\ NeverOverwritten'
  OBVIOUS
<1>1. ASSUME NEW t \in Tasks, WriteHead(t) PROVE PastFull' /\ NeverOverwritten'
  BY <1>1, HeadFacts, WriteKeeps
<1>2. ASSUME NEW t \in Tasks, WriteAux(t) PROVE PastFull' /\ NeverOverwritten'
  BY <1>2, AuxFacts, WriteKeeps
<1>3. CASE UNCHANGED logvars
  BY <1>3 DEF logvars, PastFull, NeverOverwritten
<1>4. (\E bitmap \in Bitmaps : SetBmap(bitmap)) \/ UNCHANGED vars => UNCHANGED logvars
  BY DEF SetBmap, vars, logvars
<1> QED BY <1>1, <1>2, <1>3, <1>4, OtherSteps DEF Next, Step

\* Bytes that were written in full are never overwritten, whatever writes of
\* append_record fail or are short, but for those by which f_pos was moved back.
THEOREM NotOverwritten == Spec => []NeverOverwritten
<1>1. Init => PastFull /\ NeverOverwritten BY DEF Init, PastFull, NeverOverwritten
<1> QED BY <1>1, TypeCorrect, LockedCorrect, StepKeeps, PTL DEF Spec

-----------------------------------------------------------------------------
(* Record ids                                                               *)

HeadIds == {log[i].rec.rec_id : i \in Heads}

Flying == {u \in Tasks : Inflight(u)}

\* No id in the file is above the counter, and a record whose head is not
\* written yet has an id above all of them.
IdsBelow ==
  /\ \A n \in HeadIds : n \in Nat /\ n <= trecord_id
  /\ \A t \in Tasks : pc[t] \in {"copy", "head"} => \A n \in HeadIds : n < trecord_id

\* The first half of RecIdsInOrder, and the second.
Ascending == \A i, j \in Heads : i < j => log[i].rec.rec_id < log[j].rec.rec_id
Complete  == ~torn => 0 .. trecord_id = HeadIds \cup {rec[t].rec_id : t \in Flying}

IdsInv == IdsBelow /\ Ascending /\ Complete

\* The two halves are the property.
LEMMA Halves == RecIdsInOrder <=> Ascending /\ Complete
  BY DEF RecIdsInOrder, Ascending, Complete, Heads, HeadIds, Flying

\* The complete writes of append_record change the heads by at most one.
LEMMA HeadsGrow ==
  ASSUME TypeOK, NEW w \in Writes, log' = Append(log, w)
  PROVE  /\ Heads' = IF w.part = "head" THEN Heads \cup {Len(log) + 1} ELSE Heads
         /\ \A i \in Heads : log'[i] = log[i] /\ i \in 1 .. Len(log)
         /\ log'[Len(log) + 1] = w /\ Len(log) \in Nat
         /\ HeadIds' = IF w.part = "head" THEN HeadIds \cup {w.rec.rec_id} ELSE HeadIds
<1>1. log \in Seq(Writes) BY DEF TypeOK
<1>2. /\ DOMAIN log = 1 .. Len(log) /\ DOMAIN log' = 1 .. Len(log) + 1 /\ Len(log) \in Nat
      /\ \A i \in 1 .. Len(log) : log'[i] = log[i]
      /\ log'[Len(log) + 1] = w
  BY <1>1, AppendFacts
<1>3. Heads' = IF w.part = "head" THEN Heads \cup {Len(log) + 1} ELSE Heads
  BY <1>2 DEF Heads
<1>4. \A i \in Heads : log'[i] = log[i] /\ i \in 1 .. Len(log) BY <1>2 DEF Heads
<1>5. HeadIds' = IF w.part = "head" THEN HeadIds \cup {w.rec.rec_id} ELSE HeadIds
  BY <1>2, <1>3, <1>4 DEF HeadIds
<1> QED BY <1>2, <1>3, <1>4, <1>5

\* A step that leaves the file and the counter alone, and no record comes or
\* goes, keeps the ids.
LEMMA IdsUntouched ==
  ASSUME IdsInv, UNCHANGED logvars, trecord_id' = trecord_id, rec' = rec,
         \A u \in Tasks : /\ pc'[u] \in {"copy", "head"} <=> pc[u] \in {"copy", "head"}
                          /\ Inflight(u)' <=> Inflight(u)
  PROVE  IdsInv'
<1>1. Heads' = Heads /\ HeadIds' = HeadIds /\ Flying' = Flying BY DEF Heads, HeadIds, Flying, logvars
<1>2. IdsBelow' BY <1>1 DEF IdsInv, IdsBelow
<1>3. Ascending' BY <1>1 DEF IdsInv, Ascending, logvars
<1>4. Complete' BY <1>1 DEF IdsInv, Complete, logvars
<1> QED BY <1>2, <1>3, <1>4 DEF IdsInv

\* A new record takes the next id.
LEMMA IdsFill ==
  ASSUME TypeOK, LockedInv, LockedInv', IdsInv, NEW t \in Tasks, FillRecord(t)
  PROVE  IdsInv'
<1>1. /\ UNCHANGED logvars /\ trecord_id' = trecord_id + 1 /\ trecord_id \in Int /\ trecord_id >= -1
      /\ pc[t] = "fill" /\ pc' = [pc EXCEPT ![t] = "copy"]
  BY DEF FillRecord, Goto, TypeOK
<1>2. rec'[t].rec_id = trecord_id + 1
  BY RecFields DEF FillRecord, TypeOK
<1>3. Flying = {}
  BY <1>1, TasksAssumption DEF LockedInv, LockInv, Inflight, Flying
<1>4. Flying' = {t}
  BY <1>1, <1>3 DEF Inflight, Flying, TypeOK
<1>5. Heads' = Heads /\ HeadIds' = HeadIds BY <1>1 DEF Heads, HeadIds, logvars
<1>6. IdsBelow' BY <1>1, <1>5 DEF IdsInv, IdsBelow
<1>7. Ascending' BY <1>1, <1>5 DEF IdsInv, Ascending, logvars
<1>8. Complete'
  <2> SUFFICES ASSUME ~torn PROVE 0 .. trecord_id' = HeadIds' \cup {rec'[u].rec_id : u \in Flying'}
    BY <1>1 DEF Complete, logvars
  <2>1. 0 .. trecord_id = HeadIds BY <1>3 DEF IdsInv, Complete
  <2>2. 0 .. trecord_id + 1 = (0 .. trecord_id) \cup {trecord_id + 1} BY <1>1
  <2> QED BY <1>1, <1>2, <1>4, <1>5, <2>1, <2>2
<1> QED BY <1>6, <1>7, <1>8 DEF IdsInv

\* The head of a record has the highest id so far.
LEMMA IdsHead ==
  ASSUME TypeOK, LockedInv, IdsInv, NEW t \in Tasks, WriteHead(t)
  PROVE  IdsInv'
<1>1. /\ rec[t] \in tr_record /\ HeadLen(rec[t]) \in Int
      /\ KernelWrite(rec[t], "head", HeadLen(rec[t]))
      /\ trecord_id \in Nat /\ rec[t].rec_id = trecord_id
      /\ pc[t] = "head" /\ pc' = [pc EXCEPT ![t] = AfterHead(rec[t])]
      /\ UNCHANGED <<rec, trecord_id>>
      /\ \A u \in Tasks : u # t => ~Inflight(u)
  BY HeadFacts
<1>2. \A u \in Tasks : pc'[u] \notin {"copy", "head"}
  BY <1>1 DEF Inflight, AfterHead, TypeOK
<1>3. CASE log' = log /\ torn'
  <2>1. Heads' = Heads /\ HeadIds' = HeadIds BY <1>3 DEF Heads, HeadIds
  <2> QED BY <1>1, <1>2, <1>3, <2>1 DEF IdsInv, IdsBelow, Ascending, Complete
<1>4. ASSUME NEW w \in Writes, log' = Append(log, w), w.rec = rec[t], w.part = "head", ~torn' => ~torn
      PROVE  IdsInv'
  <2>1. /\ Heads' = Heads \cup {Len(log) + 1} /\ HeadIds' = HeadIds \cup {trecord_id}
        /\ \A i \in Heads : log'[i] = log[i] /\ i \in 1 .. Len(log)
        /\ log'[Len(log) + 1].rec.rec_id = trecord_id /\ Len(log) \in Nat
    BY <1>1, <1>4, HeadsGrow
  <2>2. \A n \in HeadIds : n \in Nat /\ n < trecord_id BY <1>1 DEF IdsInv, IdsBelow
  <2>3. IdsBelow' BY <1>1, <1>2, <2>1, <2>2 DEF IdsBelow
  <2>4. \A i \in Heads : log[i].rec.rec_id \in HeadIds BY DEF HeadIds
  <2>5. Ascending'
    BY <2>1, <2>2, <2>4 DEF IdsInv, Ascending
  <2>6. Complete'
    <3> SUFFICES ASSUME ~torn' PROVE 0 .. trecord_id = HeadIds \cup {trecord_id} \cup {rec[u].rec_id : u \in Flying'}
      BY <1>1, <2>1 DEF Complete
    <3>1. Flying = {t} BY <1>1 DEF Flying, Inflight
    <3>2. Flying' \subseteq {t} BY <1>1 DEF Flying, Inflight, TypeOK
    <3>3. 0 .. trecord_id = HeadIds \cup {rec[u].rec_id : u \in Flying} BY <1>4 DEF IdsInv, Complete
    <3>4. {rec[u].rec_id : u \in Flying} = {trecord_id} BY <1>1, <3>1
    <3>5. {rec[u].rec_id : u \in Flying'} \subseteq {trecord_id} BY <1>1, <3>2
    <3> QED BY <3>3, <3>4, <3>5
  <2> QED BY <2>3, <2>5, <2>6 DEF IdsInv
<1> QED BY <1>1, <1>3, <1>4, WriteFacts

\* The aux data adds no id; the one its record leaves is in the file.
LEMMA IdsAux ==
  ASSUME TypeOK, LockedInv, FileInv, IdsInv, NEW t \in Tasks, WriteAux(t)
  PROVE  IdsInv'
<1>1. /\ rec[t] \in tr_record /\ rec[t].aux_len \in Int
      /\ KernelWrite(rec[t], "aux", rec[t].aux_len)
      /\ trecord_id \in Nat /\ rec[t].rec_id = trecord_id
      /\ pc[t] = "aux" /\ pc' = [pc EXCEPT ![t] = "unlock"]
      /\ UNCHANGED <<rec, trecord_id>>
      /\ \A u \in Tasks : u # t => ~Inflight(u)
  BY AuxFacts
<1>2. \A u \in Tasks : pc'[u] \notin {"copy", "head"}
  BY <1>1 DEF Inflight, TypeOK
<1>3. Flying = {t} /\ Flying' = {} BY <1>1 DEF Flying, Inflight, TypeOK
<1>4. CASE log' = log /\ torn'
  <2>1. Heads' = Heads /\ HeadIds' = HeadIds BY <1>4 DEF Heads, HeadIds
  <2> QED BY <1>1, <1>2, <1>4, <2>1 DEF IdsInv, IdsBelow, Ascending, Complete
<1>5. ASSUME NEW w \in Writes, log' = Append(log, w), w.part = "aux", ~torn' => ~torn
      PROVE  IdsInv'
  <2>1. /\ Heads' = Heads /\ HeadIds' = HeadIds
        /\ \A i \in Heads : log'[i] = log[i]
    BY <1>5, HeadsGrow
  <2>2. IdsBelow' BY <1>1, <1>2, <2>1 DEF IdsInv, IdsBelow
  <2>3. Ascending' BY <2>1 DEF IdsInv, Ascending
  <2>4. Complete'
    <3> SUFFICES ASSUME ~torn' PROVE 0 .. trecord_id = HeadIds
      BY <1>1, <1>3, <2>1 DEF Complete
    <3>1. 0 .. trecord_id = HeadIds \cup {rec[u].rec_id : u \in Flying} BY <1>5 DEF IdsInv, Complete
    <3>2. {rec[u].rec_id : u \in Flying} = {trecord_id} BY <1>1, <1>3
    <3>3. log # <<>> /\ log[Len(log)].part = "head" /\ log[Len(log)].rec = rec[t]
      BY <1>1, <1>5 DEF FileInv, AuxNext
    <3>4. Len(log) \in DOMAIN log
      <4>1. log \in Seq(Writes) BY DEF TypeOK
      <4> QED BY <3>3, <4>1, AppendFacts, <1>5
    <3>5. trecord_id \in HeadIds BY <1>1, <3>3, <3>4 DEF HeadIds, Heads
    <3> QED BY <3>1, <3>2, <3>5
  <2> QED BY <2>2, <2>3, <2>4 DEF IdsInv
<1> QED BY <1>1, <1>4, <1>5, WriteFacts

\* Each action keeps the ids in order.
LEMMA StepIds == TypeOK /\ LockedInv /\ FileInv /\ IdsInv /\ LockedInv' /\ [Next]_vars => IdsInv'
<1> SUFFICES ASSUME TypeOK, LockedInv, FileInv, IdsInv, LockedInv', [Next]_vars PROVE IdsInv'
  OBVIOUS
<1>1. ASSUME NEW t \in Tasks, Call(t) \/ Lock(t) \/ FillMasked(t) \/ FillNoMem(t) \/ CopyToPage(t) \/ Unlock(t)
      PROVE  IdsInv'
  <2>1. UNCHANGED logvars BY <1>1, OtherSteps
  <2>2. trecord_id' = trecord_id /\ rec' = rec
    BY <1>1 DEF Call, Lock, FillMasked, FillNoMem, CopyToPage, Unlock
  <2>3. \A u \in Tasks : /\ pc'[u] \in {"copy", "head"} <=> pc[u] \in {"copy", "head"}
                         /\ Inflight(u)' <=> Inflight(u)
    BY <1>1 DEF Call, Lock, FillMasked, FillNoMem, CopyToPage, Unlock, Goto, Inflight, TypeOK
  <2> QED BY <2>1, <2>2, <2>3, IdsUntouched
<1>2. ASSUME NEW bitmap \in Bitmaps, SetBmap(bitmap) PROVE IdsInv'
  BY <1>2, IdsUntouched DEF SetBmap, Inflight
<1>3. CASE UNCHANGED vars
  BY <1>3, IdsUntouched DEF vars, logvars, Inflight
<1> QED BY <1>1, <1>2, <1>3, IdsFill, IdsHead, IdsAux DEF Next, Step

\* Ids grow along the trace file whatever writes fail, and until one fails
\* each id that fill_record issued is in the file or about to be.
THEOREM IdsOrdered == Spec => []RecIdsInOrder
<1>1. Init => IdsInv
  BY DEF Init, IdsInv, IdsBelow, Ascending, Complete, Heads, HeadIds, Flying, Inflight
<1> QED BY <1>1, TypeCorrect, LockedCorrect, FileCorrect, StepIds, Halves, PTL DEF Spec, IdsInv

-----------------------------------------------------------------------------
(* The two writes of a record implement the one step of AtomicLog           *)

\* A task in the tail runs one of the calls made, and writes aux data only if
\* its record has some.
CallInv == \A t \in Tasks : /\ pc[t] # "idle" => call[t] \in Calls
                            /\ pc[t] = "aux" => rec[t].aux_len # 0

\* Each action keeps the calls.
LEMMA StepCall == TypeOK /\ LockedInv /\ CallInv /\ [Next]_vars => CallInv'
<1> SUFFICES ASSUME TypeOK, LockedInv, CallInv, [Next]_vars PROVE CallInv'
  OBVIOUS
<1> USE DEF CallInv, TypeOK, Goto
<1>1. ASSUME NEW t \in Tasks, Call(t) PROVE CallInv' BY <1>1 DEF Call
<1>2. ASSUME NEW t \in Tasks, Lock(t) \/ FillMasked(t) \/ FillNoMem(t) \/ CopyToPage(t) \/ Unlock(t)
      PROVE  CallInv'
  BY <1>2 DEF Lock, FillMasked, FillNoMem, CopyToPage, Unlock
<1>3. ASSUME NEW t \in Tasks, FillRecord(t) PROVE CallInv'
  <2>1. /\ pc[t] = "fill" /\ pc' = [pc EXCEPT ![t] = "copy"] /\ call' = call
        /\ \A u \in Tasks : u # t => rec'[u] = rec[u]
    BY <1>3 DEF FillRecord
  <2> QED BY <2>1
<1>4. ASSUME NEW t \in Tasks, WriteHead(t) PROVE CallInv' BY <1>4 DEF WriteHead, AfterHead
<1>5. ASSUME NEW t \in Tasks, WriteAux(t) PROVE CallInv' BY <1>5 DEF WriteAux
<1>6. ASSUME NEW bitmap \in Bitmaps, SetBmap(bitmap) PROVE CallInv' BY <1>6 DEF SetBmap
<1>7. CASE UNCHANGED vars BY <1>7 DEF vars
<1> QED BY <1>1, <1>2, <1>3, <1>4, <1>5, <1>6, <1>7 DEF Next, Step

\* The variables of AtomicLog, under the mapping of TrDump.
Entry(w) == [id |-> w.rec.rec_id, type |-> w.rec.type, at |-> w.at, size |-> w.rec.rec_size]
AbsRecs == {Entry(log[i]) : i \in Committed}
AbsEnd  == IF lock \in Tasks /\ pc[lock] = "aux" /\ ~torn THEN f_pos - HeadLen(rec[lock]) ELSE f_pos
AbsNext == IF lock \in Tasks /\ Inflight(lock) THEN trecord_id ELSE trecord_id + 1

\* They are the ones of the mapping.
LEMMA AbsVars == /\ Abstract!avars = <<AbsRecs, AbsEnd, AbsNext, torn>>
                 /\ (Abstract!avars)' = <<AbsRecs, AbsEnd, AbsNext, torn>>'
  BY DEF Abstract!avars, AbsRecs, AbsEnd, AbsNext, Entry

\* The end of the whole records is where the head that still misses its aux
\* data begins, and f_pos if there is none.
AbsEndIs ==
  /\ \A t \in Tasks : pc[t] = "aux" /\ ~torn => AbsEnd = f_pos - HeadLen(rec[t])
  /\ (\A t \in Tasks : pc[t] # "aux") => AbsEnd = f_pos

\* The next id is that of the record being appended, if there is one.
AbsNextIs ==
  /\ \A t \in Tasks : Inflight(t) => AbsNext = trecord_id
  /\ (\A t \in Tasks : ~Inflight(t)) => AbsNext = trecord_id + 1

\* Both are consequences of the lock, before and after a step.
LEMMA AbsIs == (LockInv => AbsEndIs /\ AbsNextIs) /\ (LockInv' => AbsEndIs' /\ AbsNextIs')
  BY DEF LockInv, AbsEnd, AbsNext, Inflight, AbsEndIs, AbsNextIs

\* A record is its head and its aux data.
LEMMA HeadAndAux ==
  ASSUME NEW r \in tr_record
  PROVE  /\ HeadLen(r) + r.aux_len = r.rec_size
         /\ r.aux_len = 0 => HeadLen(r) = r.rec_size
<1>1. r.rec_size \in ShortInt /\ r.aux_len \in ShortInt BY DEF tr_record
<1>2. \A n \in ShortInt : n \in Int BY DEF ShortInt
<1> QED BY <1>1, <1>2 DEF HeadLen

\* The record of a call adds an entry with the call's shape.
LEMMA AbsEmit ==
  ASSUME ~torn, torn' = FALSE, NEW c \in Calls,
         AbsRecs' = AbsRecs \cup {[id |-> AbsNext, type |-> Shape(c).type, at |-> AbsEnd, size |-> Shape(c).size]},
         AbsEnd' = AbsEnd + Shape(c).size,
         AbsNext' = AbsNext + 1
  PROVE  Abstract!Next
  BY DEF Abstract!Next, Abstract!Emit, AbsRecs, AbsEnd, AbsNext, Entry

\* The size fields do not depend on the id, so a record has its call's shape.
LEMMA CallShape ==
  ASSUME NEW id, NEW c, NEW r, r = MakeRecord(id, c.type, c.plen, c.alen)
  PROVE  r.type = Shape(c).type /\ r.rec_size = Shape(c).size
  BY DEF MakeRecord, Shape

\* A step that leaves the file and the tasks that write it alone stutters.
LEMMA AbsUntouched ==
  ASSUME LockInv, LockInv', UNCHANGED logvars, AbsNext' = AbsNext,
         \A u \in Tasks : (pc[u] = "aux" <=> pc'[u] = "aux") /\ (pc[u] = "aux" => rec'[u] = rec[u])
  PROVE  UNCHANGED <<AbsRecs, AbsEnd, AbsNext, torn>>
<1>1. Committed' = Committed BY DEF Committed, logvars
<1>2. AbsRecs' = AbsRecs BY <1>1 DEF AbsRecs, Entry, logvars
<1>3. f_pos' = f_pos /\ torn' = torn BY DEF logvars
<1>4. AbsEnd' = AbsEnd
  <2>1. CASE \E t \in Tasks : pc[t] = "aux" /\ lock = t
    BY <1>3, <2>1 DEF AbsEnd, LockInv
  <2>2. CASE \A t \in Tasks : pc[t] # "aux"
    BY <1>3, <2>2 DEF AbsEnd, LockInv
  <2> QED BY <2>1, <2>2 DEF LockInv
<1> QED BY <1>2, <1>3, <1>4

\* One more element in a set adds its image to the set's image.
LEMMA ImageGrows ==
  ASSUME NEW f, NEW g, NEW C, NEW k, \A i \in C : g[i] = f[i]
  PROVE  {Entry(g[i]) : i \in C \cup {k}} = {Entry(f[i]) : i \in C} \cup {Entry(g[k])}
  BY Zenon

\* The file of whole records after one more write, none having failed: a head
\* counts at once if it has no aux data, else when its aux data follows it.
LEMMA CommittedGrows ==
  ASSUME TypeOK, FileInv, ~torn, NEW w \in Writes, log' = Append(log, w),
         w.part = "head" => \A u \in Tasks : pc[u] # "aux",
         w.part = "aux" => log # <<>> /\ log[Len(log)].part = "head" /\ log[Len(log)].rec = w.rec
  PROVE  AbsRecs' = AbsRecs \cup
           (IF w.part = "head"
            THEN IF w.rec.aux_len = 0 THEN {Entry(w)} ELSE {}
            ELSE {Entry(log[Len(log)])})
<1>1. log \in Seq(Writes) BY DEF TypeOK
<1>2. /\ DOMAIN log = 1 .. Len(log) /\ DOMAIN log' = 1 .. Len(log) + 1 /\ Len(log) \in Nat
      /\ Len(log') = Len(log) + 1
      /\ \A i \in 1 .. Len(log) : log'[i] = log[i]
      /\ log'[Len(log) + 1] = w
      /\ log = <<>> <=> Len(log) = 0
  BY <1>1, AppendFacts
<1>3. w.part \in {"head", "aux"} BY DEF Writes
<1>4. CASE w.part = "head"
  <2>1. \A i \in DOMAIN log : i = Len(log) /\ log[i].part = "head" => log[i].rec.aux_len = 0
    BY <1>2, <1>4 DEF FileInv, WholeRecords
  <2>2. Committed' = Committed \cup (IF w.rec.aux_len = 0 THEN {Len(log) + 1} ELSE {})
    BY <1>2, <1>4, <2>1 DEF Committed
  <2>3. \A i \in Committed : log'[i] = log[i] BY <1>2 DEF Committed
  <2>4. AbsRecs' = {Entry(log'[i]) : i \in Committed'} BY DEF AbsRecs, Entry
  <2>5. CASE w.rec.aux_len = 0
    <3>1. Committed' = Committed \cup {Len(log) + 1} BY <2>2, <2>5
    <3>2. AbsRecs' = AbsRecs \cup {Entry(log'[Len(log) + 1])} BY <2>3, <2>4, <3>1, ImageGrows DEF AbsRecs
    <3> QED BY <1>2, <1>4, <2>5, <3>2
  <2>6. CASE w.rec.aux_len # 0
    <3>1. Committed' = Committed BY <2>2, <2>6
    <3>2. AbsRecs' = AbsRecs BY <2>3, <2>4, <3>1 DEF AbsRecs
    <3> QED BY <1>4, <2>6, <3>2
  <2> QED BY <2>5, <2>6
<1>5. CASE w.part = "aux"
  <2>1. Committed' = Committed \cup {Len(log)} /\ Len(log) \in DOMAIN log
    BY <1>2, <1>5 DEF Committed
  <2>2. \A i \in Committed \cup {Len(log)} : log'[i] = log[i] BY <1>2, <2>1 DEF Committed
  <2>3. AbsRecs' = {Entry(log'[i]) : i \in Committed'} BY DEF AbsRecs, Entry
  <2>4. AbsRecs' = AbsRecs \cup {Entry(log'[Len(log)])} BY <2>1, <2>2, <2>3, ImageGrows DEF AbsRecs
  <2> QED BY <1>5, <2>2, <2>4
<1> QED BY <1>3, <1>4, <1>5

AllInv == TypeOK /\ LockedInv /\ FileInv /\ CallInv

\* The head of a record: all of it, or a stuttering step.
LEMMA AbsHead ==
  ASSUME AllInv, AllInv', NEW t \in Tasks, WriteHead(t), ~torn'
  PROVE  Abstract!Next \/ UNCHANGED <<AbsRecs, AbsEnd, AbsNext, torn>>
<1>1. /\ rec[t] \in tr_record /\ HeadLen(rec[t]) \in Int
      /\ KernelWrite(rec[t], "head", HeadLen(rec[t]))
      /\ trecord_id \in Nat /\ rec[t].rec_id = trecord_id
      /\ pc[t] = "head" /\ pc' = [pc EXCEPT ![t] = AfterHead(rec[t])]
      /\ UNCHANGED <<rec, trecord_id, call>>
      /\ \A u \in Tasks : u # t => ~Inflight(u)
  BY HeadFacts DEF AllInv
<1>2. PICK w \in Writes : /\ log' = Append(log, w)
                          /\ w.at = f_pos /\ w.rec = rec[t] /\ w.part = "head"
                          /\ f_pos' = f_pos + HeadLen(rec[t]) /\ ~torn
  BY <1>1, WriteFacts DEF AllInv
<1>3. AbsNext = trecord_id /\ AbsEnd = f_pos /\ f_pos \in Int
  <2>1. Inflight(t) /\ \A u \in Tasks : pc[u] # "aux" BY <1>1 DEF Inflight
  <2> QED BY <2>1, AbsIs DEF AbsNextIs, AbsEndIs, AllInv, LockedInv, TypeOK
<1>4. AbsRecs' = AbsRecs \cup (IF rec[t].aux_len = 0 THEN {Entry(w)} ELSE {})
  <2>1. \A u \in Tasks : pc[u] # "aux" BY <1>1 DEF Inflight
  <2> QED BY <1>2, <2>1, CommittedGrows DEF AllInv
<1>5. torn' = FALSE /\ torn = FALSE BY <1>2 DEF AllInv, TypeOK
<1>6. LockInv' BY DEF AllInv, LockedInv
<1>7. CASE rec[t].aux_len # 0
  <2>1. pc'[t] = "aux" BY <1>1, <1>7 DEF AfterHead, AllInv, TypeOK
  <2>2. Inflight(t)' BY <2>1 DEF Inflight
  <2>3. AbsNext' = trecord_id BY <1>1, <1>6, <2>2, AbsIs DEF AbsNextIs
  <2>4. AbsEnd' = f_pos' - HeadLen(rec'[t]) BY <1>5, <1>6, <2>1, AbsIs DEF AbsEndIs
  <2>5. AbsRecs' = AbsRecs BY <1>4, <1>7
  <2>6. AbsEnd' = AbsEnd BY <1>1, <1>2, <1>3, <2>4
  <2> QED BY <1>3, <1>5, <2>3, <2>5, <2>6
<1>8. CASE rec[t].aux_len = 0
  <2>1. \A u \in Tasks : ~Inflight(u)' BY <1>1, <1>8 DEF AfterHead, Inflight, AllInv, TypeOK
  <2>2. \A u \in Tasks : pc'[u] # "aux" BY <2>1 DEF Inflight
  <2>3. AbsNext' = trecord_id + 1 BY <1>1, <1>6, <2>1, AbsIs DEF AbsNextIs
  <2>4. AbsEnd' = f_pos' BY <1>6, <2>2, AbsIs DEF AbsEndIs
  <2>5. call[t] \in Calls BY <1>1 DEF AllInv, CallInv
  <2>6. rec[t].type = Shape(call[t]).type /\ rec[t].rec_size = Shape(call[t]).size
    <3>1. rec[t] = MakeRecord(trecord_id, call[t].type, call[t].plen, call[t].alen)
      BY <1>1 DEF AllInv, LockedInv, RecInv, Inflight
    <3> QED BY ONLY <3>1, CallShape
  <2>7. HeadLen(rec[t]) = rec[t].rec_size BY <1>1, <1>8, HeadAndAux
  <2>8. Entry(w) = [id |-> AbsNext, type |-> Shape(call[t]).type, at |-> AbsEnd, size |-> Shape(call[t]).size]
    BY <1>1, <1>2, <1>3, <2>6 DEF Entry
  <2>9. AbsRecs' = AbsRecs \cup {[id |-> AbsNext, type |-> Shape(call[t]).type, at |-> AbsEnd, size |-> Shape(call[t]).size]}
    BY <1>4, <1>8, <2>8
  <2>10. AbsEnd' = AbsEnd + Shape(call[t]).size BY <1>2, <1>3, <2>4, <2>6, <2>7
  <2>11. AbsNext' = AbsNext + 1 BY <1>3, <2>3
  <2> QED BY <1>5, <2>5, <2>9, <2>10, <2>11, AbsEmit
<1> QED BY <1>7, <1>8

\* The aux data of a record adds the whole of it.
LEMMA AbsAux ==
  ASSUME AllInv, AllInv', NEW t \in Tasks, WriteAux(t), ~torn'
  PROVE  Abstract!Next
<1>1. /\ rec[t] \in tr_record /\ rec[t].aux_len \in Int
      /\ KernelWrite(rec[t], "aux", rec[t].aux_len)
      /\ trecord_id \in Nat /\ rec[t].rec_id = trecord_id
      /\ pc[t] = "aux" /\ pc' = [pc EXCEPT ![t] = "unlock"]
      /\ UNCHANGED <<rec, trecord_id, call>>
      /\ \A u \in Tasks : u # t => ~Inflight(u)
  BY AuxFacts DEF AllInv
<1>2. PICK w \in Writes : /\ log' = Append(log, w)
                          /\ w.at = f_pos /\ w.rec = rec[t] /\ w.part = "aux"
                          /\ f_pos' = f_pos + rec[t].aux_len /\ ~torn
  BY <1>1, WriteFacts DEF AllInv
<1> DEFINE h == log[Len(log)]
<1>3. log # <<>> /\ h.part = "head" /\ h.rec = rec[t]
  BY <1>1, <1>2 DEF AllInv, FileInv, AuxNext
<1>4. AbsRecs' = AbsRecs \cup {Entry(h)}
  BY <1>2, <1>3, CommittedGrows DEF AllInv
<1>5. /\ f_pos = h.at + h.len /\ h.len = HeadLen(rec[t])
      /\ h.at \in Int /\ f_pos \in Int /\ HeadLen(rec[t]) \in Int
  <2>1. log \in Seq(Writes) BY DEF AllInv, TypeOK
  <2>2. Len(log) \in DOMAIN log BY <1>2, <1>3, <2>1, AppendFacts
  <2>3. h \in Writes BY <2>1, <2>2, Members
  <2>4. h.at \in Int BY <2>3 DEF Writes
  <2>5. f_pos = h.at + h.len BY <1>2, <1>3 DEF AllInv, FileInv, LogTiled
  <2>6. h.len = HeadLen(rec[t]) BY <1>2, <1>3, <2>2 DEF AllInv, FileInv, WholeRecords
  <2>7. f_pos \in Int BY DEF AllInv, TypeOK
  <2> QED BY <1>1, <2>4, <2>5, <2>6, <2>7, LengthsAreInts
<1>6. AbsNext = trecord_id BY <1>1, AbsIs DEF AbsNextIs, AllInv, LockedInv, Inflight
<1>7. AbsEnd = f_pos - HeadLen(rec[t]) BY <1>1, <1>2, AbsIs DEF AbsEndIs, AllInv, LockedInv
<1>8. torn' = FALSE /\ ~torn BY <1>2 DEF AllInv, TypeOK
<1>9. \A u \in Tasks : ~Inflight(u)' BY <1>1 DEF Inflight, AllInv, TypeOK
<1>10. \A u \in Tasks : pc'[u] # "aux" BY <1>9 DEF Inflight
<1>11. LockInv' BY DEF AllInv, LockedInv
<1>12. AbsNext' = trecord_id + 1 BY <1>1, <1>9, <1>11, AbsIs DEF AbsNextIs
<1>13. AbsEnd' = f_pos' BY <1>10, <1>11, AbsIs DEF AbsEndIs
<1>14. call[t] \in Calls BY <1>1 DEF AllInv, CallInv
<1>15. rec[t].type = Shape(call[t]).type /\ rec[t].rec_size = Shape(call[t]).size
  <2>1. rec[t] = MakeRecord(trecord_id, call[t].type, call[t].plen, call[t].alen)
    BY <1>1 DEF AllInv, LockedInv, RecInv, Inflight
  <2> QED BY ONLY <2>1, CallShape
<1>16. HeadLen(rec[t]) + rec[t].aux_len = rec[t].rec_size BY <1>1, HeadAndAux
<1>17. Entry(h) = [id |-> AbsNext, type |-> Shape(call[t]).type, at |-> AbsEnd, size |-> Shape(call[t]).size]
  BY <1>1, <1>3, <1>5, <1>6, <1>7, <1>15 DEF Entry
<1>18. AbsRecs' = AbsRecs \cup {[id |-> AbsNext, type |-> Shape(call[t]).type, at |-> AbsEnd, size |-> Shape(call[t]).size]}
  BY <1>4, <1>17
<1>19. AbsEnd' = AbsEnd + Shape(call[t]).size
  <2>1. \A f, k, n \in Int : f + n = (f - k) + (k + n) OBVIOUS
  <2>2. f_pos + rec[t].aux_len = (f_pos - HeadLen(rec[t])) + (HeadLen(rec[t]) + rec[t].aux_len)
    BY <1>1, <1>5, <2>1
  <2>3. AbsEnd' = f_pos + rec[t].aux_len BY <1>2, <1>13
  <2>4. Shape(call[t]).size = HeadLen(rec[t]) + rec[t].aux_len BY <1>15, <1>16
  <2> QED BY <1>7, <2>2, <2>3, <2>4
<1>20. AbsNext' = AbsNext + 1 BY <1>6, <1>12
<1> QED BY <1>8, <1>14, <1>18, <1>19, <1>20, AbsEmit

\* Every step of the logging path is a step of AtomicLog or none.
LEMMA StepRefines == AllInv /\ AllInv' /\ [Next]_vars => [Abstract!Next]_(Abstract!avars)
<1> SUFFICES ASSUME AllInv, AllInv', [Next]_vars
             PROVE  Abstract!Next \/ UNCHANGED <<AbsRecs, AbsEnd, AbsNext, torn>>
  BY AbsVars
<1>1. LockInv /\ LockInv' BY DEF AllInv, LockedInv
<1>2. CASE torn'
  BY <1>2 DEF Abstract!Next, Abstract!Tear, Abstract!Havoc
<1>3. ASSUME NEW t \in Tasks, Call(t) \/ Lock(t) \/ FillMasked(t) \/ FillNoMem(t) \/ CopyToPage(t) \/ Unlock(t)
      PROVE  UNCHANGED <<AbsRecs, AbsEnd, AbsNext, torn>>
  <2>1. UNCHANGED logvars BY <1>3, OtherSteps
  <2>2. trecord_id' = trecord_id /\ rec' = rec
    BY <1>3 DEF Call, Lock, FillMasked, FillNoMem, CopyToPage, Unlock
  <2>3. \A u \in Tasks : (Inflight(u)' <=> Inflight(u)) /\ (pc[u] = "aux" <=> pc'[u] = "aux")
    BY <1>3 DEF Call, Lock, FillMasked, FillNoMem, CopyToPage, Unlock, Goto, Inflight, AllInv, TypeOK
  <2>4. AbsNext' = AbsNext
    <3>1. CASE \E u \in Tasks : Inflight(u) BY <1>1, <2>2, <2>3, <3>1, AbsIs DEF AbsNextIs
    <3>2. CASE \A u \in Tasks : ~Inflight(u) BY <1>1, <2>2, <2>3, <3>2, AbsIs DEF AbsNextIs
    <3> QED BY <3>1, <3>2
  <2> QED BY <1>1, <2>1, <2>2, <2>3, <2>4, AbsUntouched
<1>4. ASSUME NEW t \in Tasks, FillRecord(t) PROVE UNCHANGED <<AbsRecs, AbsEnd, AbsNext, torn>>
  <2>1. UNCHANGED logvars BY <1>4, OtherSteps
  <2>2. pc[t] = "fill" /\ pc' = [pc EXCEPT ![t] = "copy"] /\ trecord_id' = trecord_id + 1
    BY <1>4 DEF FillRecord, Goto
  <2>3. \A u \in Tasks : ~Inflight(u) BY <1>1, <2>2, TasksAssumption DEF LockInv, Inflight
  <2>4. Inflight(t)' /\ \A u \in Tasks : pc'[u] # "aux" /\ pc[u] # "aux"
    BY <2>2, <2>3 DEF Inflight, AllInv, TypeOK
  <2>5. AbsNext' = AbsNext BY <1>1, <2>2, <2>3, <2>4, AbsIs DEF AbsNextIs
  <2> QED BY <1>1, <2>1, <2>4, <2>5, AbsUntouched
<1>5. ASSUME NEW bitmap \in Bitmaps, SetBmap(bitmap) PROVE UNCHANGED <<AbsRecs, AbsEnd, AbsNext, torn>>
  <2>1. AbsNext' = AbsNext BY <1>5 DEF SetBmap, AbsNext, Inflight
  <2> QED BY <1>1, <1>5, <2>1, AbsUntouched DEF SetBmap
<1>6. CASE UNCHANGED vars
  <2>1. AbsNext' = AbsNext BY <1>6 DEF vars, AbsNext, Inflight
  <2> QED BY <1>1, <1>6, <2>1, AbsUntouched DEF vars, logvars
<1> QED BY <1>2, <1>3, <1>4, <1>5, <1>6, AbsHead, AbsAux DEF Next, Step

\* The lock and the two writes of append_record implement a log to which each
\* record is added whole, in one step and in rec_id order.
THEOREM Refinement == Spec => ImplementsAtomicLog
<1>1. Init => Abstract!Init
  BY TasksAssumption DEF Init, Abstract!Init, Committed
<1>2. Init => CallInv BY DEF Init, CallInv
<1> QED BY <1>1, <1>2, TypeCorrect, LockedCorrect, FileCorrect, StepCall, StepRefines, PTL
    DEF Spec, ImplementsAtomicLog, Abstract!Spec, AllInv

=============================================================================
