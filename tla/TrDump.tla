------------------------------- MODULE TrDump -------------------------------
(***************************************************************************)
(* The logging path of one trfs mount: the tail of every logged operation  *)
(* (lock trfs_lock, mask the type, fill_record, append_record, unlock),    *)
(* run by any number of tasks, and the trace_ctl ioctl that changes the    *)
(* bitmap.  The lower file-system call that precedes the tail is not here  *)
(* (module TrfsOps): a call enters with the sizes that reach fill_record.  *)
(***************************************************************************)
EXTENDS TrTypes, Sequences, FiniteSets

CONSTANTS Tasks,     \* tasks that run logged operations
          NoTask,    \* trfs_lock is free
          Calls,     \* the calls made, see LoggedCalls
          Bitmaps,   \* bitmaps that trctl sets
          MaxCalls   \* bound on the number of calls

\* What may reach fill_record: a path of at most PAGE_SIZE - 1 bytes, and for
\* the types with aux a byte count; a second path or a symlink name is never
\* empty, a write may be.
LoggedCalls ==
  {c \in [type : rec_type_t, plen : 1 .. PageSize - 1, alen : Nat] :
     /\ c.type \notin AuxTypes => c.alen = 0
     /\ c.type \in {"RENAME", "LINK", "SYMLINK"} => c.alen \in 1 .. PageSize - 1}

ASSUME TasksAssumption == NoTask \notin Tasks
ASSUME CallsAssumption == Calls \subseteq LoggedCalls
ASSUME BoundAssumption == MaxCalls \in Nat /\ Bitmaps \subseteq SUBSET rec_type_t

VARIABLES pc,          \* where each task is in the tail of its operation
          call,        \* the arguments of its call
          rec,         \* the tr_record on its stack
          pages,       \* pages its call has allocated and not freed
          lock,        \* owner of sb_info.trfs_lock
          umask,       \* sb_info.umask
          tr_page,     \* record held by the buffer sb_info.tr_page
          trecord_id,  \* the module's record counter
          f_pos,       \* f_pos of the trace file, a signed 64-bit offset
          log,         \* the writes the trace file received, oldest first
          torn,        \* history: a write of the trace file failed
          backed,      \* history: bytes by which f_pos was moved back
          mmfaults,    \* history: pages lost, and memory freed that is not the call's
          ncalls       \* calls made so far

vars == <<pc, call, rec, pages, lock, umask, tr_page, trecord_id, f_pos, log,
          torn, backed, mmfaults, ncalls>>

logvars == <<f_pos, log, torn, backed>>

NoCall == [type |-> "FCREAT", plen |-> 1, alen |-> 0]
NoRec  == MakeRecord(0, "FCREAT", 1, 0)

PC == {"idle", "lock", "fill", "copy", "head", "aux", "unlock", "bug"}

\* A kernel_write that reached the trace file: len bytes of the given part
\* ("head": struct and path, "aux") of a record, at offset at; full when the
\* whole count was written.
Writes == [at : Nat, len : Nat, rec : tr_record, part : {"head", "aux"}, full : BOOLEAN]

Init ==
  /\ pc = [t \in Tasks |-> "idle"]
  /\ call = [t \in Tasks |-> NoCall]
  /\ rec = [t \in Tasks |-> NoRec]
  /\ pages = [t \in Tasks |-> {}]
  /\ lock = NoTask
  /\ umask = rec_type_t           \* trfs_read_super: umask = -1
  /\ tr_page = NoRec              \* kmalloc'ed, not read before it is written
  /\ trecord_id = -1              \* trfs_mount
  /\ f_pos = 0                    \* create_trfile
  /\ log = <<>>
  /\ torn = FALSE
  /\ backed = 0
  /\ mmfaults = {}
  /\ ncalls = 0

Goto(t, from, to) == pc[t] = from /\ pc' = [pc EXCEPT ![t] = to]

-----------------------------------------------------------------------------
(* kernel_write of len bytes at f_pos, and what append_record does with its *)
(* result: f_pos moves by the result if and only if the result equals len.  *)

\* Mutant: f_pos stays where it is.
WriteAllNoAdvance(r, part, len) ==
  /\ f_pos >= 0 /\ len >= 0
  /\ log' = Append(log, [at |-> f_pos, len |-> len, rec |-> r, part |-> part, full |-> TRUE])
  /\ UNCHANGED <<f_pos, torn, backed>>

WriteAll(r, part, len) ==
  /\ f_pos >= 0 /\ len >= 0
  /\ log' = Append(log, [at |-> f_pos, len |-> len, rec |-> r, part |-> part, full |-> TRUE])
  /\ f_pos' = f_pos + len
  /\ UNCHANGED <<torn, backed>>

\* The errnos for a negative count: EFAULT (access_ok), EINVAL (rw_verify_area).
CountErrnos == {-14, -22}

\* Mutant: f_pos also takes an errno that is not the count.
WriteNothingMoves(len) ==
  /\ torn' = TRUE
  /\ f_pos' = f_pos - 14
  /\ UNCHANGED <<log, backed>>

\* An errno: ENOSPC, EIO, ..., always one for a count or an f_pos that is
\* negative.  A negative aux_len may be the very errno returned: it then passes
\* for the complete write and moves f_pos back.
WriteNothing(len) ==
  /\ torn' = TRUE
  /\ log' = log
  /\ \/ UNCHANGED <<f_pos, backed>>
     \/ /\ len \in CountErrnos
        /\ f_pos' = f_pos + len
        /\ backed' = backed - len

WriteSome(r, part, len) ==
  /\ f_pos >= 0 /\ len > 1
  /\ log' = Append(log, [at |-> f_pos, len |-> len \div 2, rec |-> r, part |-> part, full |-> FALSE])
  /\ torn' = TRUE
  /\ UNCHANGED <<f_pos, backed>>

KernelWrite(r, part, len) ==
  \/ WriteAll(r, part, len)
  \/ WriteNothing(len)
  \/ WriteSome(r, part, len)

-----------------------------------------------------------------------------
\* A task calls a logged operation; its lower call is over.
Call(t) ==
  /\ ncalls < MaxCalls
  /\ Goto(t, "idle", "lock")
  /\ \E c \in Calls : call' = [call EXCEPT ![t] = c]
  /\ ncalls' = ncalls + 1
  /\ UNCHANGED <<rec, pages, lock, umask, tr_page, trecord_id, mmfaults, logvars>>

\* Mutant: the lock does not exclude.
LockNoWait(t) ==
  /\ Goto(t, "lock", "fill")
  /\ lock' = t
  /\ UNCHANGED <<call, rec, pages, umask, tr_page, trecord_id, mmfaults, ncalls, logvars>>

\* mutex_lock(trfs_lock)
Lock(t) ==
  /\ lock = NoTask
  /\ Goto(t, "lock", "fill")
  /\ lock' = t
  /\ UNCHANGED <<call, rec, pages, umask, tr_page, trecord_id, mmfaults, ncalls, logvars>>

\* Mutant: a masked call returns without unlocking.
FillMaskedReturn(t) ==
  /\ call[t].type \notin umask
  /\ Goto(t, "fill", "idle")
  /\ UNCHANGED <<call, rec, pages, lock, umask, tr_page, trecord_id, mmfaults, ncalls, logvars>>

\* fill_record returns -1: record_type & umask is 0
FillMasked(t) ==
  /\ call[t].type \notin umask
  /\ Goto(t, "fill", "unlock")
  /\ UNCHANGED <<call, rec, pages, lock, umask, tr_page, trecord_id, mmfaults, ncalls, logvars>>

\* fill_record returns -ENOMEM for one of its two pages, both released
FillNoMem(t) ==
  /\ call[t].type \in umask
  /\ Goto(t, "fill", "unlock")
  /\ UNCHANGED <<call, rec, pages, lock, umask, tr_page, trecord_id, mmfaults, ncalls, logvars>>

\* Mutant: the record gets the counter's value from before the increment.
FillRecordOldId(t) ==
  /\ call[t].type \in umask
  /\ Goto(t, "fill", "copy")
  /\ trecord_id' = trecord_id + 1
  /\ rec' = [rec EXCEPT ![t] =
               MakeRecord(trecord_id, call[t].type, call[t].plen, call[t].alen)]
  /\ pages' = [pages EXCEPT ![t] = {"path", "aux"}]
  /\ UNCHANGED <<call, lock, umask, tr_page, mmfaults, ncalls, logvars>>

\* fill_record returns 0 with both pages allocated
FillRecord(t) ==
  /\ call[t].type \in umask
  /\ Goto(t, "fill", "copy")
  /\ trecord_id' = trecord_id + 1
  /\ rec' = [rec EXCEPT ![t] =
               MakeRecord(trecord_id + 1, call[t].type, call[t].plen, call[t].alen)]
  /\ pages' = [pages EXCEPT ![t] = {"path", "aux"}]
  /\ UNCHANGED <<call, lock, umask, tr_page, mmfaults, ncalls, logvars>>

\* Mutant: the path's page is not freed.
CopyToPageKeep(t) ==
  /\ Goto(t, "copy", "head")
  /\ tr_page' = rec[t]
  /\ UNCHANGED <<call, rec, pages, lock, umask, trecord_id, mmfaults, ncalls, logvars>>

\* append_record: struct and path are copied into tr_page, the path's page is
\* freed.  The BUG_ON before the copy is property RecSizeCommonPositive.
CopyToPage(t) ==
  /\ Goto(t, "copy", "head")
  /\ tr_page' = rec[t]
  /\ pages' = [pages EXCEPT ![t] = @ \ {"path"}]
  /\ UNCHANGED <<call, rec, lock, umask, trecord_id, mmfaults, ncalls, logvars>>

\* Where append_record goes after the first write, whatever its result.
AfterHead(r) == IF r.aux_len # 0 THEN "aux"
                ELSE IF r.type \in AuxTypes THEN "bug"   \* BUG_ON(record->aux != NULL)
                ELSE "unlock"

\* append_record: tr_page is written
WriteHead(t) ==
  /\ Goto(t, "head", AfterHead(rec[t]))
  /\ KernelWrite(tr_page, "head", HeadLen(rec[t]))
  /\ UNCHANGED <<call, rec, pages, lock, umask, tr_page, trecord_id, mmfaults, ncalls>>

\* append_record: aux is written, and freed unless the type is FWRITE; for
\* SYMLINK what is freed is the caller's symname, not a page of this call.
WriteAux(t) ==
  /\ Goto(t, "aux", "unlock")
  /\ KernelWrite(rec[t], "aux", rec[t].aux_len)
  /\ pages' = [pages EXCEPT ![t] = IF rec[t].type \in AuxPageTypes THEN @ \ {"aux"} ELSE @]
  /\ mmfaults' = IF rec[t].type = "SYMLINK" THEN mmfaults \cup {<<"freed", "symname">>}
                 ELSE mmfaults
  /\ UNCHANGED <<call, rec, lock, umask, tr_page, trecord_id, ncalls>>

\* mutex_unlock(trfs_lock); the operation returns and its record goes out of
\* scope: pages still allocated are lost.
Unlock(t) ==
  /\ Goto(t, "unlock", "idle")
  /\ lock' = NoTask
  /\ mmfaults' = mmfaults \cup {<<"leaked", p>> : p \in pages[t]}
  /\ pages' = [pages EXCEPT ![t] = {}]
  /\ UNCHANGED <<call, rec, umask, tr_page, trecord_id, ncalls, logvars>>

\* Mutant: the bitmap is assigned without the lock.
SetBmapUnlocked(bitmap) ==
  /\ umask' = bitmap
  /\ UNCHANGED <<pc, call, rec, pages, lock, tr_page, trecord_id, mmfaults, ncalls, logvars>>

\* TR_SET_BMAP: lock, assign, unlock.  One step: nothing reads umask without
\* the lock.
SetBmap(bitmap) ==
  /\ lock = NoTask
  /\ umask' = bitmap
  /\ UNCHANGED <<pc, call, rec, pages, lock, tr_page, trecord_id, mmfaults, ncalls, logvars>>

Step(t) ==
  \/ FillMasked(t) \/ FillNoMem(t) \/ FillRecord(t)
  \/ CopyToPage(t) \/ WriteHead(t) \/ WriteAux(t) \/ Unlock(t)

Next ==
  \/ \E t \in Tasks : Call(t) \/ Lock(t) \/ Step(t)
  \/ \E bitmap \in Bitmaps : SetBmap(bitmap)

Spec == Init /\ [][Next]_vars

\* A task inside the tail keeps running, and gets the mutex when it is free.
Fairness == \A t \in Tasks : WF_vars(Step(t)) /\ WF_vars(Lock(t))

FairSpec == Spec /\ Fairness

-----------------------------------------------------------------------------
(* Properties *)

Inflight(t) == pc[t] \in {"copy", "head", "aux"}

\* Types: the fields of a record fit their C types and each task is at a point
\* of the logging tail.
TypeOK ==
  /\ pc \in [Tasks -> PC]
  /\ call \in [Tasks -> LoggedCalls]
  /\ rec \in [Tasks -> tr_record]
  /\ pages \in [Tasks -> SUBSET {"path", "aux"}]
  /\ lock \in Tasks \cup {NoTask}
  /\ umask \subseteq rec_type_t
  /\ tr_page \in tr_record
  /\ trecord_id \in Nat \cup {-1}
  /\ f_pos \in Int
  /\ log \in Seq(Writes)
  /\ torn \in BOOLEAN
  /\ backed \in Nat
  /\ mmfaults \subseteq {"leaked", "freed"} \X {"path", "aux", "symname"}
  /\ ncalls \in 0 .. MaxCalls

\* Until a write of the trace file fails, its writes lie end to end from
\* offset 0 to f_pos: append_record advances f_pos by what it wrote.
LogTiled ==
  ~torn =>
    /\ \A i \in DOMAIN log : log[i].at = IF i = 1 THEN 0 ELSE log[i-1].at + log[i-1].len
    /\ f_pos = IF log = <<>> THEN 0 ELSE log[Len(log)].at + log[Len(log)].len

\* Until a write of the trace file fails, records are never interleaved: the
\* aux data of a record directly follows its head, both with the lengths the
\* record states, and a head still without its aux data is the last write, its
\* task being about to add it (trfs_lock around the two writes and tr_page).
WholeRecords ==
  ~torn => \A i \in DOMAIN log :
    LET w == log[i] IN
    /\ w.len = IF w.part = "head" THEN HeadLen(w.rec) ELSE w.rec.aux_len
    /\ w.part = "aux" => i > 1 /\ log[i-1].part = "head" /\ log[i-1].rec = w.rec
    /\ w.part = "head" /\ w.rec.aux_len # 0 =>
         IF i < Len(log) THEN log[i+1].part = "aux" /\ log[i+1].rec = w.rec
         ELSE \E t \in Tasks : pc[t] = "aux" /\ rec[t] = w.rec

\* rec_ids grow in the order the heads are written, failed writes or not; and
\* until one fails no id is missing: an id that fill_record issued is in the file or
\* its record is being appended.
RecIdsInOrder ==
  LET heads == {i \in DOMAIN log : log[i].part = "head"}
  IN /\ \A i, j \in heads : i < j => log[i].rec.rec_id < log[j].rec.rec_id
     /\ ~torn => 0 .. trecord_id =
          {log[i].rec.rec_id : i \in heads} \cup {rec[t].rec_id : t \in {u \in Tasks : Inflight(u)}}

\* Failed and short writes never make append_record overwrite what it wrote in
\* full, except for the bytes by which an errno taken for a complete write
\* (ret == aux_len, both negative) moved f_pos back.
NeverOverwritten ==
  \A i, j \in DOMAIN log : i < j /\ log[i].full => log[j].at + backed >= log[i].at + log[i].len

\* A record is appended under a bitmap that has its type: trctl cannot change
\* the bitmap between the test of fill_record's caller and the last write.
LoggedUnderMask == \A t \in Tasks : Inflight(t) => rec[t].type \in umask

\* The assertion BUG_ON(rec_size_common <= 0) of append_record never fails,
\* also when the shorts rec_size and aux_len overflowed.
RecSizeCommonPositive == \A t \in Tasks : pc[t] = "copy" => RecSizeCommon(rec[t]) = RecHeader

\* The page of the primary path is never lost: append_record frees it on every
\* path, fill_record when it fails.
PathPageFreed == <<"leaked", "path">> \notin mmfaults

\* Every call that reached trfs_lock returns: the lock is released on every
\* path of the tail, also when nothing is logged or a write fails.
CallsReturn == \A t \in Tasks : pc[t] = "lock" ~> pc[t] = "idle"

\* The assertion BUG_ON(record->aux != NULL) for a record without aux bytes.
NoAuxBug == \A t \in Tasks : pc[t] # "bug"

\* The record carries all of the auxiliary data of its call.
AuxKept == \A t \in Tasks : Inflight(t) => rec[t].aux_len = call[t].alen

-----------------------------------------------------------------------------
(* The trace file as whole records: the log of AtomicLog.                   *)

Committed == {i \in DOMAIN log : log[i].part = "head" /\ (log[i].rec.aux_len = 0 \/ i < Len(log))}

\* Type and size of the record of a call.
Shape(c) == [type |-> c.type, size |-> MakeRecord(0, c.type, c.plen, c.alen).rec_size]

Abstract == INSTANCE AtomicLog WITH
  Shapes <- {Shape(c) : c \in Calls},
  recs <- {[id |-> log[i].rec.rec_id, type |-> log[i].rec.type,
            at |-> log[i].at, size |-> log[i].rec.rec_size] : i \in Committed},
  end  <- IF lock \in Tasks /\ pc[lock] = "aux" /\ ~torn
          THEN f_pos - HeadLen(rec[lock]) ELSE f_pos,
  next <- IF lock \in Tasks /\ Inflight(lock) THEN trecord_id ELSE trecord_id + 1

\* The two writes and the lock implement a log whose records appear whole, in
\* one step each, in rec_id order.
ImplementsAtomicLog == Abstract!Spec
=============================================================================
