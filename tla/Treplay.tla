------------------------------ MODULE Treplay ------------------------------
(***************************************************************************)
(* treplay (treplay.c): it reads a trace file in chunks of 16 KB, parses   *)
(* the records of each chunk in place and issues the system call of each.  *)
(* The file is the trace of a mount, maybe one that is still being used.   *)
(* A record is its type, the bytes of it that are in the file, the size it *)
(* states and its result; what the system calls do is module TraceReplay,  *)
(* here they succeed or fail.                                              *)
(***************************************************************************)
EXTENDS TrTypes, Sequences, FiniteSets

CONSTANTS Traces,     \* trace files, sequences of Records
          Options,    \* command lines: "none", "n", "s", "ns", "bad"
          StackBool,  \* what an uninitialised bool of main may hold
          Live,       \* may the mount be in use while treplay runs: a set of BOOLEANs
          Jumps,      \* sizes stated by bytes that are no record
          IntRange,   \* number of values of an int, 2^32 in the build
          MaxIssued   \* bound on the replayed records

\* What append_record leaves in the file of a record: head bytes of struct and
\* path (none if that write failed), aux bytes of data, rec_size in the struct.
Records == {r \in [type : rec_type_t, head : {0} \cup (RecHeader + 1 .. RecHeader + PageSize - 1),
                   aux : Nat, rec_size : ShortInt, result : {0, -1}] : r.head + r.aux > 0}

\* The record of a call when only the writes of a negative count fail.
Written(type, plen, alen, result) ==
  LET r == MakeRecord(0, type, plen, alen)
      Bytes(n) == IF n < 0 THEN 0 ELSE n
  IN [type |-> type, head |-> Bytes(HeadLen(r)), aux |-> Bytes(r.aux_len),
      rec_size |-> r.rec_size, result |-> result]

ASSUME TracesAssumption == Traces \subseteq Seq(Records)
ASSUME OptionsAssumption ==
  Options \subseteq {"none", "n", "s", "ns", "bad"} /\ StackBool \subseteq BOOLEAN /\ Live \subseteq BOOLEAN
ASSUME WidthAssumption ==
  Jumps \subseteq ShortInt /\ IntRange \in Nat /\ IntRange > 0 /\ IntRange % 2 = 0 /\ MaxIssued \in Nat

BUFFER_SIZE == 4096
Chunk == 4 * BUFFER_SIZE

MIN(a, b) == IF a < b THEN a ELSE b

IntLimit == IntRange \div 2

\* A file size or a sum as an int; signed overflow wraps in the build.
ToInt(n) == ((n + IntLimit) % IntRange) - IntLimit

VARIABLES trace, live,   \* the trace file, and whether it is still being written
          pc,
          opt, noreplay, strict,
          flen,    \* length of the trace file
          fsize,   \* the length stat gave, as an int
          rpos,    \* position of fd
          base,    \* file offset of the first byte of the buffer
          limit,   \* bytes in the buffer
          off,     \* buf - savedbuf
          size,    \* bytes of the chunks done, an int
          err,     \* the sign of err
          issued   \* the records whose system calls were issued, in order

vars == <<trace, live, pc, opt, noreplay, strict, flen, fsize, rpos, base, limit, off, size, err, issued>>
options == <<opt, noreplay, strict>>
reader  == <<fsize, rpos, base, limit, size>>
file    == <<trace, live>>

Size(i) == trace[i].head + trace[i].aux

\* Where record i starts in the trace file; the last one is the file's end.
Starts == LET At[i \in 1 .. Len(trace) + 1] == IF i = 1 THEN 0 ELSE At[i - 1] + Size(i - 1)
          IN At
FileEnd == Starts[Len(trace) + 1]

\* Lengths of the file while append_record adds to it.
Lengths == {Starts[i] : i \in 1 .. Len(trace) + 1}
           \cup {Starts[i] + trace[i].head : i \in DOMAIN trace}

Init ==
  /\ trace \in Traces /\ live \in Live
  /\ pc = "opts"
  /\ opt \in Options
  /\ noreplay \in StackBool /\ strict \in StackBool
  /\ flen \in IF live THEN Lengths ELSE {FileEnd}
  /\ fsize = 0 /\ rpos = 0 /\ base = 0 /\ limit = 0 /\ off = 0 /\ size = 0
  /\ err = 0
  /\ issued = <<>>

-----------------------------------------------------------------------------
\* getopt; -n and -s exclude each other.  A flag no option sets keeps what the
\* stack held.
ParseOptions ==
  /\ pc = "opts"
  /\ noreplay' = (opt = "n" \/ noreplay)
  /\ strict' = (opt = "s" \/ strict)
  /\ pc' = IF opt \in {"ns", "bad"} THEN "done" ELSE "stat"
  /\ UNCHANGED <<file, opt, flen, reader, off, err, issued>>

\* stat and malloc(MIN(fsize, 4*BUFFER_SIZE))
Stat ==
  /\ pc = "stat"
  /\ \/ fsize' = ToInt(flen) /\ pc' = "open" /\ UNCHANGED err
     \/ pc' = "done" /\ err' = -1 /\ UNCHANGED fsize
  /\ UNCHANGED <<file, options, flen, rpos, base, limit, size, off, issued>>

OpenTrace ==
  /\ pc = "open"
  /\ \/ pc' = "read" /\ UNCHANGED err
     \/ pc' = "out" /\ err' = -1
  /\ UNCHANGED <<file, options, flen, reader, off, issued>>

\* Mutant: the same chunk again.
ReadChunkNoAdvance ==
  /\ pc = "read"
  /\ size < fsize
  /\ limit' = MIN(flen - rpos, Chunk) /\ base' = rpos /\ off' = 0
  /\ pc' = "parse"
  /\ UNCHANGED <<file, options, flen, fsize, rpos, size, err, issued>>

\* Mutant: every read is taken to be complete.
ReadChunkFull ==
  /\ pc = "read"
  /\ size < fsize
  /\ base' = rpos /\ rpos' = rpos + Chunk /\ limit' = Chunk /\ off' = 0
  /\ pc' = "parse"
  /\ UNCHANGED <<file, options, flen, fsize, size, err, issued>>

\* while (size < fsize): the next chunk
ReadChunk ==
  /\ pc = "read"
  /\ size < fsize
  /\ LET n == MIN(flen - rpos, Chunk) IN
     \/ /\ base' = rpos /\ rpos' = rpos + n /\ limit' = n /\ off' = 0
        /\ pc' = "parse"
        /\ UNCHANGED err
     \/ /\ pc' = "out" /\ err' = -1
        /\ UNCHANGED <<rpos, base, limit, off>>
  /\ UNCHANGED <<file, options, flen, fsize, size, issued>>

EndOfTrace ==
  /\ pc = "read"
  /\ size >= fsize
  /\ pc' = "out"
  /\ UNCHANGED <<file, options, flen, reader, off, err, issued>>

\* Mutant: the bytes of the chunk are not counted.
EndChunkNoCount ==
  /\ pc = "parse"
  /\ off >= limit
  /\ off' = 0
  /\ pc' = "read"
  /\ UNCHANGED <<file, options, flen, reader, err, issued>>

\* while (buf < limit) is over
EndChunk ==
  /\ pc = "parse"
  /\ off >= limit
  /\ size' = ToInt(size + limit)
  /\ off' = 0
  /\ pc' = "read"
  /\ UNCHANGED <<file, options, flen, fsize, rpos, base, limit, err, issued>>

\* The read brought more than malloc(MIN(fsize, 4*BUFFER_SIZE)) made room for:
\* the rest lies over pathbuf, resolvebuf and malloc's own data.
Overrun == limit > MIN(fsize, Chunk)

\* The records whose header is in the buffer at buf.
Here == {i \in DOMAIN trace : /\ Starts[i] = base + off /\ trace[i].head > 0
                              /\ off >= 0 /\ off + RecHeader <= limit}

Whole(i) == off + Size(i) <= limit

\* The bytes at buf may be other than a record's: there is none, or it lies
\* where getcwd and memcpy fill in the path names.
Doubtful == Here = {} \/ (Overrun /\ \E i \in Here : off + Size(i) > MIN(fsize, Chunk))

\* Mutant: the recorded result is not looked at.
StopsOnErr(i, e) == strict /\ e < 0

\* replayed_status makes treplay stop.
Stops(i, e) == strict /\ ~(e >= 0 /\ trace[i].result >= 0)

\* Mutant: the aux data are not skipped.
AdvanceHead(i) == off' = off + trace[i].head /\ pc' = "parse"

\* buf += record->rec_size, at the end of the switch: a short, maybe negative
Advance(i) == off' = off + trace[i].rec_size /\ pc' = "parse"

\* With noreplay a record is printed.
PrintRecord ==
  /\ pc = "parse" /\ off < limit /\ noreplay
  /\ \E i \in Here : Advance(i)
  /\ UNCHANGED <<file, options, flen, reader, err, issued>>

\* The system call of a record, with result e.
Issue(i, e) ==
  /\ Len(issued) < MaxIssued
  /\ err' = e
  /\ issued' = Append(issued, [rec |-> i, whole |-> Whole(i), ok |-> e = 0])

ReplayOp ==
  /\ pc = "parse" /\ off < limit /\ ~noreplay
  /\ \E i \in Here, e \in {0, -1} :
       /\ trace[i].type # "FWRITE"
       /\ Issue(i, e)
       /\ IF Stops(i, e) THEN pc' = "out" /\ UNCHANGED off ELSE Advance(i)
  /\ UNCHANGED <<file, options, flen, reader>>

\* TR_FWRITE: open, then write whatever open returned.
ReplayOpen ==
  /\ pc = "parse" /\ off < limit /\ ~noreplay
  /\ \E i \in Here, e \in {0, -1} :
       /\ trace[i].type = "FWRITE"
       /\ Issue(i, e)
       /\ pc' = IF Stops(i, e) THEN "out" ELSE "write"
  /\ UNCHANGED <<file, options, flen, reader, off>>

ReplayWrite ==
  /\ pc = "write"
  /\ \E i \in Here, e \in {0, -1} :
       /\ err = -1 => e = -1
       /\ err' = e
       /\ issued' = [issued EXCEPT ![Len(issued)].ok = (e = 0)]
       /\ IF Stops(i, e) THEN pc' = "out" /\ UNCHANGED off ELSE Advance(i)
  /\ UNCHANGED <<file, options, flen, reader>>

\* A run of made-up operations is recorded as one, with the last result.
IssueMadeUp(e) ==
  /\ err' = e
  /\ LET made_up == [rec |-> 0, whole |-> FALSE, ok |-> e = 0] IN
     issued' = IF issued # <<>> /\ issued[Len(issued)].rec = 0
               THEN [issued EXCEPT ![Len(issued)] = made_up]
               ELSE Append(issued, made_up)

\* How far below its buffer treplay still finds memory: stdio's and malloc's.
BelowBuffer == BUFFER_SIZE

\* Bytes that are no record are taken for one: an unknown type ends the replay;
\* any other is replayed, and the short they have for a size is added to buf.
Misparse ==
  /\ pc = "parse" /\ off < limit
  /\ Doubtful /\ off >= -BelowBuffer
  /\ \/ pc' = "out" /\ UNCHANGED <<off, err, issued>>
     \/ /\ noreplay
        /\ \E j \in Jumps : off' = off + j
        /\ UNCHANGED <<pc, err, issued>>
     \/ /\ ~noreplay
        /\ \E e \in {0, -1} :
             /\ IssueMadeUp(e)
             /\ \/ pc' = "out" /\ strict /\ UNCHANGED off
                \/ pc' = "parse" /\ (strict => e = 0) /\ \E j \in Jumps : off' = off + j
  /\ UNCHANGED <<file, options, flen, reader>>

\* A signal ends treplay: bytes that are no record state a length that leads
\* out of its memory, or the read has overwritten malloc's data.
Crash ==
  /\ pc = "parse" /\ off < limit
  /\ Here = {} \/ Overrun
  /\ pc' = "done"
  /\ UNCHANGED <<file, options, flen, reader, off, err, issued>>

\* out: close, free, exit(err)
Exit ==
  /\ pc = "out"
  /\ pc' = "done"
  /\ UNCHANGED <<file, options, flen, reader, off, err, issued>>

\* External: the mount's append_record adds the head or the aux of a record.
Grow ==
  /\ live
  /\ pc # "done"
  /\ flen < FileEnd
  /\ flen' = CHOOSE n \in Lengths : n > flen /\ \A m \in Lengths : m > flen => n <= m
  /\ UNCHANGED <<file, pc, options, reader, off, err, issued>>

Step == \/ ParseOptions \/ Stat \/ OpenTrace \/ ReadChunk \/ EndOfTrace \/ EndChunk
        \/ PrintRecord \/ ReplayOp \/ ReplayOpen \/ ReplayWrite \/ Misparse \/ Crash \/ Exit

Next == Step \/ Grow

Spec == Init /\ [][Next]_vars

\* treplay is one process that keeps running.
FairSpec == Spec /\ WF_vars(Step)

-----------------------------------------------------------------------------
(* Properties *)

\* Types: fsize and size are ints, the chunk in the buffer is one that was read
\* from the file, and buf may be anywhere.
TypeOK ==
  /\ pc \in {"opts", "stat", "open", "read", "parse", "write", "out", "done"}
  /\ opt \in Options /\ noreplay \in BOOLEAN /\ strict \in BOOLEAN
  /\ flen \in Lengths /\ fsize \in -IntLimit .. IntLimit - 1 /\ size \in -IntLimit .. IntLimit - 1
  /\ rpos \in 0 .. flen /\ limit \in 0 .. Chunk /\ base \in 0 .. rpos - limit /\ off \in Int
  /\ err \in {0, -1}
  /\ issued \in Seq([rec : 0 .. Len(trace), whole : BOOLEAN, ok : BOOLEAN])

\* No record crosses the end of a chunk.
Aligned == \A k \in 1 .. FileEnd \div Chunk : \E i \in DOMAIN Starts : Starts[i] = k * Chunk

\* A trace treplay was written for: no record crosses the end of a chunk, every
\* record states the bytes it has in the file, and the file fits an int.
Regular ==
  /\ Aligned
  /\ \A i \in DOMAIN trace : trace[i].head > 0 /\ trace[i].rec_size = Size(i)
  /\ FileEnd + Chunk < IntLimit

\* What is replayed of a regular trace is the log, from its first record on: no
\* record is replayed twice, skipped, overtaken or made up, also while the mount
\* appends to it, as long as the read does not overrun the buffer.
IssuedInOrder == Regular /\ ~Overrun => \A k \in DOMAIN issued : issued[k].rec = k

\* With -s no record is replayed after one whose replay failed or that failed
\* when it was traced, whatever bytes were taken for a record.
StrictStops ==
  strict => \A k \in 1 .. Len(issued) - 1 :
    issued[k].ok /\ (issued[k].rec # 0 => trace[issued[k].rec].result = 0)

\* treplay without -n and -s has come to the end of the file without an error of
\* its own, and the operation of every record that stat's length covers was
\* issued with all of its data.
EveryRecordReplayed ==
  pc = "done" /\ ~noreplay /\ ~strict /\ size > 0 /\ size >= fsize =>
    \A k \in DOMAIN trace : Starts[k + 1] <= fsize =>
      \E j \in DOMAIN issued : issued[j].rec = k /\ issued[j].whole

\* It is so for a regular trace, as long as the read does not overrun the buffer.
AlignedReplayed == Regular /\ ~Overrun => EveryRecordReplayed

\* treplay comes to the end of a regular trace, unless the read overruns the
\* buffer: bytes then taken for a record may say that it has no length.
Terminates == Regular => <>(pc = "done" \/ Overrun)
=============================================================================
