----------------------------- MODULE MCTreplay -----------------------------
(* Instances of Treplay for TLC. *)
EXTENDS Treplay

\* Two chunks and a third that is short; every chunk ends where a record ends.
\* One operation failed when it was traced.
AlignedTrace ==
  << Written("DCREAT", 8, 0, 0),   Written("FWRITE", 12, 16300, 0),
     Written("UNLINK", 18, 0, -1), Written("RENAME", 18, 60, 0), Written("FWRITE", 12, 16180, 0),
     Written("LINK", 8, 8, 0) >>

\* The third record begins 4 bytes before the first chunk ends.
CrossingTrace ==
  << Written("DCREAT", 8, 0, 0), Written("FWRITE", 12, 16296, 0),
     Written("FWRITE", 12, 4045, 0), Written("UNLINK", 8, 0, -1), Written("FWRITE", 12, 10, 0) >>

\* A trace shorter than one chunk.
ShortTrace == << Written("FCREAT", 8, 0, 0), Written("FWRITE", 8, 10, 0), Written("RENAME", 8, 9, 0) >>

\* A write whose count is negative as a short: the record is its head alone,
\* and states 0 bytes (65501), less than that head (65535), or a step back
\* behind the head (65461, 32768).  32767 leaves data without a head.
WrappedTrace(count) == << Written("FCREAT", 8, 0, 0), Written("FWRITE", 3, count, 0), Written("UNLINK", 8, 0, 0) >>

\* More than an int can count, with an IntRange of 131072: as an int the length
\* is negative, or the 40 bytes of the first record.
Filler(n) == Written("FWRITE", 12, n - 44, 0)
NegativeTrace == << Written("FCREAT", 8, 0, 0), Filler(30000), Filler(30000), Filler(10000) >>
HugeTrace == << Written("FCREAT", 8, 0, 0), Filler(32768 - 4096), Filler(32768 - 4096), Filler(32768 - 4096),
                Filler(32768 - 4096), Filler(16384) >>

AllTraces == {AlignedTrace, CrossingTrace, ShortTrace, NegativeTrace, HugeTrace}
             \cup {WrappedTrace(n) : n \in {65501, 65535, 65461, 32768, 32767}}
CrossingOnly == {CrossingTrace}

\* No length, and the extremes; in CrossingTrace 4085 leads from the rest of
\* the third record to the fourth, -16340 from its start back to the second.
SomeJumps == {0, 4085, -16340, 32767, -32768}
=============================================================================
