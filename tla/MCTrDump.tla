------------------------------ MODULE MCTrDump ------------------------------
(* Instances of TrDump for TLC. *)
EXTENDS TrDump

\* One type without aux data, one with a second path, one with user data.
SmallCalls == {[type |-> "FCREAT", plen |-> 3, alen |-> 0],
               [type |-> "RENAME", plen |-> 3, alen |-> 5],
               [type |-> "FWRITE", plen |-> 3, alen |-> 10]}

SomeBitmaps == {rec_type_t, {}, {"FWRITE"}}

\* Counts around every boundary of the 16-bit fields, with a 3-byte path: the
\* largest count whose record fits, one more, the largest short, the smallest
\* count that turns negative, and counts that wrap to 0, to 5 and to -EFAULT;
\* the empty write; the longest path; and a call of every other type.
EdgeCalls ==
  {[type |-> "FWRITE", plen |-> 3, alen |-> n] :
     n \in {0, 1, 32732, 32733, 32767, 32768, 65522, 65535, 65536, 65541}}
  \cup {[type |-> "FCREAT",  plen |-> 4095, alen |-> 0],
        [type |-> "DCREAT",  plen |-> 3, alen |-> 0],
        [type |-> "UNLINK",  plen |-> 3, alen |-> 0],
        [type |-> "LINK",    plen |-> 4095, alen |-> 4095],
        [type |-> "SYMLINK", plen |-> 3, alen |-> 7]}

AllOn == {rec_type_t}
=============================================================================
