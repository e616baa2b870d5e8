----------------------------- MODULE AtomicLog -----------------------------
(***************************************************************************)
(* What trfs promises a reader of one mount's trace file: the file is an   *)
(* unbroken run of whole records, numbered in the order they appear, each  *)
(* added in one step.  The promise ends with the first write of the trace  *)
(* file that fails (torn).                                                 *)
(***************************************************************************)
EXTENDS TrTypes

CONSTANT Shapes   \* the types and sizes of the records that operations emit

VARIABLES recs,   \* the records of the file, with the place each starts
          end,    \* bytes of whole records
          next,   \* the rec_id of the next record
          torn    \* a write of the trace file failed

avars == <<recs, end, next, torn>>

Init == /\ recs = {}
        /\ end = 0
        /\ next = 0
        /\ torn = FALSE

\* One operation adds its record, complete, at the end of the file.
Emit == /\ ~torn
        /\ torn' = FALSE
        /\ \E s \in Shapes :
             /\ recs' = recs \cup {[id |-> next, type |-> s.type, at |-> end, size |-> s.size]}
             /\ end' = end + s.size
        /\ next' = next + 1

\* A write fails; from then on nothing is promised.
Tear  == ~torn /\ torn'
Havoc == torn /\ torn'

Next == Emit \/ Tear \/ Havoc

Spec == Init /\ [][Next]_avars
=============================================================================
