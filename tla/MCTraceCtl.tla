----------------------------- MODULE MCTraceCtl -----------------------------
(***************************************************************************)
(* TraceCtl, and with it TrfsMount, with interchangeable mounts, trace     *)
(* files and callers.                                                      *)
(***************************************************************************)
EXTENDS TraceCtl, TLC

Symmetry == Permutations(Mounts) \cup Permutations(Files) \cup Permutations(Ctls)
=============================================================================
