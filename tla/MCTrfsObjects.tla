--------------------------- MODULE MCTrfsObjects ---------------------------
(***************************************************************************)
(* TrfsObjects with two tasks; objects of one kind are interchangeable.    *)
(***************************************************************************)
EXTENDS TrfsObjects, TLC

Symmetry == Permutations(Tasks) \cup Permutations(Names) \cup Permutations(Dents)
              \cup Permutations(LDents) \cup Permutations(Uppers)
              \cup Permutations(Lowers \ Foreign)

=============================================================================
