------------------------------ MODULE MCUserMem -----------------------------
(* Small instances of UserMem. *)
EXTENDS UserMem, TLC

\* Processes differ in nothing but their names, and the properties are invariants.
Symmetry == Permutations(Users)
=============================================================================
