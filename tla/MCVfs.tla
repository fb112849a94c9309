------------------------------- MODULE MCVfs --------------------------------
(* A small instance of Vfs: two files of different length and the keyboard. *)
EXTENDS Vfs, TLC

MCFileSize == [f \in {"a", "b"} |-> IF f = "a" THEN 1 ELSE 3]
MCSymmetry == Permutations(Objects) \cup Permutations(Procs)
=============================================================================
