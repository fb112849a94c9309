------------------------------- MODULE MCHeap -------------------------------
(* Instances of Heap for TLC. *)
EXTENDS Heap, TLC

CONSTANTS kmain, p, q
=============================================================================
