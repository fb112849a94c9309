------------------------------- MODULE MCElf --------------------------------
(***************************************************************************)
(* Small instances of Elf: pages of three bytes; segments that begin and   *)
(* end anywhere in a page, with and without zeros behind, that share a     *)
(* page, follow each other in any order or leave the file.                 *)
(***************************************************************************)
EXTENDS Elf

MCHeaders ==
  {[type |-> "load", vaddr |-> v, offset |-> o, filesz |-> f, memsz |-> f + z,
    flags |-> IF z = 0 THEN "text" ELSE "data"] :
     v \in 3 .. 11, o \in {0, 3}, f \in {0, 1, 4}, z \in {0, 3}}
  \cup {[type |-> "note", vaddr |-> 3, offset |-> 0, filesz |-> 1, memsz |-> 1,
         flags |-> "text"]}
=============================================================================
