------------------------------- MODULE MCVmm --------------------------------
(***************************************************************************)
(* Small instances of Vmm: user pages that share a last-level table, only  *)
(* a second-level table, or nothing below the third level.                 *)
(***************************************************************************)
EXTENDS Vmm

CONSTANTS p, q, kernel

MCUserVirts ==
  [u \in {p, q} |->
     IF u = p THEN {<<0, 0, 0, 0>>, <<0, 0, 0, 1>>, <<0, 0, 1, 0>>, <<0, 1, 0, 0>>}
     ELSE {<<0, 0, 0, 0>>}]

MCPhys == [s \in {p, q, kernel} |-> {IF s = p THEN 101 ELSE IF s = q THEN 102 ELSE 103}]
MCUnmapped ==
  [u \in {p, q} |-> IF u = p THEN <<<<0, 0, 0, 0>>, <<0, 0, 0, 1>>, <<0, 0, 1, 0>>>>
                   ELSE <<<<0, 0, 0, 0>>>>]
Page(v) == [virt |-> v, phys |-> 103]
MCBoot == <<Page(<<2, 0, 0, 0>>), Page(<<1, 0, 0, 0>>), Page(<<0, 0, 0, 0>>)>>
MCLateVirts == {<<1, 0, 0, 1>>}
=============================================================================
