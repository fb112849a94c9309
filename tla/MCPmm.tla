-------------------------------- MODULE MCPmm -------------------------------
(***************************************************************************)
(* Small instances of Pmm: a bitmap of one byte over eight pages of four   *)
(* bytes, and two boot loader reports.  The first has entries that are not *)
(* page aligned, overlap and reach past the bitmap, and the end of the     *)
(* image, which the kernel does not reserve, is not usable; in the second  *)
(* the whole image lies in pages the map calls usable, and the bitmap is   *)
(* the end of it.                                                          *)
(***************************************************************************)
EXTENDS Pmm

MCEntry(b, l, t) == [base |-> b, length |-> l, type |-> t]

MCBootInfos ==
  {[memmap |-> {MCEntry(0, 10, "usable"), MCEntry(8, 4, "reserved"),
                MCEntry(14, 9, "usable"), MCEntry(16, 8, "reclaimable"),
                MCEntry(28, 20, "usable")},
    physical_base |-> 8, text_begin |-> 4, bss_end |-> 7, bitmap_begin |-> 5],
   [memmap |-> {MCEntry(0, 32, "usable")},
    physical_base |-> 4, text_begin |-> 4, bss_end |-> 13, bitmap_begin |-> 12]}
=============================================================================
