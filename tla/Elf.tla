-------------------------------- MODULE Elf ---------------------------------
(***************************************************************************)
(* Loading a program: elf64_load in kernel/system/elf.c with the page-wise *)
(* loops of vmm_map_copy and vmm_map_zero, and the first heap page that    *)
(* process_spawn_elf puts behind the image.                                *)
(*                                                                         *)
(* Memory is bytes at virtual addresses: that pages are separate frames    *)
(* filled with zeros is what modules Pmm and Vmm establish.  The file is   *)
(* a sequence of distinct bytes, so that a misplaced one is seen.          *)
(***************************************************************************)
EXTENDS Integers, Sequences

CONSTANTS
  PAGE_SIZE,
  Pages,        \* size of the address space, in pages
  FileLen,      \* bytes of the file behind its headers
  Headers,      \* program headers to choose from
  MaxHeaders

Addr == 0 .. Pages * PAGE_SIZE - 1
Page == 0 .. Pages - 1
None == "none"

Down(a) == a \div PAGE_SIZE
Up(a) == (a + PAGE_SIZE - 1) \div PAGE_SIZE
End(h) == h.vaddr + h.memsz

ASSUME ElfAssumption ==
  /\ PAGE_SIZE \in Nat \ {0} /\ Pages \in Nat /\ FileLen \in Nat /\ MaxHeaders \in Nat
  /\ \A h \in Headers :
       /\ {h.vaddr, h.offset, h.filesz, h.memsz} \subseteq Nat /\ h.flags # None
       /\ h.filesz <= h.memsz /\ Up(2 * End(h)) < Pages

VARIABLES
  phdrs,   \* the program headers
  i,       \* header at hand
  at,      \* where elf64_load stands
  pos,     \* addr (a page) in the mapping loop, copied or cleared in the others
  flags,   \* flags[g]: the flags page g is mapped with, or None
  mem,     \* mem[a]: the byte at a, zero while its page is not mapped
  base_addr, end_addr,
  user_heap

vars == <<phdrs, i, at, pos, flags, mem, base_addr, end_addr, user_heap>>

File(k) == k + 1
Phdr == phdrs[i]
Mapped(a) == flags[Down(a)] # None

Goes(where, p) == at' = where /\ pos' = p

\* The next header: anything but PT_LOAD is skipped, the last one ends the loop.
NextHeader ==
  /\ at = "header"
  /\ IF i > Len(phdrs) THEN Goes("loaded", 0) /\ i' = i
     ELSE IF Phdr.type # "load" THEN Goes("header", 0) /\ i' = i + 1
     ELSE IF Down(Phdr.vaddr) >= Up(End(Phdr)) \/ Down(Phdr.vaddr) = 0
     THEN Goes("panic", 0) /\ i' = i
     ELSE Goes("map", Down(Phdr.vaddr)) /\ i' = i
  /\ UNCHANGED <<phdrs, flags, mem, base_addr, end_addr, user_heap>>

\* One page of the segment; then the checks before the copy.
MapPage ==
  /\ at = "map"
  /\ IF pos < Up(End(Phdr))
     THEN IF flags[pos] # None THEN Goes("panic", 0) /\ flags' = flags
          ELSE Goes("map", pos + 1) /\ flags' = [flags EXCEPT ![pos] = Phdr.flags]
     ELSE /\ flags' = flags
          /\ IF Phdr.offset + Phdr.filesz > FileLen \/ Phdr.filesz = 0
             THEN Goes("panic", 0) ELSE Goes("copy", 0)
  /\ UNCHANGED <<phdrs, i, mem, base_addr, end_addr, user_heap>>

\* Mutants: a chunk is always a page long; a full page is never moved.
ChunkWhole(virt, remaining) == PAGE_SIZE

ChunkAligned(virt, remaining) == IF PAGE_SIZE > remaining THEN remaining ELSE 0

\* What one round of the loops moves: up to the end of the page or of the range.
Chunk(virt, remaining) ==
  LET room == PAGE_SIZE - (virt % PAGE_SIZE)
  IN IF room > remaining THEN remaining ELSE room

\* One round of vmm_map_copy.
vmm_map_copy ==
  LET virt  == Phdr.vaddr + pos
      chunk == Chunk(virt, Phdr.filesz - pos)
  IN /\ at = "copy"
     /\ IF pos >= Phdr.filesz THEN Goes("zero", 0) /\ mem' = mem
        ELSE IF ~Mapped(virt) THEN Goes("panic", 0) /\ mem' = mem
        ELSE /\ Goes("copy", pos + chunk)
             /\ mem' = [a \in Addr |-> IF virt <= a /\ a < virt + chunk
                                       THEN File(Phdr.offset + pos + a - virt)
                                       ELSE mem[a]]
     /\ UNCHANGED <<phdrs, i, flags, base_addr, end_addr, user_heap>>

\* One round of vmm_map_zero over the rest of the segment; then the bounds.
vmm_map_zero ==
  LET virt  == Phdr.vaddr + Phdr.filesz + pos
      left  == Phdr.memsz - Phdr.filesz - pos
      chunk == Chunk(virt, left)
  IN /\ at = "zero"
     /\ IF left <= 0
        THEN /\ Goes("header", 0) /\ i' = i + 1 /\ mem' = mem
             /\ base_addr' = IF Phdr.vaddr < base_addr THEN Phdr.vaddr ELSE base_addr
             /\ end_addr' = IF End(Phdr) > end_addr THEN End(Phdr) ELSE end_addr
        ELSE /\ UNCHANGED <<i, base_addr, end_addr>>
             /\ IF ~Mapped(virt) THEN Goes("panic", 0) /\ mem' = mem
                ELSE /\ Goes("zero", pos + chunk)
                     /\ mem' = [a \in Addr |-> IF virt <= a /\ a < virt + chunk
                                               THEN 0 ELSE mem[a]]
     /\ UNCHANGED <<phdrs, flags, user_heap>>

UserHeap(entry) == Up(entry + end_addr - base_addr)

\* process_spawn_elf: a fresh page at entry + size, rounded up.
HeapPage(entry) ==
  /\ at = "loaded"
  /\ user_heap' = UserHeap(entry)
  /\ flags' = [flags EXCEPT ![user_heap'] = "heap"]
  /\ mem' = [a \in Addr |-> IF Down(a) = user_heap' THEN 0 ELSE mem[a]]
  /\ Goes("done", 0)
  /\ UNCHANGED <<phdrs, i, base_addr, end_addr>>

Init ==
  /\ phdrs \in UNION {[1 .. n -> Headers] : n \in 1 .. MaxHeaders}
  /\ \E k \in DOMAIN phdrs : phdrs[k].type = "load"
  /\ i = 1 /\ at = "header" /\ pos = 0
  /\ flags = [g \in Page |-> None] /\ mem = [a \in Addr |-> 0]
  /\ base_addr = Pages * PAGE_SIZE /\ end_addr = 0 /\ user_heap = 0

\* The entry point lies in the image.
Next ==
  \/ NextHeader
  \/ MapPage
  \/ vmm_map_copy
  \/ vmm_map_zero
  \/ \E entry \in base_addr .. end_addr - 1 : HeapPage(entry)

\* A sequential program that nothing preempts: it keeps taking steps.
Spec == Init /\ [][Next]_vars /\ WF_vars(Next)

-----------------------------------------------------------------------------
(* Properties. *)

Loads == {k \in DOMAIN phdrs : phdrs[k].type = "load"}

(***************************************************************************)
(* A loaded program finds every segment as the file describes it: the      *)
(* bytes of the file, then zeros up to memsz, nothing but zeros in the     *)
(* rest of its pages, the flags of the segment on each of its pages, and   *)
(* a zero heap page that took the place of none of them.                   *)
(***************************************************************************)
Image(a) ==
  LET own == {k \in Loads : phdrs[k].vaddr <= a /\ a < phdrs[k].vaddr + phdrs[k].filesz}
  IN IF own = {} THEN 0
     ELSE LET h == phdrs[CHOOSE k \in own : TRUE] IN File(h.offset + a - h.vaddr)

Loaded ==
  at = "done" =>
    /\ \A a \in Addr : mem[a] = Image(a)
    /\ \A k \in Loads : \A a \in phdrs[k].vaddr .. End(phdrs[k]) - 1 :
         flags[Down(a)] = phdrs[k].flags
    /\ flags[user_heap] = "heap"

\* The loops of elf64_load, vmm_map_copy and vmm_map_zero end, with a program
\* that is ready or with a panic, for every alignment of segments.
LoadingEnds == <>(at \in {"done", "panic"})
-----------------------------------------------------------------------------
(***************************************************************************)
(* What the proofs rest on.  At each point of elf64_load a segment has     *)
(* some of its pages mapped and some of its bytes copied; every mapped     *)
(* page is one segment's, and every byte that no segment has copied is 0.  *)
(***************************************************************************)
MappedUpTo(k) ==
  IF k < i \/ (k = i /\ at \in {"copy", "zero"}) THEN Up(End(phdrs[k]))
  ELSE IF k = i /\ at = "map" THEN pos ELSE 0

CopiedUpTo(k) ==
  IF k < i \/ (k = i /\ at = "zero") THEN phdrs[k].filesz
  ELSE IF k = i /\ at = "copy" THEN pos ELSE 0

OwnsPage(k, g) == Down(phdrs[k].vaddr) <= g /\ g < MappedUpTo(k)
OwnsByte(k, a) == phdrs[k].vaddr <= a /\ a < phdrs[k].vaddr + CopiedUpTo(k)

Loading ==
  /\ \A g \in Page : \A k \in Loads : OwnsPage(k, g) => flags[g] = phdrs[k].flags
  /\ \A g \in Page : flags[g] # None => \E k \in Loads : OwnsPage(k, g)
  /\ \A g \in Page : \A k, l \in Loads : OwnsPage(k, g) /\ OwnsPage(l, g) => k = l
  /\ \A a \in Addr : \A k \in Loads :
       OwnsByte(k, a) => mem[a] = File(phdrs[k].offset + a - phdrs[k].vaddr)
  /\ \A a \in Addr : (\A k \in Loads : ~OwnsByte(k, a)) => mem[a] = 0
  /\ \A k \in Loads : k < i => base_addr <= phdrs[k].vaddr /\ End(phdrs[k]) <= end_addr
  /\ end_addr = 0 \/ \E k \in Loads : end_addr = End(phdrs[k])
  /\ at = "loaded" => i > Len(phdrs)
  /\ at \in {"map", "copy", "zero"} => i \in Loads
  /\ at = "map" => Down(Phdr.vaddr) <= pos /\ pos <= Up(End(Phdr))
  /\ at = "copy" => pos <= Phdr.filesz

TypeOK ==
  /\ phdrs \in Seq(Headers)
  /\ i \in 1 .. Len(phdrs) + 1
  /\ at \in {"header", "map", "copy", "zero", "loaded", "done", "panic"}
  /\ pos \in Nat
  /\ flags \in [Page -> {None, "heap"} \cup {h.flags : h \in Headers}]
  /\ mem \in [Addr -> Nat]
  /\ {base_addr, end_addr, user_heap} \subseteq Nat

IInv ==
  /\ TypeOK
  /\ at \notin {"done", "panic"} => Loading
  /\ Loaded
=============================================================================
