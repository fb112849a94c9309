----------------------------- MODULE ElfProofs ------------------------------
(***************************************************************************)
(* A program that elf64_load has loaded is what its headers and its file   *)
(* say, for every page size, every size of the address space, and every    *)
(* choice and order of segments whose pages fit into it.                   *)
(***************************************************************************)
EXTENDS Elf, SequenceTheorems, TLAPS

\* The solver is given more time when it is slow to answer.
USE SMTT(10), SMTT(20), SMTT(40)

-----------------------------------------------------------------------------
(* Pages and addresses. *)

\* Division by the size of a page.
LEMMA PageOf ==
  ASSUME NEW a \in Nat
  PROVE  /\ Down(a) \in Nat
         /\ PAGE_SIZE * Down(a) <= a
         /\ a < PAGE_SIZE * Down(a) + PAGE_SIZE
  BY ElfAssumption DEF Down

\* A later page begins a page further at least.
LEMMA PageApart ==
  ASSUME NEW g \in Nat, NEW f \in Nat, g < f
  PROVE  PAGE_SIZE * g + PAGE_SIZE <= PAGE_SIZE * f
  BY ElfAssumption

\* Rounding down keeps the order of addresses.
LEMMA DownMonotone ==
  ASSUME NEW a \in Nat, NEW b \in Nat, a <= b
  PROVE  Down(a) <= Down(b)
<1> DEFINE g == Down(a)
           f == Down(b)
<1>1. g \in Nat /\ f \in Nat /\ PAGE_SIZE * g <= a /\ b < PAGE_SIZE * f + PAGE_SIZE
  BY PageOf
<1> HIDE DEF g, f
<1>2. f < g => PAGE_SIZE * f + PAGE_SIZE <= PAGE_SIZE * g
  BY <1>1, PageApart
<1>3. PAGE_SIZE * g \in Nat /\ PAGE_SIZE * f \in Nat /\ PAGE_SIZE \in Nat
  BY <1>1, ElfAssumption
<1> QED BY <1>1, <1>2, <1>3 DEF g, f

\* Rounding up is rounding down the last address of the page.
LEMMA UpIsDown ==
  ASSUME NEW a \in Nat
  PROVE  Up(a) = Down(a + (PAGE_SIZE - 1)) /\ a + (PAGE_SIZE - 1) \in Nat /\ Up(a) \in Nat
<1>1. a + (PAGE_SIZE - 1) \in Nat /\ a + PAGE_SIZE - 1 = a + (PAGE_SIZE - 1)
  BY ElfAssumption
<1>2. Up(a) = Down(a + (PAGE_SIZE - 1))
  BY <1>1 DEF Up, Down
<1> QED BY <1>1, <1>2, PageOf

\* So does rounding up.
LEMMA UpMonotone ==
  ASSUME NEW a \in Nat, NEW b \in Nat, a <= b
  PROVE  Up(a) <= Up(b)
  BY UpIsDown, DownMonotone, ElfAssumption

\* An address before e lies in a page before e rounded up.
LEMMA DownUp ==
  ASSUME NEW a \in Nat, NEW e \in Nat, a < e
  PROVE  Down(a) < Up(e)
<1>1. a + PAGE_SIZE \in Nat /\ a + PAGE_SIZE <= e + (PAGE_SIZE - 1)
  BY ElfAssumption
<1>2. Down(a + PAGE_SIZE) = Down(a) + 1
  BY ElfAssumption DEF Down
<1>3. Down(a + PAGE_SIZE) <= Up(e)
  BY <1>1, UpIsDown, DownMonotone
<1> QED BY <1>2, <1>3, PageOf, UpIsDown

\* The address space consists of pages.
LEMMA AddrPage ==
  ASSUME NEW a \in Addr
  PROVE  a \in Nat /\ Down(a) \in Page
<1> DEFINE g == Down(a)
<1>1. a \in Nat /\ Pages \in Nat /\ PAGE_SIZE \in Nat \ {0}
  BY ElfAssumption DEF Addr
<1>2. g \in Nat /\ PAGE_SIZE * g <= a /\ a < Pages * PAGE_SIZE
  BY <1>1, PageOf DEF Addr
<1> HIDE DEF g
<1>3. Pages <= g => PAGE_SIZE * Pages <= PAGE_SIZE * g
  <2>1. CASE Pages = g
    BY <1>1, <2>1
  <2>2. CASE Pages < g
    BY <1>1, <1>2, <2>2, PageApart
  <2> QED BY <1>1, <1>2, <2>1, <2>2
<1>4. PAGE_SIZE * Pages = Pages * PAGE_SIZE /\ PAGE_SIZE * g \in Nat /\ Pages * PAGE_SIZE \in Nat
  BY <1>1, <1>2
<1>5. g < Pages
  BY <1>1, <1>2, <1>3, <1>4
<1> QED BY <1>1, <1>2, <1>5 DEF g, Page

\* What the headers of a segment say.
LEMMA SegmentOK ==
  ASSUME phdrs \in Seq(Headers), NEW k \in Loads
  PROVE  /\ phdrs[k].vaddr \in Nat /\ phdrs[k].offset \in Nat
         /\ phdrs[k].filesz \in Nat /\ phdrs[k].memsz \in Nat
         /\ phdrs[k].filesz <= phdrs[k].memsz /\ phdrs[k].flags # None
         /\ phdrs[k].flags \in {h.flags : h \in Headers}
         /\ End(phdrs[k]) \in Nat /\ End(phdrs[k]) = phdrs[k].vaddr + phdrs[k].memsz
         /\ Down(phdrs[k].vaddr) \in Nat /\ Up(End(phdrs[k])) \in 0 .. Pages - 1
         /\ Up(2 * End(phdrs[k])) < Pages
         /\ k \in 1 .. Len(phdrs)
<1>1. k \in 1 .. Len(phdrs) /\ phdrs[k] \in Headers
  BY DEF Loads
<1> DEFINE h == phdrs[k]
<1>2. /\ h.vaddr \in Nat /\ h.offset \in Nat /\ h.filesz \in Nat /\ h.memsz \in Nat
      /\ h.flags # None /\ h.filesz <= h.memsz /\ Up(2 * End(h)) < Pages
  BY <1>1, ElfAssumption
<1> HIDE DEF h
<1>3. End(h) \in Nat /\ End(h) = h.vaddr + h.memsz
  BY <1>2 DEF End
<1>4. Up(End(h)) \in Nat /\ Up(2 * End(h)) \in Nat /\ Up(End(h)) <= Up(2 * End(h))
  <2> DEFINE e == End(h)
             d == 2 * End(h)
  <2>1. e \in Nat /\ d \in Nat /\ e <= d
    BY <1>3
  <2> HIDE DEF e, d
  <2>2. Up(e) \in Nat /\ Up(d) \in Nat /\ Up(e) <= Up(d)
    BY <2>1, UpIsDown, UpMonotone, Zenon
  <2> QED BY <2>2 DEF e, d
<1>5. Up(End(h)) \in 0 .. Pages - 1
  BY <1>2, <1>4, ElfAssumption
<1> QED BY <1>1, <1>2, <1>3, <1>5, PageOf, Zenon DEF h

\* A byte of a segment lies in one of its pages.
LEMMA SegmentByte ==
  ASSUME phdrs \in Seq(Headers), NEW k \in Loads, NEW a \in Addr,
         phdrs[k].vaddr <= a, a < End(phdrs[k])
  PROVE  /\ Down(a) \in Page
         /\ Down(phdrs[k].vaddr) <= Down(a) /\ Down(a) < Up(End(phdrs[k]))
<1>1. a \in Nat /\ Down(a) \in Page
  BY AddrPage
<1>2. phdrs[k].vaddr \in Nat /\ End(phdrs[k]) \in Nat
  BY SegmentOK
<1> QED BY <1>1, <1>2, DownMonotone, DownUp

-----------------------------------------------------------------------------
(* What is owned. *)

\* Every copied byte lies in a page that its segment has mapped.
LEMMA ByteOwner ==
  ASSUME TypeOK, Loading, NEW k \in Loads, NEW a \in Addr, OwnsByte(k, a)
  PROVE  /\ Down(a) \in Page /\ OwnsPage(k, Down(a))
         /\ phdrs[k].vaddr <= a /\ a < phdrs[k].vaddr + phdrs[k].filesz
<1>1. /\ phdrs[k].vaddr \in Nat /\ phdrs[k].filesz \in Nat /\ phdrs[k].memsz \in Nat
      /\ phdrs[k].filesz <= phdrs[k].memsz /\ End(phdrs[k]) = phdrs[k].vaddr + phdrs[k].memsz
  BY SegmentOK, Zenon DEF TypeOK
<1>2. a \in Nat
  BY AddrPage
<1>3. CopiedUpTo(k) \in Nat /\ CopiedUpTo(k) <= phdrs[k].filesz
  BY <1>1 DEF CopiedUpTo, TypeOK, Loading, Phdr
<1>4. /\ phdrs[k].vaddr <= a /\ a < phdrs[k].vaddr + phdrs[k].filesz
      /\ a < End(phdrs[k]) /\ CopiedUpTo(k) # 0
  BY <1>1, <1>2, <1>3 DEF OwnsByte
<1>5. k < i \/ (k = i /\ at \in {"copy", "zero"})
  BY <1>4 DEF CopiedUpTo
<1>6. MappedUpTo(k) = Up(End(phdrs[k]))
  BY <1>5 DEF MappedUpTo
<1>7. /\ Down(a) \in Page
      /\ Down(phdrs[k].vaddr) <= Down(a) /\ Down(a) < Up(End(phdrs[k]))
  BY <1>4, SegmentByte DEF TypeOK
<1> QED BY <1>4, <1>6, <1>7 DEF OwnsPage

\* While a segment is copied or cleared, its bytes are no other's.
LEMMA AtHand ==
  ASSUME TypeOK, Loading, at \in {"copy", "zero"}, NEW a \in Addr,
         Phdr.vaddr <= a, a < End(Phdr), NEW k \in Loads, k # i
  PROVE  ~OwnsByte(k, a)
<1>1. i \in Loads
  BY DEF Loading
<1>2. Down(a) \in Page /\ OwnsPage(i, Down(a))
  BY <1>1, SegmentByte DEF TypeOK, OwnsPage, MappedUpTo, Phdr
<1>3. OwnsByte(k, a) => OwnsPage(k, Down(a))
  BY ByteOwner
<1> QED BY <1>1, <1>2, <1>3 DEF Loading

\* A round of the copying loops moves something, and not more than is left.
LEMMA ChunkOK ==
  ASSUME NEW v \in Nat, NEW n \in Nat \ {0}
  PROVE  Chunk(v, n) \in 1 .. n
<1>1. v % PAGE_SIZE \in 0 .. PAGE_SIZE - 1
  BY ElfAssumption
<1> QED BY <1>1, ElfAssumption DEF Chunk

\* A step that changes no page, no byte and the owner of none keeps the rest.
LEMMA SameOwners ==
  ASSUME TypeOK, Loading, UNCHANGED <<phdrs, flags, mem>>,
         \A g \in Page : \A k \in Loads : OwnsPage(k, g)' <=> OwnsPage(k, g),
         \A a \in Addr : \A k \in Loads : OwnsByte(k, a)' <=> OwnsByte(k, a),
         (\A k \in Loads : k < i => base_addr <= phdrs[k].vaddr /\ End(phdrs[k]) <= end_addr)',
         (end_addr = 0 \/ \E k \in Loads : end_addr = End(phdrs[k]))',
         (at = "loaded" => i > Len(phdrs))',
         (at \in {"map", "copy", "zero"} => i \in Loads)',
         (at = "map" => Down(Phdr.vaddr) <= pos /\ pos <= Up(End(Phdr)))',
         (at = "copy" => pos <= Phdr.filesz)'
  PROVE  Loading'
<1>1. Loads' = Loads
  BY DEF Loads
<1>2. (\A g \in Page : \A k \in Loads : OwnsPage(k, g) => flags[g] = phdrs[k].flags)'
  BY <1>1 DEF Loading
<1>3. (\A g \in Page : flags[g] # None => \E k \in Loads : OwnsPage(k, g))'
  BY <1>1 DEF Loading
<1>4. (\A g \in Page : \A k, l \in Loads : OwnsPage(k, g) /\ OwnsPage(l, g) => k = l)'
  BY <1>1 DEF Loading
<1>5. (\A a \in Addr : \A k \in Loads :
         OwnsByte(k, a) => mem[a] = File(phdrs[k].offset + a - phdrs[k].vaddr))'
  BY <1>1 DEF Loading
<1>6. (\A a \in Addr : (\A k \in Loads : ~OwnsByte(k, a)) => mem[a] = 0)'
  BY <1>1 DEF Loading
<1> QED BY <1>2, <1>3, <1>4, <1>5, <1>6, Zenon DEF Loading

-----------------------------------------------------------------------------
(* The steps of elf64_load. *)

\* Going to the next header.
LEMMA NextHeaderOK ==
  ASSUME TypeOK, Loading, NextHeader
  PROVE  TypeOK' /\ (at' # "panic" => Loading') /\ at' # "done"
<1> USE DEF NextHeader, Goes
<1>1. /\ i \in Nat /\ Len(phdrs) \in Nat /\ Loads \subseteq 1 .. Len(phdrs) /\ Loads' = Loads
      /\ i \in DOMAIN phdrs <=> i <= Len(phdrs)
  BY DEF TypeOK, Loads
<1>2. at = "header" /\ at' \in {"loaded", "header", "panic", "map"} /\ i' \in {i, i + 1}
  OBVIOUS
<1>3. CASE at' = "map"
  <2>1. i \in Loads /\ i' = i /\ pos' = Down(Phdr.vaddr) /\ pos' < Up(End(Phdr))
    <3>1. i \in Loads /\ i' = i /\ pos' = Down(Phdr.vaddr) /\ ~(Down(Phdr.vaddr) >= Up(End(Phdr)))
      BY <1>1, <1>3 DEF Loads, Phdr
    <3>2. Down(Phdr.vaddr) \in Nat /\ Up(End(Phdr)) \in Nat
      BY <3>1, SegmentOK DEF TypeOK, Phdr
    <3> HIDE DEF NextHeader
    <3>3. Down(Phdr.vaddr) < Up(End(Phdr))
      BY <3>1, <3>2
    <3> QED BY <3>1, <3>2, <3>3
  <2>2. Down(Phdr.vaddr) \in Nat /\ Up(End(Phdr)) \in Nat
    BY <2>1, SegmentOK DEF TypeOK, Phdr
  <2>3. TypeOK'
    BY <2>1, <2>2, <1>3 DEF TypeOK
  <2>4. \A g \in Page : \A k \in Loads : OwnsPage(k, g)' <=> OwnsPage(k, g)
    <3> TAKE g \in Page
    <3> TAKE k \in Loads
    <3>1. CASE k = i
      BY <1>1, <1>2, <1>3, <2>1, <2>2, <3>1 DEF OwnsPage, MappedUpTo, Phdr, Page
    <3>2. CASE k # i
      BY <1>1, <1>2, <1>3, <2>1, <3>2 DEF OwnsPage, MappedUpTo
    <3> QED BY <3>1, <3>2
  <2>5. \A a \in Addr : \A k \in Loads : OwnsByte(k, a)' <=> OwnsByte(k, a)
    BY <1>1, <1>2, <1>3, <2>1 DEF OwnsByte, CopiedUpTo
  <2>6. Loading'
    <3>1. Phdr' = Phdr
      BY <2>1 DEF Phdr
    <3> HIDE DEF NextHeader
    <3>2. UNCHANGED <<phdrs, flags, mem, base_addr, end_addr>>
      BY DEF NextHeader
    <3>3. (\A k \in Loads : k < i => base_addr <= phdrs[k].vaddr /\ End(phdrs[k]) <= end_addr)'
      BY <3>2, <2>1, <1>1 DEF Loading
    <3>4. (end_addr = 0 \/ \E k \in Loads : end_addr = End(phdrs[k]))'
      BY <3>2, <1>1 DEF Loading
    <3>5. (at = "map" => Down(Phdr.vaddr) <= pos /\ pos <= Up(End(Phdr)))'
      BY <3>1, <2>1, <2>2
    <3>6. (at \in {"map", "copy", "zero"} => i \in Loads)'
      BY <2>1, <1>1
    <3> QED BY <3>2, <3>3, <3>4, <3>5, <3>6, <2>4, <2>5, <1>3, SameOwners
  <2> QED BY <2>3, <2>6, <1>3
<1>4. CASE at' \in {"loaded", "header"}
  <2>1. /\ pos' = 0 /\ i' \in 1 .. Len(phdrs) + 1
        /\ at' = "loaded" => i' = i /\ i > Len(phdrs)
        /\ at' = "header" => i' = i + 1 /\ i \notin Loads
    BY <1>1, <1>4 DEF TypeOK, Loads, Phdr
  <2>2. \A k \in Loads : k < i' <=> k < i
    BY <1>1, <2>1, <1>4
  <2>3. TypeOK'
    BY <2>1, <1>4 DEF TypeOK
  <2>4. \A g \in Page : \A k \in Loads : OwnsPage(k, g)' <=> OwnsPage(k, g)
    BY <1>1, <1>2, <1>4, <2>2 DEF OwnsPage, MappedUpTo
  <2>5. \A a \in Addr : \A k \in Loads : OwnsByte(k, a)' <=> OwnsByte(k, a)
    BY <1>1, <1>2, <1>4, <2>2 DEF OwnsByte, CopiedUpTo
  <2>6. Loading'
    <3>1. UNCHANGED <<phdrs, flags, mem, base_addr, end_addr>>
      OBVIOUS
    <3> HIDE DEF NextHeader
    <3>2. (\A k \in Loads : k < i => base_addr <= phdrs[k].vaddr /\ End(phdrs[k]) <= end_addr)'
      BY <3>1, <2>2, <1>1 DEF Loading
    <3>3. (end_addr = 0 \/ \E k \in Loads : end_addr = End(phdrs[k]))'
      BY <3>1, <1>1 DEF Loading
    <3> QED BY <3>1, <3>2, <3>3, <2>1, <2>4, <2>5, <1>1, <1>4, SameOwners, Zenon
  <2> QED BY <2>3, <2>6, <1>4
<1>5. CASE at' = "panic"
  BY <1>5 DEF TypeOK
<1> QED BY <1>2, <1>3, <1>4, <1>5

\* Mapping a page of the segment, and the checks before the copy.
LEMMA MapPageOK ==
  ASSUME TypeOK, Loading, MapPage
  PROVE  TypeOK' /\ (at' # "panic" => Loading') /\ at' # "done"
<1> USE DEF MapPage, Goes
<1>1. /\ i \in Loads /\ at = "map" /\ Loads' = Loads /\ Loads \subseteq Nat
      /\ Down(Phdr.vaddr) <= pos /\ pos <= Up(End(Phdr)) /\ pos \in Nat
  BY DEF TypeOK, Loading, Loads
<1>2. /\ Down(Phdr.vaddr) \in Nat /\ Up(End(Phdr)) \in 0 .. Pages - 1 /\ Phdr.filesz \in Nat
      /\ Phdr.flags # None /\ Phdr.flags \in {h.flags : h \in Headers}
  BY <1>1, SegmentOK, Zenon DEF TypeOK, Phdr
<1>3. UNCHANGED <<phdrs, i, mem, base_addr, end_addr, user_heap>> /\ Phdr' = Phdr
  BY DEF Phdr
<1>4. at' \in {"map", "copy", "panic"}
  OBVIOUS
<1>5. CASE at' = "map"
  <2>1. /\ pos < Up(End(Phdr)) /\ flags[pos] = None /\ pos' = pos + 1
        /\ flags' = [flags EXCEPT ![pos] = Phdr.flags] /\ pos \in Page
    BY <1>1, <1>2, <1>5, ElfAssumption DEF Page
  <2> HIDE DEF MapPage
  <2>2. TypeOK'
    BY <1>2, <1>3, <1>5, <2>1 DEF TypeOK
  <2>3. ASSUME NEW g \in Page, NEW k \in Loads
        PROVE  OwnsPage(k, g)' <=> OwnsPage(k, g) \/ (k = i /\ g = pos)
    <3>1. CASE k = i
      BY <1>1, <1>2, <1>3, <1>5, <2>1, <3>1 DEF OwnsPage, MappedUpTo, Phdr, Page
    <3>2. CASE k # i
      BY <1>1, <1>3, <1>5, <2>1, <3>2 DEF OwnsPage, MappedUpTo
    <3> QED BY <3>1, <3>2
  <2>4. \A k \in Loads : ~OwnsPage(k, pos)
    BY <2>1, SegmentOK, Zenon DEF Loading, TypeOK
  <2>5. \A g \in Page : flags'[g] = IF g = pos THEN Phdr.flags ELSE flags[g]
    BY <2>1 DEF TypeOK
  <2>6. \A a \in Addr : \A k \in Loads : OwnsByte(k, a)' <=> OwnsByte(k, a)
    BY <1>1, <1>3, <1>5 DEF OwnsByte, CopiedUpTo
  <2>7. (\A g \in Page : \A k \in Loads : OwnsPage(k, g) => flags[g] = phdrs[k].flags)'
    BY <1>1, <1>3, <2>3, <2>4, <2>5 DEF Loading, Phdr
  <2>8. (\A g \in Page : flags[g] # None => \E k \in Loads : OwnsPage(k, g))'
    BY <1>1, <1>3, <2>3, <2>4, <2>5 DEF Loading
  <2>9. (\A g \in Page : \A k, l \in Loads : OwnsPage(k, g) /\ OwnsPage(l, g) => k = l)'
    BY <1>1, <1>3, <2>3, <2>4 DEF Loading
  <2>10. (\A a \in Addr : \A k \in Loads :
            OwnsByte(k, a) => mem[a] = File(phdrs[k].offset + a - phdrs[k].vaddr))'
    BY <1>1, <1>3, <2>6 DEF Loading
  <2>11. (\A a \in Addr : (\A k \in Loads : ~OwnsByte(k, a)) => mem[a] = 0)'
    BY <1>1, <1>3, <2>6 DEF Loading
  <2>12. Down(Phdr.vaddr) <= pos + 1 /\ pos + 1 <= Up(End(Phdr))
    BY <1>1, <1>2, <2>1
  <2>13. Loading'
    BY <1>1, <1>3, <1>5, <2>1, <2>7, <2>8, <2>9, <2>10, <2>11, <2>12, Zenon DEF Loading
  <2> QED BY <1>5, <2>2, <2>13
<1>6. CASE at' = "copy"
  <2>1. pos' = 0 /\ flags' = flags /\ pos = Up(End(Phdr))
    BY <1>1, <1>2, <1>6
  <2> HIDE DEF MapPage
  <2>2. TypeOK'
    BY <1>3, <1>6, <2>1 DEF TypeOK
  <2>3. \A g \in Page : \A k \in Loads : OwnsPage(k, g)' <=> OwnsPage(k, g)
    BY <1>1, <1>3, <1>6, <2>1 DEF OwnsPage, MappedUpTo, Phdr
  <2>4. \A a \in Addr : \A k \in Loads : OwnsByte(k, a)' <=> OwnsByte(k, a)
    BY <1>1, <1>3, <1>6, <2>1 DEF OwnsByte, CopiedUpTo
  <2>5. (\A k \in Loads : k < i => base_addr <= phdrs[k].vaddr /\ End(phdrs[k]) <= end_addr)'
    BY <1>1, <1>3 DEF Loading
  <2>6. (end_addr = 0 \/ \E k \in Loads : end_addr = End(phdrs[k]))'
    BY <1>1, <1>3 DEF Loading
  <2>7. Loading'
    BY <1>1, <1>2, <1>3, <1>6, <2>1, <2>3, <2>4, <2>5, <2>6, SameOwners
  <2> QED BY <1>6, <2>2, <2>7
<1>7. CASE at' = "panic"
  BY <1>7 DEF TypeOK
<1> QED BY <1>4, <1>5, <1>6, <1>7

\* One round of the loop of vmm_map_copy.
LEMMA CopyOK ==
  ASSUME TypeOK, Loading, vmm_map_copy
  PROVE  TypeOK' /\ (at' # "panic" => Loading') /\ at' # "done"
<1> DEFINE virt == Phdr.vaddr + pos
           chunk == Chunk(virt, Phdr.filesz - pos)
<1>1. /\ i \in Loads /\ at = "copy" /\ Loads' = Loads /\ Loads \subseteq Nat
      /\ pos <= Phdr.filesz /\ pos \in Nat
  BY DEF TypeOK, Loading, Loads, vmm_map_copy
<1>2. /\ Phdr.vaddr \in Nat /\ Phdr.filesz \in Nat /\ Phdr.memsz \in Nat
      /\ Phdr.offset \in Nat /\ Phdr.filesz <= Phdr.memsz
      /\ End(Phdr) = Phdr.vaddr + Phdr.memsz
  BY <1>1, SegmentOK, Zenon DEF TypeOK, Phdr
<1>3. UNCHANGED <<phdrs, i, flags, base_addr, end_addr, user_heap>> /\ Phdr' = Phdr
  BY DEF Phdr, vmm_map_copy
<1>4. \/ pos >= Phdr.filesz /\ at' = "zero" /\ pos' = 0 /\ mem' = mem
      \/ at' = "panic" /\ pos' = 0 /\ mem' = mem
      \/ /\ ~(pos >= Phdr.filesz) /\ at' = "copy" /\ pos' = pos + chunk
         /\ mem' = [a \in Addr |-> IF virt <= a /\ a < virt + chunk
                                   THEN File(Phdr.offset + pos + a - virt) ELSE mem[a]]
  BY DEF vmm_map_copy, Goes
<1>5. (\A k \in Loads : k < i => base_addr <= phdrs[k].vaddr /\ End(phdrs[k]) <= end_addr)'
  BY <1>1, <1>3 DEF Loading
<1>6. (end_addr = 0 \/ \E k \in Loads : end_addr = End(phdrs[k]))'
  BY <1>1, <1>3 DEF Loading
<1>7. CASE at' = "copy"
  <2>1. /\ pos < Phdr.filesz /\ pos' = pos + chunk
        /\ mem' = [a \in Addr |-> IF virt <= a /\ a < virt + chunk
                                  THEN File(Phdr.offset + pos + a - virt) ELSE mem[a]]
    <3>1. ~(pos >= Phdr.filesz)
      BY <1>4, <1>7
    <3>2. pos < Phdr.filesz
      BY <3>1, <1>1, <1>2
    <3> QED BY <3>2, <1>4, <1>7
  <2>2. virt \in Nat /\ Phdr.filesz - pos \in Nat \ {0}
    BY <1>1, <1>2, <2>1
  <2>3. chunk \in Nat /\ 0 < chunk /\ chunk <= Phdr.filesz - pos
    BY <2>2, ChunkOK
  <2> HIDE DEF chunk
  <2>4. pos + chunk \in Nat /\ pos + chunk <= Phdr.filesz
    BY <2>3, <1>1, <1>2
  <2>5. \A a \in Addr : virt <= a => File(Phdr.offset + pos + a - virt) \in Nat
    BY <1>1, <1>2, AddrPage DEF File
  <2>6. mem' \in [Addr -> Nat]
    BY <2>1, <2>5, Zenon DEF TypeOK
  <2>7. TypeOK'
    BY <1>3, <1>7, <2>1, <2>4, <2>6, Zenon DEF TypeOK
  <2>8. ASSUME NEW a \in Addr, NEW k \in Loads
        PROVE  OwnsByte(k, a)' <=> OwnsByte(k, a) \/ (k = i /\ virt <= a /\ a < virt + chunk)
    <3>0. a \in Nat
      BY AddrPage
    <3>1. CASE k = i
      <4>1. CopiedUpTo(k) = pos /\ CopiedUpTo(k)' = pos + chunk /\ phdrs[k] = Phdr
        BY <1>1, <1>3, <1>7, <2>1, <3>1 DEF CopiedUpTo, Phdr
      <4>2. phdrs'[k] = Phdr
        BY <4>1, <1>3
      <4>3. OwnsByte(k, a) <=> Phdr.vaddr <= a /\ a < Phdr.vaddr + pos
        BY <4>1 DEF OwnsByte
      <4>4. OwnsByte(k, a)' <=> Phdr.vaddr <= a /\ a < Phdr.vaddr + (pos + chunk)
        BY <4>1, <4>2 DEF OwnsByte
      <4> QED BY <4>3, <4>4, <3>0, <3>1, <2>3, <1>1, <1>2
    <3>2. CASE k # i
      BY <1>1, <1>3, <1>7, <3>2 DEF OwnsByte, CopiedUpTo
    <3> QED BY <3>1, <3>2
  <2>9. ASSUME NEW a \in Addr, virt <= a, a < virt + chunk, NEW k \in Loads
        PROVE  ~OwnsByte(k, a)
    <3>0. a \in Nat
      BY AddrPage
    <3>1. Phdr.vaddr <= a /\ a < End(Phdr)
      BY <3>0, <1>1, <1>2, <2>3, <2>9
    <3>2. CASE k = i
      BY <3>0, <3>2, <1>1, <1>2, <2>9 DEF OwnsByte, CopiedUpTo, Phdr
    <3>3. CASE k # i
      BY <3>1, <3>3, <1>1, AtHand
    <3> QED BY <3>2, <3>3
  <2>10. (\A a \in Addr : \A k \in Loads :
            OwnsByte(k, a) => mem[a] = File(phdrs[k].offset + a - phdrs[k].vaddr))'
    <3> SUFFICES ASSUME NEW a \in Addr, NEW k \in Loads, OwnsByte(k, a)'
                 PROVE  mem'[a] = File(phdrs[k].offset + a - phdrs[k].vaddr)
      BY <1>1, <1>3, Zenon
    <3>0. a \in Nat
      BY AddrPage
    <3>1. CASE virt <= a /\ a < virt + chunk
      <4>1. k = i
        BY <2>8, <2>9, <3>1
      <4>2. mem'[a] = File(Phdr.offset + pos + a - virt)
        BY <2>1, <3>1
      <4>3. Phdr.offset + pos + a - virt = Phdr.offset + a - Phdr.vaddr
        BY <3>0, <1>1, <1>2
      <4> QED BY <4>1, <4>2, <4>3 DEF Phdr
    <3>2. CASE ~(virt <= a /\ a < virt + chunk)
      <4>1. OwnsByte(k, a)
        BY <2>8, <3>2
      <4>2. mem'[a] = mem[a]
        BY <2>1, <3>2
      <4> QED BY <4>1, <4>2 DEF Loading
    <3> QED BY <3>1, <3>2
  <2>11. (\A a \in Addr : (\A k \in Loads : ~OwnsByte(k, a)) => mem[a] = 0)'
    <3> SUFFICES ASSUME NEW a \in Addr, \A k \in Loads : ~OwnsByte(k, a)'
                 PROVE  mem'[a] = 0
      BY <1>1
    <3>1. ~(virt <= a /\ a < virt + chunk) /\ \A k \in Loads : ~OwnsByte(k, a)
      BY <1>1, <2>8
    <3>2. mem'[a] = mem[a]
      BY <2>1, <3>1
    <3> QED BY <3>1, <3>2 DEF Loading
  <2>12. \A g \in Page : \A k \in Loads : OwnsPage(k, g)' <=> OwnsPage(k, g)
    BY <1>1, <1>3, <1>7 DEF OwnsPage, MappedUpTo
  <2>13. (\A g \in Page : \A k \in Loads : OwnsPage(k, g) => flags[g] = phdrs[k].flags)'
    BY <1>1, <1>3, <2>12 DEF Loading
  <2>14. (\A g \in Page : flags[g] # None => \E k \in Loads : OwnsPage(k, g))'
    BY <1>1, <1>3, <2>12 DEF Loading
  <2>15. (\A g \in Page : \A k, l \in Loads : OwnsPage(k, g) /\ OwnsPage(l, g) => k = l)'
    BY <1>1, <1>3, <2>12 DEF Loading
  <2>16. Loading'
    BY <1>1, <1>3, <1>5, <1>6, <1>7, <2>1, <2>4, <2>10, <2>11, <2>13, <2>14, <2>15, Zenon DEF Loading
  <2> QED BY <1>7, <2>7, <2>16
<1>8. CASE at' = "zero"
  <2>1. pos = Phdr.filesz /\ pos' = 0 /\ mem' = mem
    BY <1>1, <1>2, <1>4, <1>8
  <2>2. TypeOK'
    BY <1>3, <1>8, <2>1 DEF TypeOK
  <2>3. \A g \in Page : \A k \in Loads : OwnsPage(k, g)' <=> OwnsPage(k, g)
    BY <1>1, <1>3, <1>8 DEF OwnsPage, MappedUpTo
  <2>4. \A a \in Addr : \A k \in Loads : OwnsByte(k, a)' <=> OwnsByte(k, a)
    BY <1>1, <1>3, <1>8, <2>1 DEF OwnsByte, CopiedUpTo, Phdr
  <2>5. Loading'
    BY <1>1, <1>3, <1>5, <1>6, <1>8, <2>1, <2>3, <2>4, SameOwners
  <2> QED BY <1>8, <2>2, <2>5
<1>9. CASE at' = "panic"
  <2>1. pos' = 0 /\ mem' = mem
    BY <1>4, <1>9
  <2> QED BY <1>3, <1>9, <2>1 DEF TypeOK
<1> QED BY <1>4, <1>7, <1>8, <1>9

\* One round of the loop of vmm_map_zero, and the bounds after it.
LEMMA ZeroOK ==
  ASSUME TypeOK, Loading, vmm_map_zero
  PROVE  TypeOK' /\ (at' # "panic" => Loading') /\ at' # "done"
<1> DEFINE virt == Phdr.vaddr + Phdr.filesz + pos
           left == Phdr.memsz - Phdr.filesz - pos
           chunk == Chunk(virt, left)
<1>1. /\ i \in Loads /\ at = "zero" /\ Loads' = Loads /\ Loads \subseteq 1 .. Len(phdrs)
      /\ pos \in Nat /\ i \in Nat /\ Len(phdrs) \in Nat
  BY DEF TypeOK, Loading, Loads, vmm_map_zero
<1>2. /\ Phdr.vaddr \in Nat /\ Phdr.filesz \in Nat /\ Phdr.memsz \in Nat
      /\ Phdr.filesz <= Phdr.memsz /\ End(Phdr) \in Nat
      /\ End(Phdr) = Phdr.vaddr + Phdr.memsz
  BY <1>1, SegmentOK, Zenon DEF TypeOK, Phdr
<1>3. UNCHANGED <<phdrs, flags, user_heap>>
  BY DEF vmm_map_zero
<1>4. \/ /\ at' = "header" /\ pos' = 0 /\ i' = i + 1 /\ mem' = mem
         /\ base_addr' = IF Phdr.vaddr < base_addr THEN Phdr.vaddr ELSE base_addr
         /\ end_addr' = IF End(Phdr) > end_addr THEN End(Phdr) ELSE end_addr
      \/ at' = "panic" /\ pos' = 0 /\ mem' = mem /\ UNCHANGED <<i, base_addr, end_addr>>
      \/ /\ ~(left <= 0) /\ at' = "zero" /\ pos' = pos + chunk
         /\ UNCHANGED <<i, base_addr, end_addr>>
         /\ mem' = [a \in Addr |-> IF virt <= a /\ a < virt + chunk THEN 0 ELSE mem[a]]
  BY DEF vmm_map_zero, Goes
<1>5. CASE at' = "zero"
  <2>1. /\ ~(left <= 0) /\ pos' = pos + chunk /\ UNCHANGED <<i, base_addr, end_addr>>
        /\ mem' = [a \in Addr |-> IF virt <= a /\ a < virt + chunk THEN 0 ELSE mem[a]]
    BY <1>4, <1>5
  <2>2. virt \in Nat /\ left \in Nat \ {0}
    <3>1. virt \in Nat /\ left \in Int
      BY <1>1, <1>2
    <3> HIDE DEF left
    <3> QED BY <3>1, <2>1
  <2>3. chunk \in Nat /\ 0 < chunk /\ chunk <= left
    BY <2>2, ChunkOK
  <2> HIDE DEF chunk
  <2>4. TypeOK'
    <3>1. mem' \in [Addr -> Nat]
      BY <2>1 DEF TypeOK
    <3> QED BY <3>1, <1>1, <1>3, <1>5, <2>1, <2>3 DEF TypeOK
  <2>5. \A a \in Addr : \A k \in Loads : OwnsByte(k, a)' <=> OwnsByte(k, a)
    BY <1>1, <1>3, <1>5, <2>1 DEF OwnsByte, CopiedUpTo
  <2>6. ASSUME NEW a \in Addr, virt <= a, a < virt + chunk, NEW k \in Loads
        PROVE  ~OwnsByte(k, a)
    <3>0. a \in Nat
      BY AddrPage
    <3>1. Phdr.vaddr <= a /\ a < End(Phdr)
      <4>1. virt <= a /\ a < virt + chunk /\ chunk \in Nat /\ chunk <= left
        BY <2>3, <2>6
      <4>2. virt = Phdr.vaddr + Phdr.filesz + pos /\ left = Phdr.memsz - Phdr.filesz - pos
        OBVIOUS
      <4> DEFINE v == Phdr.vaddr
                 f == Phdr.filesz
                 m == Phdr.memsz
                 e == End(Phdr)
      <4>3. v \in Nat /\ f \in Nat /\ m \in Nat /\ pos \in Nat /\ e = v + m
        BY <1>1, <1>2
      <4>4. virt = v + f + pos /\ left = m - f - pos
        BY <4>2
      <4> HIDE DEF v, f, m, e, virt, left
      <4>5. v <= a /\ a < e
        BY <4>1, <4>3, <4>4, <3>0
      <4> QED BY <4>5 DEF v, e
    <3>2. CASE k = i
      BY <3>0, <3>2, <1>1, <1>2, <2>6 DEF OwnsByte, CopiedUpTo, Phdr
    <3>3. CASE k # i
      BY <3>1, <3>3, <1>1, AtHand
    <3> QED BY <3>2, <3>3
  <2>7. (\A a \in Addr : \A k \in Loads :
            OwnsByte(k, a) => mem[a] = File(phdrs[k].offset + a - phdrs[k].vaddr))'
    <3> SUFFICES ASSUME NEW a \in Addr, NEW k \in Loads, OwnsByte(k, a)'
                 PROVE  mem'[a] = File(phdrs[k].offset + a - phdrs[k].vaddr)
      BY <1>1, <1>3
    <3>1. OwnsByte(k, a)
      BY <2>5
    <3>2. mem'[a] = mem[a]
      BY <3>1, <2>1, <2>6
    <3> QED BY <3>1, <3>2 DEF Loading
  <2>8. (\A a \in Addr : (\A k \in Loads : ~OwnsByte(k, a)) => mem[a] = 0)'
    <3> SUFFICES ASSUME NEW a \in Addr, \A k \in Loads : ~OwnsByte(k, a)'
                 PROVE  mem'[a] = 0
      BY <1>1
    <3>1. mem[a] = 0
      BY <2>5 DEF Loading
    <3> QED BY <3>1, <2>1
  <2>9. \A g \in Page : \A k \in Loads : OwnsPage(k, g)' <=> OwnsPage(k, g)
    BY <1>1, <1>3, <1>5, <2>1 DEF OwnsPage, MappedUpTo
  <2>10. (\A g \in Page : \A k \in Loads : OwnsPage(k, g) => flags[g] = phdrs[k].flags)'
    BY <1>1, <1>3, <2>9 DEF Loading
  <2>11. (\A g \in Page : flags[g] # None => \E k \in Loads : OwnsPage(k, g))'
    BY <1>1, <1>3, <2>9 DEF Loading
  <2>12. (\A g \in Page : \A k, l \in Loads : OwnsPage(k, g) /\ OwnsPage(l, g) => k = l)'
    BY <1>1, <1>3, <2>9 DEF Loading
  <2>13. (\A k \in Loads : k < i => base_addr <= phdrs[k].vaddr /\ End(phdrs[k]) <= end_addr)'
    BY <1>1, <1>3, <2>1, Zenon DEF Loading
  <2>14. (end_addr = 0 \/ \E k \in Loads : end_addr = End(phdrs[k]))'
    BY <1>1, <1>3, <2>1, Zenon DEF Loading
  <2>15. Loading'
    BY <1>1, <1>3, <1>5, <2>1, <2>7, <2>8, <2>10, <2>11, <2>12, <2>13, <2>14, Zenon DEF Loading
  <2> QED BY <1>5, <2>4, <2>15
<1>6. CASE at' = "header"
  <2>1. /\ pos' = 0 /\ i' = i + 1 /\ mem' = mem
        /\ base_addr' = IF Phdr.vaddr < base_addr THEN Phdr.vaddr ELSE base_addr
        /\ end_addr' = IF End(Phdr) > end_addr THEN End(Phdr) ELSE end_addr
    BY <1>4, <1>6
  <2>2. /\ base_addr \in Nat /\ end_addr \in Nat
    BY DEF TypeOK
  <2>3. TypeOK'
    BY <1>1, <1>2, <1>3, <1>6, <2>1, <2>2 DEF TypeOK
  <2>4. \A k \in Loads : k < i' <=> k < i \/ k = i
    BY <1>1, <2>1
  <2>5. \A g \in Page : \A k \in Loads : OwnsPage(k, g)' <=> OwnsPage(k, g)
    BY <1>1, <1>3, <1>6, <2>4 DEF OwnsPage, MappedUpTo
  <2>6. \A a \in Addr : \A k \in Loads : OwnsByte(k, a)' <=> OwnsByte(k, a)
    BY <1>1, <1>3, <1>6, <2>4 DEF OwnsByte, CopiedUpTo
  <2>7. (\A k \in Loads : k < i => base_addr <= phdrs[k].vaddr /\ End(phdrs[k]) <= end_addr)'
    <3> SUFFICES ASSUME NEW k \in Loads, k < i'
                 PROVE  base_addr' <= phdrs[k].vaddr /\ End(phdrs[k]) <= end_addr'
      BY <1>1, <1>3
    <3>1. phdrs[k].vaddr \in Nat /\ End(phdrs[k]) \in Nat
      BY SegmentOK, Zenon DEF TypeOK
    <3>2. CASE k = i
      BY <3>2, <1>2, <2>1, <2>2 DEF Phdr
    <3>3. CASE k < i
      <4>1. base_addr <= phdrs[k].vaddr /\ End(phdrs[k]) <= end_addr
        BY <3>3 DEF Loading
      <4> QED BY <4>1, <3>1, <1>2, <2>1, <2>2
    <3> QED BY <2>4, <3>2, <3>3
  <2>8. (end_addr = 0 \/ \E k \in Loads : end_addr = End(phdrs[k]))'
    BY <1>1, <1>3, <2>1 DEF Loading, Phdr
  <2>9. Loading'
    BY <1>1, <1>3, <1>6, <2>1, <2>5, <2>6, <2>7, <2>8, SameOwners, Zenon
  <2> QED BY <1>6, <2>3, <2>9
<1>7. CASE at' = "panic"
  <2>1. pos' = 0 /\ mem' = mem /\ UNCHANGED <<i, base_addr, end_addr>>
    BY <1>4, <1>7
  <2> QED BY <1>3, <1>7, <2>1 DEF TypeOK
<1> QED BY <1>4, <1>5, <1>6, <1>7

\* The heap page of process_spawn_elf lies behind every segment and within the
\* address space, wherever in the image the entry point is.
LEMMA HeapBehind ==
  ASSUME TypeOK, Loading, at = "loaded", NEW entry \in base_addr .. end_addr - 1
  PROVE  /\ UserHeap(entry) \in Page
         /\ \A k \in Loads : k < i /\ Up(End(phdrs[k])) <= UserHeap(entry)
<1>1. base_addr \in Nat /\ end_addr \in Nat /\ i \in Nat /\ Len(phdrs) \in Nat /\ i > Len(phdrs)
  BY DEF TypeOK, Loading
<1> DEFINE top == entry + end_addr - base_addr
<1>2. top \in Nat /\ end_addr <= top /\ top <= 2 * end_addr /\ end_addr # 0
  BY <1>1
<1>3. PICK m \in Loads : end_addr = End(phdrs[m])
  BY <1>2 DEF Loading
<1>4. Up(2 * end_addr) < Pages
  BY <1>3, SegmentOK DEF TypeOK
<1>5. UserHeap(entry) = Up(top)
  BY DEF UserHeap
<1> HIDE DEF top
<1>6. Up(top) \in Nat /\ Up(2 * end_addr) \in Nat /\ Up(top) <= Up(2 * end_addr)
  <2> DEFINE d == 2 * end_addr
  <2>1. d \in Nat /\ top <= d
    BY <1>1, <1>2
  <2> HIDE DEF d
  <2>2. Up(top) \in Nat /\ Up(d) \in Nat /\ Up(top) <= Up(d)
    BY <1>2, <2>1, UpIsDown, UpMonotone
  <2> QED BY <2>2 DEF d
<1>7. Up(top) \in Page
  BY <1>4, <1>6, ElfAssumption DEF Page
<1>8. ASSUME NEW k \in Loads
      PROVE  k < i /\ Up(End(phdrs[k])) <= Up(top)
  <2>1. k \in 1 .. Len(phdrs) /\ End(phdrs[k]) \in Nat
    BY SegmentOK DEF TypeOK
  <2>2. k < i
    BY <1>1, <2>1
  <2>3. End(phdrs[k]) <= end_addr
    BY <2>2 DEF Loading
  <2>4. End(phdrs[k]) <= top
    BY <2>1, <2>3, <1>1, <1>2
  <2> QED BY <2>1, <2>2, <2>4, <1>2, UpMonotone
<1> QED BY <1>5, <1>7, <1>8

\* The heap page, after which the program is ready.
LEMMA HeapPageOK ==
  ASSUME TypeOK, Loading, NEW entry \in base_addr .. end_addr - 1, HeapPage(entry)
  PROVE  TypeOK' /\ Loaded' /\ at' = "done"
<1>1. /\ at = "loaded" /\ at' = "done" /\ pos' = 0 /\ user_heap' = UserHeap(entry)
      /\ flags' = [flags EXCEPT ![user_heap'] = "heap"]
      /\ mem' = [a \in Addr |-> IF Down(a) = user_heap' THEN 0 ELSE mem[a]]
      /\ UNCHANGED <<phdrs, i, base_addr, end_addr>>
  BY DEF HeapPage, Goes
<1>2. PICK hp : hp = user_heap'
  OBVIOUS
<1>3. hp \in Page /\ \A k \in Loads : k < i /\ Up(End(phdrs[k])) <= hp
  BY <1>1, <1>2, HeapBehind
<1>4. Loads' = Loads
  BY <1>1 DEF Loads
<1>5. TypeOK'
  <2>1. mem' \in [Addr -> Nat]
    BY <1>1 DEF TypeOK
  <2>2. hp \in Nat
    BY <1>3, ElfAssumption DEF Page
  <2> QED BY <1>1, <1>2, <1>3, <2>1, <2>2, Zenon DEF TypeOK
<1>6. ASSUME NEW a \in Addr
      PROVE  mem'[a] = Image(a)
  <2> DEFINE own == {k \in Loads : phdrs[k].vaddr <= a /\ a < phdrs[k].vaddr + phdrs[k].filesz}
  <2>1. \A k \in Loads : k \in own <=> OwnsByte(k, a)
    BY <1>3 DEF OwnsByte, CopiedUpTo
  <2>2. CASE own = {}
    <3>1. mem[a] = 0
      BY <2>1, <2>2 DEF Loading
    <3>2. mem'[a] = 0
      BY <3>1, <1>1
    <3> QED BY <2>2, <3>2, Zenon DEF Image
  <2>3. CASE own # {}
    <3>1. PICK k \in own : k = CHOOSE x \in own : TRUE
      BY <2>3
    <3>2. OwnsByte(k, a)
      BY <2>1, <3>1, Zenon
    <3>3. mem[a] = File(phdrs[k].offset + a - phdrs[k].vaddr)
      BY <3>1, <3>2, Zenon DEF Loading
    <3>4. Down(a) \in Page /\ OwnsPage(k, Down(a))
      BY <3>1, <3>2, ByteOwner, Zenon
    <3>5. Down(a) < Up(End(phdrs[k])) /\ Up(End(phdrs[k])) <= hp
      BY <3>1, <3>4, <1>3, Zenon DEF OwnsPage, MappedUpTo
    <3>6. Up(End(phdrs[k])) \in 0 .. Pages - 1
      BY <3>1, SegmentOK, Zenon DEF TypeOK
    <3>7. Down(a) # hp
      BY <3>4, <3>5, <3>6, <1>3, ElfAssumption DEF Page
    <3>8. mem'[a] = mem[a]
      BY <1>1, <1>2, <3>7
    <3>9. Image(a) = File(phdrs[k].offset + a - phdrs[k].vaddr)
      BY <2>3, <3>1, Zenon DEF Image
    <3> QED BY <3>3, <3>8, <3>9
  <2> QED BY <2>2, <2>3
<1>7. \A a \in Addr : Image(a)' = Image(a)
  BY <1>1, <1>4 DEF Image
<1>8. ASSUME NEW k \in Loads, NEW a \in phdrs[k].vaddr .. End(phdrs[k]) - 1
      PROVE  flags'[Down(a)] = phdrs[k].flags
  <2>1. /\ phdrs[k].vaddr \in Nat /\ End(phdrs[k]) \in Nat
        /\ Up(End(phdrs[k])) \in 0 .. Pages - 1 /\ Down(phdrs[k].vaddr) \in Nat
    BY SegmentOK, Zenon DEF TypeOK
  <2>2. a \in Nat /\ phdrs[k].vaddr <= a /\ a < End(phdrs[k])
    BY <2>1
  <2>3. Down(a) \in Nat /\ Down(phdrs[k].vaddr) <= Down(a) /\ Down(a) < Up(End(phdrs[k]))
    BY <2>1, <2>2, PageOf, DownMonotone, DownUp
  <2>4. Down(a) \in Page
    BY <2>1, <2>3, ElfAssumption DEF Page
  <2>5. Up(End(phdrs[k])) <= hp /\ k < i
    BY <1>3
  <2>6. OwnsPage(k, Down(a))
    BY <2>3, <2>5 DEF OwnsPage, MappedUpTo
  <2>7. flags[Down(a)] = phdrs[k].flags
    BY <2>4, <2>6 DEF Loading
  <2>8. Down(a) # hp
    BY <2>1, <2>3, <2>4, <2>5, <1>3, ElfAssumption DEF Page
  <2> QED BY <1>1, <1>2, <2>4, <2>7, <2>8 DEF TypeOK
<1>9. flags'[hp] = "heap"
  BY <1>1, <1>2, <1>3 DEF TypeOK
<1>10. Loaded'
  <2>1. (\A a \in Addr : mem[a] = Image(a))'
    BY <1>6, <1>7
  <2>2. (\A k \in Loads : \A a \in phdrs[k].vaddr .. End(phdrs[k]) - 1 :
           flags[Down(a)] = phdrs[k].flags)'
    BY <1>1, <1>4, <1>8
  <2> QED BY <2>1, <2>2, <1>2, <1>9 DEF Loaded
<1> QED BY <1>1, <1>5, <1>10

-----------------------------------------------------------------------------
(* The loader as a whole. *)

(***************************************************************************)
(* While elf64_load works, every mapped page is one segment's, the bytes   *)
(* copied so far are the file's and all others zero.                       *)
(***************************************************************************)
THEOREM LoadingInvariance == Spec => []IInv
<1>1. Init => IInv
  <2> SUFFICES ASSUME Init PROVE IInv
    OBVIOUS
  <2>1. PICK n \in 1 .. MaxHeaders : phdrs \in [1 .. n -> Headers]
    BY DEF Init
  <2>2. phdrs \in Seq(Headers) /\ Len(phdrs) \in Nat /\ Loads \subseteq 1 .. Len(phdrs)
    BY <2>1, ElfAssumption, SeqDef DEF Loads
  <2>3. Pages * PAGE_SIZE \in Nat
    BY ElfAssumption
  <2>4. TypeOK
    BY <2>2, <2>3 DEF Init, TypeOK
  <2>5. \A k \in Loads : ~(k < i) /\ MappedUpTo(k) = 0 /\ CopiedUpTo(k) = 0
    BY <2>2 DEF Init, MappedUpTo, CopiedUpTo
  <2>6. \A k \in Loads : phdrs[k].vaddr \in Nat /\ Down(phdrs[k].vaddr) \in Nat
    BY <2>2, SegmentOK
  <2>7. \A g \in Page : \A k \in Loads : ~OwnsPage(k, g)
    BY <2>5, <2>6 DEF OwnsPage, Page
  <2>8. \A a \in Addr : \A k \in Loads : ~OwnsByte(k, a)
    BY <2>5, <2>6 DEF OwnsByte, Addr
  <2>9. Loading
    BY <2>5, <2>7, <2>8 DEF Init, Loading
  <2> QED BY <2>4, <2>9 DEF Init, IInv, Loaded
<1>2. IInv /\ [Next]_vars => IInv'
  <2> SUFFICES ASSUME IInv, [Next]_vars PROVE IInv'
    OBVIOUS
  <2>0. TypeOK /\ Loaded /\ (at \notin {"done", "panic"} => Loading)
    BY DEF IInv
  <2>1. ASSUME TypeOK', at' # "panic" => Loading', at' # "done"
        PROVE  IInv'
    BY <2>1 DEF IInv, Loaded
  <2>2. CASE NextHeader
    <3>1. Loading
      BY <2>0, <2>2 DEF NextHeader
    <3> QED BY <2>0, <2>1, <2>2, <3>1, NextHeaderOK
  <2>3. CASE MapPage
    <3>1. Loading
      BY <2>0, <2>3 DEF MapPage
    <3> QED BY <2>0, <2>1, <2>3, <3>1, MapPageOK
  <2>4. CASE vmm_map_copy
    <3>1. Loading
      BY <2>0, <2>4 DEF vmm_map_copy
    <3> QED BY <2>0, <2>1, <2>4, <3>1, CopyOK
  <2>5. CASE vmm_map_zero
    <3>1. Loading
      BY <2>0, <2>5 DEF vmm_map_zero
    <3> QED BY <2>0, <2>1, <2>5, <3>1, ZeroOK
  <2>6. CASE \E entry \in base_addr .. end_addr - 1 : HeapPage(entry)
    <3>1. PICK entry \in base_addr .. end_addr - 1 : HeapPage(entry)
      BY <2>6
    <3>2. Loading
      BY <2>0, <3>1 DEF HeapPage
    <3>3. TypeOK' /\ Loaded' /\ at' = "done"
      BY <2>0, <3>1, <3>2, HeapPageOK
    <3> QED BY <3>3 DEF IInv
  <2>7. CASE UNCHANGED vars
    <3> USE <2>7 DEF vars
    <3>1. TypeOK'
      BY <2>0 DEF TypeOK
    <3>2. Loaded'
      BY <2>0, Zenon DEF Loaded, Image, Loads
    <3>3. at \notin {"done", "panic"} => Loading'
      <4>1. Loads' = Loads /\ Phdr' = Phdr
        BY Zenon DEF Loads, Phdr
      <4>2. \A k : MappedUpTo(k)' = MappedUpTo(k) /\ CopiedUpTo(k)' = CopiedUpTo(k)
        BY <4>1, Zenon DEF MappedUpTo, CopiedUpTo
      <4>3. \A k, g : (OwnsPage(k, g)' <=> OwnsPage(k, g)) /\ (OwnsByte(k, g)' <=> OwnsByte(k, g))
        BY <4>1, <4>2, Zenon DEF OwnsPage, OwnsByte
      <4> QED BY <2>0, <4>1, <4>3, Zenon DEF Loading
    <3> QED BY <3>1, <3>2, <3>3 DEF IInv
  <2> QED BY <2>2, <2>3, <2>4, <2>5, <2>6, <2>7 DEF Next
<1> QED BY <1>1, <1>2, PTL DEF Spec

(***************************************************************************)
(* A program that process_spawn_elf starts finds every segment as its      *)
(* file and its headers describe it, with the flags of the segment on all  *)
(* its pages, and an empty heap page that took the place of none.          *)
(***************************************************************************)
THEOREM ProgramLoaded == Spec => []Loaded
<1>1. IInv => Loaded
  BY DEF IInv
<1> QED BY <1>1, LoadingInvariance, PTL
=============================================================================
