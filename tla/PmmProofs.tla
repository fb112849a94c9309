------------------------------ MODULE PmmProofs -----------------------------
(***************************************************************************)
(* The safety properties of Pmm hold for every page size, bitmap size,     *)
(* memory map and number of clients.                                       *)
(***************************************************************************)
EXTENDS Pmm, FiniteSetTheorems, WellFoundedInduction, TLAPS

\* The solver is given more time when it is slow to answer.
USE SMTT(10), SMTT(20), SMTT(40)

-----------------------------------------------------------------------------
(* Pages and byte addresses. *)

\* Division by the page size, as the code rounds addresses to pages.
LEMMA DivMod ==
  ASSUME NEW x \in Nat, NEW d \in Nat \ {0}
  PROVE  x \div d \in Nat /\ x = d * (x \div d) + (x % d) /\ x % d \in 0 .. d - 1
  OBVIOUS

\* A larger page number is a larger address.
LEMMA TimesMono ==
  ASSUME NEW a \in Nat, NEW b \in Nat, NEW d \in Nat, a <= b
  PROVE  a * d <= b * d
  OBVIOUS

\* A page below the rounded-down end of a range ends inside the range.
LEMMA PageBelow ==
  ASSUME NEW x \in Nat, NEW d \in Nat \ {0}, NEW p \in Nat
  PROVE  /\ p < x \div d => (p + 1) * d <= x
         /\ ~(p < x \div d) => x < (p + 1) * d
<1>1. x \div d \in Nat /\ x = d * (x \div d) + (x % d) /\ x % d \in 0 .. d - 1
  BY DivMod, Zenon
<1>2. CASE p < x \div d
  <2>1. (p + 1) * d <= (x \div d) * d
    BY <1>1, <1>2, TimesMono
  <2> QED
    BY <1>1, <1>2, <2>1
<1>3. CASE ~(p < x \div d)
  <2>1. (x \div d) * d <= p * d
    BY <1>1, <1>3, TimesMono
  <2> QED
    BY <1>1, <1>3, <2>1
<1> QED
  BY <1>2, <1>3

\* A page at or above the rounded-up start of a range starts inside it.
LEMMA PageAbove ==
  ASSUME NEW x \in Nat, NEW d \in Nat \ {0}, NEW p \in Nat
  PROVE  /\ p >= (x + d - 1) \div d => x <= p * d
         /\ ~(p >= (x + d - 1) \div d) => p * d < x
<1> DEFINE y == x + d - 1
<1>1. y \in Nat
  OBVIOUS
<1>2. y \div d \in Nat /\ y = d * (y \div d) + (y % d) /\ y % d \in 0 .. d - 1
  BY <1>1, DivMod, Zenon
<1>3. CASE p >= y \div d
  <2>1. (y \div d) * d <= p * d
    BY <1>2, <1>3, TimesMono
  <2> QED
    BY <1>2, <1>3, <2>1
<1>4. CASE ~(p >= y \div d)
  <2>1. (p + 1) * d <= (y \div d) * d
    BY <1>2, <1>4, TimesMono
  <2> QED
    BY <1>2, <1>4, <2>1
<1> QED
  BY <1>3, <1>4

-----------------------------------------------------------------------------
(* Finiteness and least elements. *)

\* There are finitely many pages, so the counters can count them.
LEMMA PageFinite == IsFiniteSet(Page) /\ \A S \in SUBSET Page : IsFiniteSet(S)
<1>1. IsFiniteSet(Page)
  BY PmmAssumption, FS_Interval DEF Page
<1> QED
  BY <1>1, FS_Subset

\* The scan of pmm_allocate finds a page that is free.
LEMMA LowestIn ==
  ASSUME NEW S \in SUBSET Page, S # {}
  PROVE  Lowest(S) \in S
<1>1. S \subseteq Nat
  BY PmmAssumption DEF Page
<1> DEFINE R == {ss \in Nat \X Nat : ss[1] < ss[2]}
<1>2. IsWellFoundedOn(R, Nat)
  BY NatLessThanWellFounded, Zenon DEF OpToRel
<1>3. \E x \in S : \A y \in S : ~(<<y, x>> \in R)
  <2> HIDE DEF R
  <2> QED
    BY <1>1, <1>2, WFMin, Zenon
<1>4. \E x \in S : \A y \in S : x <= y
  <2>1. ASSUME NEW x \in Nat, NEW y \in Nat, ~(<<y, x>> \in R)
        PROVE  x <= y
    <3>1. <<y, x>> \in Nat \X Nat /\ <<y, x>>[1] = y /\ <<y, x>>[2] = x
      OBVIOUS
    <3>2. ~(y < x)
      BY <2>1, <3>1, Zenon
    <3> QED
      BY <3>2
  <2>2. PICK x \in S : \A y \in S : ~(<<y, x>> \in R)
    BY <1>3
  <2> HIDE DEF R
  <2>3. ASSUME NEW y \in S PROVE x <= y
    <3>1. x \in Nat /\ y \in Nat
      BY <1>1
    <3> QED
      BY <2>1, <2>2, <3>1, Zenon
  <2> QED
    BY <2>3
<1> QED
  BY <1>4 DEF Lowest

\* highest_page is a page that the bitmap has a bit for.
LEMMA HighestOK ==
  ASSUME NEW b \in BootInfos
  PROVE  HighestPage(b) \in Page
<1> DEFINE T == {Top(e) : e \in b.memmap}
           top == CHOOSE t \in T : \A e \in b.memmap : Top(e) <= t
<1>1. \A e \in b.memmap : Top(e) \in Nat
  BY PmmAssumption DEF BootInfo, Entry, Top
<1>2. PICK m \in b.memmap : Top(m) > 0 /\ \A e \in b.memmap : Top(e) <= Top(m)
  BY PmmAssumption DEF Top
<1>3. top \in T /\ \A e \in b.memmap : Top(e) <= top
  BY <1>2
<1>4. top \in Nat \ {0}
  BY <1>1, <1>2, <1>3
<1> HIDE DEF top
<1>5. (top - 1) \div PAGE_SIZE \in Nat
  <2>1. top - 1 \in Nat
    BY <1>4
  <2> QED
    BY <2>1, DivMod, PmmAssumption
<1>6. HighestPage(b) = IF (top - 1) \div PAGE_SIZE >= 8 * PMM_BITMAP_SIZE
                       THEN 8 * PMM_BITMAP_SIZE - 1
                       ELSE (top - 1) \div PAGE_SIZE
  BY DEF HighestPage, top
<1> QED
  BY <1>5, <1>6, PmmAssumption DEF Page
-----------------------------------------------------------------------------
(* pmm_install. *)

\* Reserving pages in pmm_install sets bits and keeps the counts right.
LEMMA ReserveOK ==
  ASSUME NEW s, s.bits \subseteq Page, s.free = Cardinality(Page \ s.bits),
         NEW range \in SUBSET Page
  PROVE  LET r == Reserve(s, range)
         IN /\ r.bits = s.bits \cup range
            /\ r.free = Cardinality(Page \ r.bits)
<1> DEFINE A == Page \ s.bits
           B == range \ s.bits
<1>1. IsFiniteSet(A) /\ A \cap B = B /\ A \ B = Page \ (s.bits \cup range)
  BY PageFinite
<1>2. Cardinality(A \ B) = Cardinality(A) - Cardinality(A \cap B)
  BY <1>1, FS_Difference, Zenon
<1> QED
  BY <1>1, <1>2 DEF Reserve

\* Which pages pmm_install leaves free, and that it counts them.
LEMMA InstallBits ==
  ASSUME NEW b \in BootInfos, pmm_install(b)
  PROVE  /\ bitmap' \subseteq Page
         /\ Clear' = Page \ bitmap'
         /\ Clear' = Ram(b) \ (KernelPages(b) \cup BitmapPages(b) \cup LowPages)
         /\ free_pages' = Cardinality(Clear')
<1> DEFINE Upto(range) == {p \in range : p <= HighestPage(b)}
           s0 == [bits |-> Page \ Ram(b), free |-> Cardinality(Ram(b))]
           s1 == Reserve(s0, Upto(KernelPages(b)))
           s2 == Reserve(s1, Upto(BitmapPages(b)))
           s3 == Reserve(s2, Upto(LowPages))
<1>1. /\ HighestPage(b) \in Page /\ Ram(b) \subseteq Page
      /\ KernelPages(b) \subseteq Page /\ BitmapPages(b) \subseteq Page
      /\ LowPages \subseteq Page
      /\ \A p \in Ram(b) : p <= HighestPage(b)
  BY HighestOK DEF Ram, EntryPages, KernelPages, BitmapPages, LowPages, Pages, Page
<1>2. /\ s0.bits = Page \ Ram(b) /\ s0.bits \subseteq Page
      /\ s0.free = Cardinality(Page \ s0.bits)
  <2>1. Page \ (Page \ Ram(b)) = Ram(b)
    BY <1>1
  <2> QED
    BY <2>1
<1> HIDE DEF s0
<1>3. /\ s1.bits = s0.bits \cup Upto(KernelPages(b))
      /\ s1.free = Cardinality(Page \ s1.bits)
  BY <1>1, <1>2, ReserveOK
<1> HIDE DEF s1
<1>4. /\ s2.bits = s1.bits \cup Upto(BitmapPages(b))
      /\ s2.free = Cardinality(Page \ s2.bits)
  BY <1>1, <1>2, <1>3, ReserveOK
<1> HIDE DEF s2
<1>5. /\ s3.bits = s2.bits \cup Upto(LowPages)
      /\ s3.free = Cardinality(Page \ s3.bits)
  BY <1>1, <1>2, <1>3, <1>4, ReserveOK, Zenon
<1>6. bitmap' = s3.bits /\ free_pages' = s3.free /\ highest_page' = HighestPage(b)
  BY DEF pmm_install, s0, s1, s2
<1> HIDE DEF s3
<1>7. bitmap' \subseteq Page /\ Page \ bitmap' \subseteq Ram(b)
  BY <1>1, <1>2, <1>3, <1>4, <1>5, <1>6
<1>8. Clear' = Page \ bitmap'
  BY <1>1, <1>6, <1>7 DEF Clear
<1>9. Page \ bitmap' = Ram(b) \ (KernelPages(b) \cup BitmapPages(b) \cup LowPages)
  BY <1>1, <1>2, <1>3, <1>4, <1>5, <1>6
<1> QED
  BY <1>5, <1>6, <1>7, <1>8, <1>9

\* The page ranges of pmm_install cover the byte ranges they are meant to.
LEMMA RangesOK ==
  ASSUME NEW b \in BootInfos,
         NEW p \in Ram(b) \ (KernelPages(b) \cup BitmapPages(b) \cup LowPages)
  PROVE  Allowed(p, b)
<1> DEFINE K == b.physical_base
           B == bitmap_phys_start(b)
           k_size == b.bss_end - b.text_begin
           size == (k_size + PAGE_SIZE - 1) \div PAGE_SIZE
<1>1. /\ p \in Page /\ p \in Nat /\ PAGE_SIZE \in Nat \ {0}
      /\ PMM_BITMAP_SIZE \in Nat \ {0} /\ PagesBelow1mb \in Nat \ {0}
      /\ K \in Nat /\ B \in Nat /\ k_size \in Nat /\ b.bss_end \in Nat
      /\ K % PAGE_SIZE = 0
  BY PmmAssumption, HighestOK DEF Ram, Page, BootInfo, bitmap_phys_start
<1> HIDE DEF B, k_size
<1>2. InRam(p, b)
  <2>1. PICK e \in b.memmap : /\ e.type \in {"usable", "reclaimable"}
                              /\ p \in EntryPages(e)
    BY DEF Ram
  <2>2. e.base \in Nat /\ e.length \in Nat /\ Top(e) \in Nat
    BY PmmAssumption DEF BootInfo, Entry, Top
  <2>3. /\ p >= (e.base + PAGE_SIZE - 1) \div PAGE_SIZE
        /\ p < Top(e) \div PAGE_SIZE
    BY <1>1, <2>1, <2>2, PmmAssumption DEF EntryPages, Pages
  <2>4. e.base <= p * PAGE_SIZE
    BY <1>1, <2>2, <2>3, PageAbove, Zenon
  <2>5. (p + 1) * PAGE_SIZE <= Top(e)
    BY <1>1, <2>2, <2>3, PageBelow
  <2> QED
    BY <2>1, <2>4, <2>5 DEF InRam
<1>3. p >= PagesBelow1mb
  BY <1>1 DEF LowPages, Pages
<1>4. ~Overlaps(p, B, B + PMM_BITMAP_SIZE)
  <2> DEFINE E == B + PMM_BITMAP_SIZE
  <2>1. E \in Nat
    BY <1>1
  <2>2. ~(B \div PAGE_SIZE <= p /\ p < (E + PAGE_SIZE - 1) \div PAGE_SIZE)
    BY <1>1 DEF BitmapPages, Pages, B
  <2>3. CASE ~(B \div PAGE_SIZE <= p)
    <3>1. B \div PAGE_SIZE \in Nat
      BY <1>1, DivMod, Zenon
    <3>2. (p + 1) * PAGE_SIZE <= B
      BY <1>1, <2>3, <3>1, PageBelow
    <3> QED
      BY <1>1, <3>2 DEF Overlaps
  <2>4. CASE ~(p < (E + PAGE_SIZE - 1) \div PAGE_SIZE)
    <3>1. (E + PAGE_SIZE - 1) \div PAGE_SIZE \in Nat
      <4>1. E + PAGE_SIZE - 1 \in Nat
        BY <1>1
      <4> QED
        BY <1>1, <4>1, DivMod, Zenon
    <3>2. E <= p * PAGE_SIZE
      BY <1>1, <2>1, <2>4, <3>1, PageAbove
    <3> QED
      BY <1>1, <3>2 DEF Overlaps
  <2> QED
    BY <2>2, <2>3, <2>4
<1>5. size \in Nat /\ k_phys_end(b) = K + size * PAGE_SIZE
  <2>1. k_size + PAGE_SIZE - 1 \in Nat
    BY <1>1
  <2>2. size \in Nat
    BY <1>1, <2>1, DivMod, Zenon
  <2>3. k_phys_end(b) = K + size * PAGE_SIZE
    BY Zenon DEF k_phys_end, k_size
  <2> QED BY <2>2, <2>3, Zenon
<1> HIDE DEF size
<1>6. ~Overlaps(p, K, K + size * PAGE_SIZE)
  <2> DEFINE k == K \div PAGE_SIZE
  <2>1. k \in Nat /\ K = PAGE_SIZE * k
    <3>1. k \in Nat /\ K = PAGE_SIZE * k + (K % PAGE_SIZE)
      BY <1>1, DivMod, Zenon
    <3>2. PAGE_SIZE * k \in Nat
      BY <1>1, <3>1
    <3> QED
      BY <1>1, <3>1, <3>2
  <2>2. size \in Nat
    BY <1>5, Zenon
  <2>3. (K + size * PAGE_SIZE) \div PAGE_SIZE = k + size
    <3>1. K + size * PAGE_SIZE = (k + size) * PAGE_SIZE
      BY <1>1, <2>1, <2>2
    <3>2. ((k + size) * PAGE_SIZE) \div PAGE_SIZE = k + size
      BY <1>1, <2>1, <2>2
    <3> QED
      BY <3>1, <3>2
  <2>4. ~(k <= p /\ p < k + size)
    BY <1>1, <1>5, <2>3 DEF KernelPages, Pages
  <2>5. CASE p < k
    <3>1. (p + 1) * PAGE_SIZE <= k * PAGE_SIZE
      BY <1>1, <2>1, <2>5, TimesMono
    <3> QED
      BY <1>1, <2>1, <3>1 DEF Overlaps
  <2>6. CASE p >= k + size
    <3>1. (k + size) * PAGE_SIZE <= p * PAGE_SIZE
      BY <1>1, <2>1, <2>2, <2>6, TimesMono
    <3>2. K + size * PAGE_SIZE <= p * PAGE_SIZE
      BY <1>1, <2>1, <2>2, <3>1
    <3> QED
      BY <1>1, <2>2, <3>2 DEF Overlaps
  <2> QED
    BY <1>1, <2>1, <2>2, <2>4, <2>5, <2>6
<1>7. ~Overlaps(p, K, K + b.bss_end)
  <2>1. ~Overlaps(p, K + size * PAGE_SIZE, K + b.bss_end)
    BY <1>5, RestOfImageReported, Zenon
  <2>2. size * PAGE_SIZE \in Nat
    BY <1>1, <1>5
  <2> QED BY <1>1, <1>6, <2>1, <2>2 DEF Overlaps
<1> QED
  BY <1>2, <1>3, <1>4, <1>7 DEF Allowed, B
-----------------------------------------------------------------------------
(* Every action preserves the inductive invariant. *)

\* pmm_install establishes the invariant.
LEMMA InstallInv ==
  ASSUME IInv, NEW b \in BootInfos, pmm_install(b)
  PROVE  IInv'
<1>1. /\ bitmap' \subseteq Page /\ Clear' = Page \ bitmap'
      /\ Clear' = Ram(b) \ (KernelPages(b) \cup BitmapPages(b) \cup LowPages)
      /\ free_pages' = Cardinality(Clear')
  BY InstallBits
<1>2. /\ boot = None /\ boot' = b /\ b # None /\ highest_page' = HighestPage(b)
      /\ total_ram_pages' = Cardinality(Ram(b))
      /\ used_pages' = Cardinality(Ram(b)) - free_pages'
      /\ UNCHANGED <<zeroing, held, dirty, written, dead>>
  BY PmmAssumption DEF pmm_install
<1>3. /\ HighestPage(b) \in Page /\ Ram(b) \subseteq Page /\ Clear' \subseteq Ram(b)
  BY <1>1, HighestOK DEF Ram, EntryPages, Pages
<1>4. /\ Cardinality(Ram(b)) \in Nat /\ Cardinality(Clear') \in Nat
      /\ Cardinality(Clear') <= Cardinality(Ram(b))
  <2>1. IsFiniteSet(Ram(b)) /\ IsFiniteSet(Clear')
    BY <1>3, PageFinite
  <2> QED
    BY <1>3, <2>1, FS_CardinalityType, FS_Subset
<1>5. TypeOK'
  <2>1. used_pages' \in Nat
    BY <1>1, <1>2, <1>4
  <2> QED
    BY <1>1, <1>2, <1>3, <1>4, <2>1, Zenon DEF IInv, TypeOK
<1>6. Accounting'
  <2>1. free_pages' = Cardinality(Clear')
    BY <1>1
  <2>2. free_pages' \in Nat
    BY <1>4, <2>1
  <2>3. used_pages' + free_pages' = total_ram_pages'
    BY <1>2, <1>4, <2>2
  <2> QED
    BY <2>1, <2>3 DEF Accounting
<1>7. \A c \in Clients : Given(c)' = {}
  BY <1>2 DEF IInv, Given
<1>8. Exclusive'
  <2>1. \A c \in Clients : zeroing'[c] \notin held'[c]
    BY <1>2 DEF IInv, Exclusive
  <2> QED
    BY <1>7, <2>1 DEF Exclusive
<1>9. ReservedStay'
  <2>1. \A p \in Clear' : Allowed(p, b)
    BY <1>1, RangesOK
  <2> QED
    BY <1>2, <1>7, <2>1 DEF ReservedStay, Allowed, InRam
<1>10. ContentsKept' /\ WrittenHeld'
  BY <1>2, Zenon DEF IInv, ContentsKept, WrittenHeld
<1> QED
  BY <1>2, <1>5, <1>6, <1>8, <1>9, <1>10 DEF IInv

\* What a step does to the frames given out, as far as the invariant goes.
LEMMA GivenType ==
  ASSUME IInv, NEW c \in Clients
  PROVE  /\ Given(c) \subseteq Page
         /\ zeroing[c] = None => Given(c) = held[c]
         /\ zeroing[c] # None => Given(c) = held[c] \cup {zeroing[c]}
                                 /\ zeroing[c] \in Page
  BY DEF IInv, TypeOK, Given

\* pmm_allocate, up to IRQ_RES, preserves the invariant.
LEMMA AllocateInv ==
  ASSUME IInv, NEW c \in Clients, pmm_allocate(c)
  PROVE  IInv'
<1>1. /\ boot # None /\ zeroing[c] = None
      /\ UNCHANGED <<highest_page, total_ram_pages, boot, held, dirty, written>>
  BY DEF pmm_allocate, Running
<1>0. ContentsKept' /\ WrittenHeld'
  BY <1>1, Zenon DEF IInv, ContentsKept, WrittenHeld
<1>2. CASE Clear = {}
  <2>1. UNCHANGED <<bitmap, used_pages, free_pages, zeroing>>
        /\ dead' = dead \cup {c}
    BY <1>2 DEF pmm_allocate
  <2> QED
    BY <1>0, <1>1, <2>1 DEF IInv, TypeOK, Accounting, Exclusive, ReservedStay, Given,
       Clear, Refused, Allowed, InRam
<1>3. CASE Clear # {}
  <2> DEFINE p == Lowest(Clear)
  <2>1. p \in Clear /\ Clear \subseteq Page
    <3>1. Clear \subseteq Page
      BY DEF Clear
    <3> QED
      BY <1>3, <3>1, LowestIn
  <2>2. /\ bitmap' = bitmap \cup {p} /\ used_pages' = used_pages + 1
        /\ free_pages' = free_pages - 1 /\ zeroing' = [zeroing EXCEPT ![c] = p]
        /\ dead' = dead
    BY <1>3 DEF pmm_allocate
  <2> HIDE DEF p
  <2>3. p \in Page /\ p <= highest_page /\ p \notin bitmap /\ p # None
    BY <2>1, PmmAssumption DEF Clear, Page
  <2>4. Clear' = Clear \ {p}
    BY <1>1, <2>2 DEF Clear
  <2>5. /\ Cardinality(Clear') = Cardinality(Clear) - 1 /\ Cardinality(Clear) \in Nat
        /\ Cardinality(Clear') \in Nat
    BY <2>1, <2>4, PageFinite, FS_RemoveElement, FS_CardinalityType
  <2>6. TypeOK'
    BY <1>1, <2>2, <2>3, <2>5 DEF IInv, TypeOK, Accounting
  <2>7. Accounting'
    BY <1>1, <2>2, <2>5 DEF IInv, TypeOK, Accounting
  <2>8. /\ zeroing'[c] = p /\ Given(c)' = Given(c) \cup {p}
        /\ \A d \in Clients \ {c} : zeroing'[d] = zeroing[d] /\ Given(d)' = Given(d)
    BY <1>1, <2>2, <2>3 DEF IInv, TypeOK, Given
  <2>9. Allowed(p, boot) /\ p # 0
    BY <1>1, <2>1, <2>3, PmmAssumption DEF IInv, ReservedStay, Allowed, Page
  <2>10. \A d \in Clients : p \notin Given(d)
    BY <2>3 DEF IInv, Exclusive, Refused
  <2>11. Exclusive'
    <3>1. \A d \in Clients : zeroing'[d] \notin held'[d]
      BY <1>1, <2>8, <2>10 DEF IInv, Exclusive, Given
    <3>2. \A x \in Page : x = p \/ ~Refused(x) => ~Refused(x)'
      BY <1>1, <2>2, <2>3, <2>9 DEF Refused, IInv, TypeOK, Page
    <3>3. \A d \in Clients : \A x \in Given(d)' : ~Refused(x)'
      BY <2>3, <2>8, <3>2, GivenType DEF IInv, Exclusive
    <3>4. \A d, e \in Clients : d # e => Given(d)' \cap Given(e)' = {}
      BY <2>8, <2>10 DEF IInv, Exclusive
    <3> QED
      BY <3>1, <3>3, <3>4 DEF Exclusive
  <2>12. ReservedStay'
    <3>1. /\ \A x \in Clear' : Allowed(x, boot)
          /\ \A d \in Clients : \A x \in Given(d)' : Allowed(x, boot)
      BY <1>1, <2>4, <2>8, <2>9 DEF IInv, ReservedStay
    <3> QED
      BY <1>1, <3>1 DEF ReservedStay, Allowed, InRam
  <2> QED
    BY <1>0, <1>1, <2>6, <2>7, <2>11, <2>12 DEF IInv
<1> QED
  BY <1>2, <1>3

\* The memset and the return of pmm_allocate preserve the invariant.
LEMMA ReturnsInv ==
  ASSUME IInv, NEW c \in Clients, pmm_allocate_returns(c)
  PROVE  IInv'
<1>1. /\ boot # None /\ zeroing[c] # None
      /\ dirty' = dirty \ {zeroing[c]}
      /\ held' = [held EXCEPT ![c] = held[c] \cup {zeroing[c]}]
      /\ zeroing' = [zeroing EXCEPT ![c] = None]
      /\ UNCHANGED <<bitmap, highest_page, used_pages, free_pages, total_ram_pages,
                     boot, written, dead>>
  BY DEF pmm_allocate_returns, Running
<1>2. /\ zeroing'[c] = None /\ Given(c)' = Given(c)
      /\ \A d \in Clients \ {c} : zeroing'[d] = zeroing[d] /\ held'[d] = held[d]
      /\ held'[c] \subseteq Page
  BY <1>1, GivenType DEF IInv, TypeOK, Given
<1>3. \A d \in Clients : Given(d)' = Given(d)
  BY <1>2 DEF Given
<1>4. Clear' = Clear /\ \A x \in Page : Refused(x)' <=> Refused(x)
  BY <1>1 DEF Clear, Refused
<1>5. TypeOK'
  BY <1>1, <1>2, GivenType DEF IInv, TypeOK
<1>6. Accounting'
  BY <1>1, <1>4 DEF IInv, Accounting
<1>7. Exclusive'
  <2>1. \A d \in Clients : zeroing'[d] \notin held'[d]
    BY <1>2, PmmAssumption DEF IInv, Exclusive, Page
  <2>2. \A d \in Clients : \A x \in Given(d)' : ~Refused(x)'
    BY <1>3, <1>4, GivenType DEF IInv, Exclusive
  <2> QED
    BY <1>3, <2>1, <2>2 DEF IInv, Exclusive
<1>8. ReservedStay'
  BY <1>1, <1>3, <1>4 DEF IInv, ReservedStay, Allowed, InRam
<1>9. ContentsKept'
  <2> DEFINE p == zeroing[c]
  <2>1. \A d \in Clients : p \notin held[d] /\ p \notin written[d]
    BY <1>1, GivenType DEF IInv, Exclusive, WrittenHeld, Given
  <2>2. \A d \in Clients : \A x \in held'[d] : x = p \/ x \in held[d]
    BY <1>1, <1>2 DEF IInv, TypeOK
  <2> HIDE DEF p
  <2>3. dirty' = dirty \ {p} /\ written' = written
    BY <1>1, Zenon DEF p
  <2> QED
    BY <2>1, <2>2, <2>3 DEF IInv, ContentsKept
<1>10. WrittenHeld'
  <2>1. \A d \in Clients : held[d] \subseteq held'[d]
    BY <1>1 DEF IInv, TypeOK
  <2> QED
    BY <1>1, <2>1, Zenon DEF IInv, WrittenHeld
<1> QED
  BY <1>1, <1>5, <1>6, <1>7, <1>8, <1>9, <1>10 DEF IInv

\* pmm_free preserves the invariant.
LEMMA FreeInv ==
  ASSUME IInv, NEW c \in Clients, NEW p \in Page, pmm_free(c, p)
  PROVE  IInv'
<1>1. /\ boot # None /\ p \in held[c] /\ p \in Given(c) /\ ~Refused(p)
  BY DEF pmm_free, Running, IInv, Exclusive, Given
<1>2. /\ bitmap' = bitmap \ {p} /\ used_pages' = used_pages - 1
      /\ free_pages' = free_pages + 1
      /\ held' = [held EXCEPT ![c] = held[c] \ {p}]
      /\ written' = [written EXCEPT ![c] = written[c] \ {p}]
      /\ UNCHANGED <<highest_page, total_ram_pages, boot, zeroing, dirty, dead>>
  BY <1>1 DEF pmm_free
<1>3. p \notin Clear /\ Clear' = Clear \cup {p} /\ Clear \subseteq Page
  BY <1>1, <1>2 DEF Clear, Refused, IInv, TypeOK, Page
<1>4. /\ held'[c] = held[c] \ {p} /\ Given(c)' = Given(c) \ {p}
      /\ \A d \in Clients \ {c} : held'[d] = held[d] /\ Given(d)' = Given(d)
  BY <1>1, <1>2 DEF IInv, TypeOK, Given, Exclusive
<1>5. Allowed(p, boot) /\ Clear' \subseteq Ram(boot)
  <2>1. Allowed(p, boot) /\ \A x \in Clear' : Allowed(x, boot)
    BY <1>1, <1>3 DEF IInv, ReservedStay
  <2>2. ASSUME NEW x \in Clear' PROVE x \in Ram(boot)
    <3>1. PICK e \in boot.memmap : /\ e.type \in {"usable", "reclaimable"}
                                   /\ e.base <= x * PAGE_SIZE
                                   /\ (x + 1) * PAGE_SIZE <= Top(e)
      BY <2>1 DEF Allowed, InRam
    <3>2. /\ x \in Page /\ x \in Nat /\ PAGE_SIZE \in Nat \ {0} /\ boot \in BootInfos
          /\ e.base \in Nat /\ e.length \in Nat /\ Top(e) \in Nat
      BY <1>1, <1>3, PmmAssumption DEF IInv, TypeOK, BootInfo, Entry, Top, Page
    <3>3. x <= HighestPage(boot)
      BY <1>1, <1>2 DEF Clear, IInv
    <3>4. /\ x >= (e.base + PAGE_SIZE - 1) \div PAGE_SIZE
          /\ x < Top(e) \div PAGE_SIZE
      <4>1. ~(x * PAGE_SIZE < e.base) /\ ~(Top(e) < (x + 1) * PAGE_SIZE)
        BY <3>1, <3>2
      <4> QED
        BY <3>2, <4>1, PageAbove, PageBelow
    <3>5. x \in EntryPages(e)
      BY <3>2, <3>4 DEF EntryPages, Pages
    <3> QED
      BY <3>1, <3>2, <3>3, <3>5, HighestOK DEF Ram, Page
  <2> QED
    BY <2>1, <2>2
<1>6. /\ Cardinality(Clear') = Cardinality(Clear) + 1 /\ Cardinality(Clear) \in Nat
      /\ Cardinality(Clear') <= Cardinality(Ram(boot))
  <2>1. IsFiniteSet(Clear) /\ IsFiniteSet(Ram(boot))
    <3>1. Ram(boot) \subseteq Page
      BY DEF Ram, EntryPages, Pages
    <3> QED
      BY <1>3, <3>1, PageFinite
  <2> QED
    BY <1>3, <1>5, <2>1, FS_AddElement, FS_CardinalityType, FS_Subset
<1>7. used_pages' \in Nat /\ free_pages' \in Nat
  BY <1>1, <1>2, <1>6 DEF IInv, TypeOK, Accounting
<1>8. TypeOK'
  BY <1>2, <1>4, <1>7 DEF IInv, TypeOK
<1>9. Accounting'
  BY <1>1, <1>2, <1>6, <1>7 DEF IInv, TypeOK, Accounting
<1>10. Exclusive'
  <2>1. \A d \in Clients : zeroing'[d] \notin held'[d]
    BY <1>2, <1>4 DEF IInv, Exclusive
  <2>2. \A d \in Clients : p \notin Given(d)'
    BY <1>1, <1>4 DEF IInv, Exclusive
  <2>3. \A x \in Page \ {p} : ~Refused(x) => ~Refused(x)'
    BY <1>2 DEF Refused
  <2>4. \A d \in Clients : \A x \in Given(d)' : ~Refused(x)'
    BY <1>4, <2>2, <2>3, GivenType DEF IInv, Exclusive
  <2>5. \A d, e \in Clients : d # e => Given(d)' \cap Given(e)' = {}
    BY <1>4 DEF IInv, Exclusive
  <2> QED
    BY <2>1, <2>4, <2>5 DEF Exclusive
<1>11. ReservedStay'
  <2>1. /\ \A x \in Clear' : Allowed(x, boot)
        /\ \A d \in Clients : \A x \in Given(d)' : Allowed(x, boot)
    BY <1>1, <1>3, <1>4, <1>5 DEF IInv, ReservedStay
  <2> QED
    BY <1>2, <2>1 DEF ReservedStay, Allowed, InRam
<1>12. ContentsKept' /\ WrittenHeld'
  <2>0. held \in [Clients -> SUBSET Page] /\ written \in [Clients -> SUBSET Page]
    BY Zenon DEF IInv, TypeOK
  <2>1. /\ written'[c] = written[c] \ {p}
        /\ \A d \in Clients \ {c} : written'[d] = written[d]
    BY <1>2, <2>0, Zenon
  <2>2. dirty' = dirty
    BY <1>2
  <2>3. ContentsKept /\ WrittenHeld
    BY Zenon DEF IInv
  <2>4. ASSUME NEW d \in Clients
        PROVE  written'[d] \subseteq held'[d] /\ \A x \in held'[d] : x \in dirty <=> x \in written'[d]
    <3>1. CASE d = c
      BY <1>4, <2>1, <2>3, <3>1, Zenon DEF ContentsKept, WrittenHeld
    <3>2. CASE d # c
      <4>1. held'[d] = held[d] /\ written'[d] = written[d]
        BY <1>4, <2>1, <3>2, Zenon
      <4> QED BY <2>3, <4>1, Zenon DEF ContentsKept, WrittenHeld
    <3> QED BY <3>1, <3>2
  <2> QED
    BY <2>2, <2>4, Zenon DEF ContentsKept, WrittenHeld
<1> QED
  BY <1>1, <1>2, <1>8, <1>9, <1>10, <1>11, <1>12 DEF IInv

\* A step that leaves the allocator alone preserves the invariant.
LEMMA UntouchedInv ==
  ASSUME IInv, UNCHANGED <<bitmap, highest_page, used_pages, free_pages,
                           total_ram_pages, boot, zeroing, held>>,
         dirty' \subseteq Page, written' \in [Clients -> SUBSET Page],
         dead' \subseteq Clients, ContentsKept', WrittenHeld'
  PROVE  IInv'
<1>1. Clear' = Clear /\ \A c \in Clients : Given(c)' = Given(c)
  BY Zenon DEF Clear, Given
<1>2. Accounting' /\ Exclusive'
  BY <1>1, Zenon DEF IInv, Accounting, Exclusive, Refused
<1>3. ReservedStay'
  BY <1>1, Zenon DEF IInv, ReservedStay
<1> QED
  BY <1>1, <1>2, <1>3, Zenon DEF IInv, TypeOK

\* A client that writes to a frame preserves the invariant.
LEMMA WritesInv ==
  ASSUME IInv, NEW c \in Clients, NEW p \in Page, ClientWrites(c, p)
  PROVE  IInv'
<1>1. /\ p \in held[c] /\ dirty' = dirty \cup {p}
      /\ written' = [written EXCEPT ![c] = written[c] \cup {p}]
      /\ UNCHANGED <<bitmap, highest_page, used_pages, free_pages, total_ram_pages,
                     boot, zeroing, held, dead>>
  BY DEF ClientWrites
<1>2. \A d \in Clients : written'[d] = IF d = c THEN written[c] \cup {p} ELSE written[d]
  BY <1>1 DEF IInv, TypeOK
<1>3. \A d \in Clients \ {c} : p \notin held[d]
  BY <1>1 DEF IInv, Exclusive, Given
<1>4. ContentsKept' /\ WrittenHeld'
  BY <1>1, <1>2, <1>3 DEF IInv, ContentsKept, WrittenHeld
<1>5. /\ dirty' \subseteq Page /\ written' \in [Clients -> SUBSET Page]
      /\ dead' \subseteq Clients
  BY <1>1 DEF IInv, TypeOK
<1> QED
  BY <1>1, <1>4, <1>5, UntouchedInv, Zenon
-----------------------------------------------------------------------------
\* Before pmm_install nothing is given out.
LEMMA InitInv == Init => IInv
  BY PmmAssumption
     DEF Init, IInv, TypeOK, Accounting, Exclusive, ReservedStay, ContentsKept,
         WrittenHeld, Given, Page, Clients

\* Every step of every client preserves the inductive invariant.
LEMMA NextInv == IInv /\ [Next]_vars => IInv'
<1> SUFFICES ASSUME IInv, [Next]_vars PROVE IInv'
  OBVIOUS
<1>1. ASSUME NEW b \in BootInfos, pmm_install(b) PROVE IInv'
  BY <1>1, InstallInv
<1>2. ASSUME NEW c \in Clients, pmm_allocate(c) PROVE IInv'
  BY <1>2, AllocateInv
<1>3. ASSUME NEW c \in Clients, pmm_allocate_returns(c) PROVE IInv'
  BY <1>3, ReturnsInv
<1>4. ASSUME NEW c \in Clients, NEW p \in Page, pmm_free(c, p) PROVE IInv'
  BY <1>4, FreeInv
<1>5. ASSUME NEW c \in Clients, NEW p \in Page, ClientWrites(c, p) PROVE IInv'
  BY <1>5, WritesInv
<1>6. CASE UNCHANGED <<bitmap, highest_page, used_pages, free_pages, total_ram_pages,
                       boot, zeroing, held, dirty, written>> /\ dead' \subseteq Clients
  <2>1. /\ dirty' \subseteq Page /\ written' \in [Clients -> SUBSET Page]
        /\ ContentsKept' /\ WrittenHeld'
    BY <1>6, Zenon DEF IInv, TypeOK, ContentsKept, WrittenHeld
  <2> QED
    BY <1>6, <2>1, UntouchedInv
<1>7. ASSUME NEW c \in Clients, Exits(c) PROVE IInv'
  <2>1. dead' \subseteq Clients
    BY <1>7 DEF Exits, IInv, TypeOK
  <2> QED
    BY <1>6, <1>7, <2>1 DEF Exits
<1>8. CASE UNCHANGED vars
  BY <1>6, <1>8 DEF vars, IInv, TypeOK
<1> QED
  BY <1>1, <1>2, <1>3, <1>4, <1>5, <1>7, <1>8 DEF Next

\* The inductive invariant holds in every reachable state.
THEOREM Invariance == Spec => []IInv
  BY InitInv, NextInv, PTL DEF Spec

\* Type correctness: no counter of the allocator ever wraps.
THEOREM TypeCorrect == Spec => []TypeOK
<1>1. IInv => TypeOK
  BY DEF IInv
<1> QED
  BY <1>1, Invariance, PTL

\* free_pages counts the clear bits and used_pages the rest of RAM, always.
THEOREM CountersAgree == Spec => []Accounting
<1>1. IInv => Accounting
  BY DEF IInv
<1> QED
  BY <1>1, Invariance, PTL

\* No frame has two owners, and pmm_free never refuses an owner.
THEOREM FramesExclusive == Spec => []Exclusive
<1>1. IInv => Exclusive
  BY DEF IInv
<1> QED
  BY <1>1, Invariance, PTL

\* The kernel image, the bitmap, low memory and what is not RAM are never given
\* out; the end of the image, which the code does not reserve, because the boot
\* loader does not report it as RAM (RestOfImageReported).
THEOREM ReservedNeverGiven == Spec => []ReservedStay
<1>1. IInv => ReservedStay
  BY DEF IInv
<1> QED
  BY <1>1, Invariance, PTL

\* A client finds in its frames zeros or what it wrote (pmm_allocate's memset).
THEOREM FramesKeepContents == Spec => []ContentsKept
<1>1. IInv => ContentsKept
  BY DEF IInv
<1> QED
  BY <1>1, Invariance, PTL
=============================================================================
