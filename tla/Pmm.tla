-------------------------------- MODULE Pmm ---------------------------------
(***************************************************************************)
(* The physical page allocator, kernel/system/pmm.c: a bitmap with one bit *)
(* per page frame, built from the boot loader's memory map, and counters   *)
(* beside it.  Its clients are the kernel itself and user processes on     *)
(* whose behalf system calls and page faults allocate frames.              *)
(*                                                                         *)
(* IRQ_OFF makes the critical sections atomic on the single CPU; the       *)
(* memset of pmm_allocate comes after IRQ_RES and is a step of its own.    *)
(* pmm_free is only called with interrupts off (system calls and           *)
(* process_reap), so its checks and its update are one step.               *)
(***************************************************************************)
EXTENDS Integers, FiniteSets

CONSTANTS
  PAGE_SIZE,
  PMM_BITMAP_SIZE,  \* bytes of the bitmap
  PagesBelow1mb,    \* 0x100000 / PAGE_SIZE
  BootInfos,        \* what the boot loader may report
  Users,            \* user processes that own frames
  Kernel,           \* the kernel as a client
  None

(***************************************************************************)
(* A memory map is a set of entries with addresses in bytes.  The boot     *)
(* loader puts the kernel's first section, which link.ld places at         *)
(* virtual_base, at physical_base.  _text_begin, _bss_end and the bitmap,  *)
(* which is in bss, are given by their distance from virtual_base: there   *)
(* are .limine_requests and a gap in front of _text_begin.                 *)
(***************************************************************************)
Entry == [base : Nat, length : Nat,
          type : {"usable", "reclaimable", "reserved"}]

BootInfo == [memmap : SUBSET Entry, physical_base : Nat, text_begin : Nat,
             bss_end : Nat, bitmap_begin : Nat]

ASSUME PmmAssumption ==
  /\ PAGE_SIZE \in Nat \ {0}
  /\ PMM_BITMAP_SIZE \in Nat \ {0}
  /\ PagesBelow1mb \in Nat \ {0}
  /\ BootInfos \subseteq BootInfo
  /\ \A b \in BootInfos : \E t \in b.memmap :
       /\ t.base + t.length > 0
       /\ \A e \in b.memmap : e.base + e.length <= t.base + t.length
  /\ \A b \in BootInfos : b.physical_base % PAGE_SIZE = 0 /\ b.text_begin <= b.bss_end
  /\ Kernel \notin Users
  /\ None \notin Nat \cup BootInfos

Clients == Users \cup {Kernel}
Page == 0 .. 8 * PMM_BITMAP_SIZE - 1

VARIABLES
  bitmap,           \* the pages whose bit is set
  highest_page,
  used_pages, free_pages, total_ram_pages,
  boot,             \* the memory map, None before pmm_install
  zeroing,          \* the page a client's pmm_allocate is about to memset
  held,             \* the pages returned to each client and not freed
  dirty,            \* pages that may hold something other than zeros
  written,          \* history: the pages a client holds and has written to
  dead              \* clients ended by a panic or an exit

vars == <<bitmap, highest_page, used_pages, free_pages, total_ram_pages, boot,
          zeroing, held, dirty, written, dead>>

-----------------------------------------------------------------------------
Pages(first, end) == {p \in Page : first <= p /\ p < end}

Top(e) == e.base + e.length

\* The highest page of the map, or the last one the bitmap has a bit for.
HighestPage(b) ==
  LET top == CHOOSE t \in {Top(e) : e \in b.memmap} :
               \A e \in b.memmap : Top(e) <= t
      h == (top - 1) \div PAGE_SIZE
  IN IF h >= 8 * PMM_BITMAP_SIZE THEN 8 * PMM_BITMAP_SIZE - 1 ELSE h

\* The whole pages inside an entry.
EntryPages(e) ==
  Pages((e.base + PAGE_SIZE - 1) \div PAGE_SIZE, Top(e) \div PAGE_SIZE)

Ram(b) ==
  {p \in 0 .. HighestPage(b) :
     \E e \in b.memmap : e.type \in {"usable", "reclaimable"} /\ p \in EntryPages(e)}

\* The size is counted from _text_begin, but added to where virtual_base lies.
k_phys_end(b) ==
  LET k_size == b.bss_end - b.text_begin
  IN b.physical_base + ((k_size + PAGE_SIZE - 1) \div PAGE_SIZE) * PAGE_SIZE

\* Mutant: the size of the kernel image is not rounded up.
KernelPagesRoundDown(b) ==
  Pages(b.physical_base \div PAGE_SIZE,
        (b.physical_base + b.bss_end - b.text_begin) \div PAGE_SIZE)

KernelPages(b) == Pages(b.physical_base \div PAGE_SIZE, k_phys_end(b) \div PAGE_SIZE)

bitmap_phys_start(b) == b.bitmap_begin + b.physical_base

BitmapPages(b) ==
  Pages(bitmap_phys_start(b) \div PAGE_SIZE,
        (bitmap_phys_start(b) + PMM_BITMAP_SIZE + PAGE_SIZE - 1) \div PAGE_SIZE)

LowPages == Pages(0, PagesBelow1mb)

Overlaps(p, start, end) == p * PAGE_SIZE < end /\ start < (p + 1) * PAGE_SIZE

(***************************************************************************)
(* KernelPages ends too early by what lies in front of _text_begin.  That  *)
(* the rest of the image is not given out is up to the boot loader, which  *)
(* reports the image as LIMINE_MEMMAP_EXECUTABLE_AND_MODULES: its pages    *)
(* behind k_phys_end are not RAM to pmm_install, or they hold the bitmap.  *)
(***************************************************************************)
ASSUME RestOfImageReported ==
  \A b \in BootInfos : \A p \in Ram(b) \ BitmapPages(b) :
    ~Overlaps(p, k_phys_end(b), b.physical_base + b.bss_end)

\* Mutant: a reserved page is counted although its bit was set already.
ReserveCountsAll(s, range) ==
  [bits |-> s.bits \cup range, free |-> s.free - Cardinality(range)]

\* One of the three loops that take a range of pages out of use.
Reserve(s, range) ==
  [bits |-> s.bits \cup range, free |-> s.free - Cardinality(range \ s.bits)]

pmm_install(b) ==
  LET Upto(range) == {p \in range : p <= HighestPage(b)}
      s0 == [bits |-> Page \ Ram(b), free |-> Cardinality(Ram(b))]
      s1 == Reserve(s0, Upto(KernelPages(b)))
      s2 == Reserve(s1, Upto(BitmapPages(b)))
      s3 == Reserve(s2, Upto(LowPages))
  IN /\ boot = None
     /\ boot' = b
     /\ highest_page' = HighestPage(b)
     /\ total_ram_pages' = Cardinality(Ram(b))
     /\ bitmap' = s3.bits
     /\ free_pages' = s3.free
     /\ used_pages' = Cardinality(Ram(b)) - s3.free
     /\ UNCHANGED <<zeroing, held, dirty, written, dead>>

-----------------------------------------------------------------------------
\* panic() halts in the kernel's own processes and ends a user process.
Running(c) == boot # None /\ c \notin dead /\ Kernel \notin dead

Clear == {p \in Page : p <= highest_page /\ p \notin bitmap}

Lowest(S) == CHOOSE p \in S : \A q \in S : p <= q

\* Mutant: the bit is not set.
pmm_allocateNoSet(c) ==
  /\ Running(c) /\ zeroing[c] = None /\ Clear # {}
  /\ zeroing' = [zeroing EXCEPT ![c] = Lowest(Clear)]
  /\ UNCHANGED <<bitmap, used_pages, free_pages, dead>>
  /\ UNCHANGED <<highest_page, total_ram_pages, boot, held, dirty, written>>

\* pmm_allocate up to IRQ_RES.
pmm_allocate(c) ==
  /\ Running(c) /\ zeroing[c] = None
  /\ IF Clear = {}
     THEN /\ dead' = dead \cup {c}
          /\ UNCHANGED <<bitmap, used_pages, free_pages, zeroing>>
     ELSE /\ bitmap' = bitmap \cup {Lowest(Clear)}
          /\ used_pages' = used_pages + 1
          /\ free_pages' = free_pages - 1
          /\ zeroing' = [zeroing EXCEPT ![c] = Lowest(Clear)]
          /\ UNCHANGED dead
  /\ UNCHANGED <<highest_page, total_ram_pages, boot, held, dirty, written>>

\* Its memset and return.
pmm_allocate_returns(c) ==
  /\ Running(c) /\ zeroing[c] # None
  /\ dirty' = dirty \ {zeroing[c]}
  /\ held' = [held EXCEPT ![c] = @ \cup {zeroing[c]}]
  /\ zeroing' = [zeroing EXCEPT ![c] = None]
  /\ UNCHANGED <<bitmap, highest_page, used_pages, free_pages, total_ram_pages,
                 boot, written, dead>>

\* Whether pmm_free refuses a page: NULL, out of bounds, or already free.
Refused(p) == p = 0 \/ p > highest_page \/ p \notin bitmap

\* pmm_free of a frame by a client that got it from pmm_allocate.
pmm_free(c, p) ==
  /\ Running(c) /\ p \in held[c]
  /\ IF Refused(p)
     THEN /\ dead' = dead \cup {c}
          /\ UNCHANGED <<bitmap, used_pages, free_pages, held, written>>
     ELSE /\ bitmap' = bitmap \ {p}
          /\ used_pages' = used_pages - 1
          /\ free_pages' = free_pages + 1
          /\ held' = [held EXCEPT ![c] = @ \ {p}]
          /\ written' = [written EXCEPT ![c] = @ \ {p}]
          /\ UNCHANGED dead
  /\ UNCHANGED <<highest_page, total_ram_pages, boot, zeroing, dirty>>

ClientWrites(c, p) ==
  /\ Running(c) /\ p \in held[c]
  /\ dirty' = dirty \cup {p}
  /\ written' = [written EXCEPT ![c] = @ \cup {p}]
  /\ UNCHANGED <<bitmap, highest_page, used_pages, free_pages, total_ram_pages,
                 boot, zeroing, held, dead>>

\* A user process ends; process_reap unmaps its frames and frees none of them.
Exits(c) ==
  /\ Running(c) /\ c # Kernel
  /\ dead' = dead \cup {c}
  /\ UNCHANGED <<bitmap, highest_page, used_pages, free_pages, total_ram_pages,
                 boot, zeroing, held, dirty, written>>

Init ==
  /\ bitmap = {} /\ highest_page = 0
  /\ used_pages = 0 /\ free_pages = 0 /\ total_ram_pages = 0
  /\ boot = None
  /\ zeroing = [c \in Clients |-> None]
  /\ held = [c \in Clients |-> {}]
  /\ written = [c \in Clients |-> {}]
  /\ dirty = Page
  /\ dead = {}

Next ==
  \/ \E b \in BootInfos : pmm_install(b)
  \/ \E c \in Clients :
       \/ pmm_allocate(c)
       \/ pmm_allocate_returns(c)
       \/ \E p \in Page : pmm_free(c, p)
       \/ \E p \in Page : ClientWrites(c, p)
       \/ Exits(c)

Spec == Init /\ [][Next]_vars

-----------------------------------------------------------------------------
(* Properties. *)

\* Type correctness; no counter wraps below zero.
TypeOK ==
  /\ bitmap \subseteq Page
  /\ highest_page \in Page
  /\ used_pages \in Nat /\ free_pages \in Nat /\ total_ram_pages \in Nat
  /\ boot \in BootInfos \cup {None}
  /\ zeroing \in [Clients -> Page \cup {None}]
  /\ held \in [Clients -> SUBSET Page]
  /\ written \in [Clients -> SUBSET Page]
  /\ dirty \subseteq Page
  /\ dead \subseteq Clients

(***************************************************************************)
(* The counters agree with the bitmap after every allocation and free, and *)
(* whatever overlaps, holes and excess the memory map and the reserved     *)
(* ranges of pmm_install have.                                             *)
(***************************************************************************)
Accounting ==
  boot # None => /\ free_pages = Cardinality(Clear)
                 /\ used_pages + free_pages = total_ram_pages

Given(c) == held[c] \cup (IF zeroing[c] = None THEN {} ELSE {zeroing[c]})

(***************************************************************************)
(* A frame handed to one client is handed to no other and its bit is set,  *)
(* so pmm_free by its owner trips none of the panics in pmm_free (193-209).*)
(***************************************************************************)
Exclusive ==
  \A c \in Clients :
    /\ zeroing[c] \notin held[c]
    /\ \A p \in Given(c) : ~Refused(p)
    /\ \A d \in Clients \ {c} : Given(c) \cap Given(d) = {}

(***************************************************************************)
(* Frames that are handed out, or free to be, lie in RAM (usable or        *)
(* reclaimable in the memory map) and share no byte with the kernel image, *)
(* from .limine_requests to the end of bss, with the bitmap or with the    *)
(* first megabyte, after any number of frees; the end of the image only    *)
(* because of RestOfImageReported.                                         *)
(***************************************************************************)
InRam(p, b) ==
  \E e \in b.memmap : /\ e.type \in {"usable", "reclaimable"}
                      /\ e.base <= p * PAGE_SIZE
                      /\ (p + 1) * PAGE_SIZE <= Top(e)

Allowed(p, b) ==
  /\ InRam(p, b)
  /\ ~Overlaps(p, b.physical_base, b.physical_base + b.bss_end)
  /\ ~Overlaps(p, bitmap_phys_start(b), bitmap_phys_start(b) + PMM_BITMAP_SIZE)
  /\ p >= PagesBelow1mb

ReservedStay ==
  boot # None =>
    /\ \A p \in Clear : Allowed(p, boot)
    /\ \A c \in Clients : \A p \in Given(c) : Allowed(p, boot)

(***************************************************************************)
(* What a client finds in its frames is what it wrote there, or zeros: the *)
(* memset of pmm_allocate, which is outside the lock and may come long     *)
(* after the bit was set, never clears a frame another client has written  *)
(* to, no other client's data shows up in a frame, and data that a former  *)
(* owner left behind is gone.                                              *)
(***************************************************************************)
ContentsKept ==
  \A c \in Clients : \A p \in held[c] : p \in dirty <=> p \in written[c]
-----------------------------------------------------------------------------
(***************************************************************************)
(* The inductive invariant: no frame is given out before pmm_install,      *)
(* total_ram_pages counts the pages of RAM, which bounds the others, and a *)
(* client writes only to frames it holds.                                  *)
(***************************************************************************)
WrittenHeld == \A c \in Clients : written[c] \subseteq held[c]

IInv ==
  /\ TypeOK
  /\ Accounting
  /\ Exclusive
  /\ ReservedStay
  /\ ContentsKept
  /\ WrittenHeld
  /\ boot = None => \A c \in Clients : Given(c) = {}
  /\ boot # None => /\ highest_page = HighestPage(boot)
                    /\ total_ram_pages = Cardinality(Ram(boot))
=============================================================================
