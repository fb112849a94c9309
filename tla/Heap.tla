-------------------------------- MODULE Heap --------------------------------
(***************************************************************************)
(* The kernel heap, kernel/system/heap.c: first fit over a singly linked   *)
(* list of free blocks kept in address order inside the free memory.       *)
(*                                                                         *)
(* Addresses and sizes count units of HEAP_ALIGNMENT bytes from heap_start *)
(* (every block is a multiple of it): the header and MIN_ALLOC_SIZE are    *)
(* one unit each.                                                          *)
(*                                                                         *)
(* Code that runs with interrupts off (system calls, kernel processes)     *)
(* goes through kmalloc and kfree in one step.  kmain runs with interrupts *)
(* on: its kmalloc reads heap_head, takes the lock and works in separate   *)
(* steps.                                                                  *)
(***************************************************************************)
EXTENDS Integers

CONSTANTS
  HEAP_ALIGNMENT,        \* bytes per unit
  PageUnits,             \* PAGE_SIZE / HEAP_ALIGNMENT
  KERNEL_INITIAL_PAGES,
  ExpandPages,           \* pages kmalloc adds when nothing fits (16)
  Frames,                \* frames pmm_allocate has to give
  Sizes,                 \* request sizes in bytes
  Procs,                 \* contexts that run with interrupts off
  Main,                  \* kmain
  Preempted              \* can kmain lose the CPU inside kmalloc?

ASSUME HeapAssumption ==
  /\ HEAP_ALIGNMENT \in Nat \ {0} /\ PageUnits \in Nat \ {0} /\ Frames \in Nat
  /\ KERNEL_INITIAL_PAGES \in 1 .. Frames /\ ExpandPages \in Nat \ {0}
  /\ Sizes \subseteq Nat \ {0} /\ Main \notin Procs /\ Preempted \in BOOLEAN

NULL == -1
Units == Frames * PageUnits
Unit == 0 .. Units - 1
Ptr  == Unit \cup {NULL}
Junk == [size |-> 0, next |-> NULL]   \* a unit of memory in no header, zeroed by its user

heap_block_t == [size : Nat, next : Ptr]
Heap_t == [head : Ptr, heap_size : Nat, frames : Nat, mem : [Unit -> heap_block_t]]

VARIABLES
  heap,    \* heap_head, heap_size, the headers in memory, frames left
  lock,    \* who holds heap_lock, NULL if nobody
  main,    \* where kmain is in kmalloc, and the curr it has read
  dead,    \* contexts ended by panic; all stops when kmain is among them
  hung,    \* somebody spins on heap_lock with interrupts off
  owned    \* blocks handed out and not freed

vars == <<heap, lock, main, dead, hung, owned>>

Kmain == [at : {"out", "read", "locked"}, sz : Sizes \cup {0}, curr : Ptr]
Outside == [at |-> "out", sz |-> 0, curr |-> NULL]   \* kmain is not in kmalloc

ALIGN_UP_HEAP(sz) == (sz + HEAP_ALIGNMENT - 1) \div HEAP_ALIGNMENT

-----------------------------------------------------------------------------
(* The free list. *)

\* A loop: n rounds from s.  A round changes nothing once the loop has ended.
Loop(n, s, round) ==
  LET w[i \in 0 .. n] == IF i = 0 THEN s ELSE round[w[i - 1]] IN w[n]

Walk == [prev : Ptr, curr : Ptr]

Onward(h, w) == [prev |-> w.curr, curr |-> h.mem[w.curr].next]

\* A walk over the list visits a unit once at most, unless it never ends.
Fits(h, w, total) == w.curr = NULL \/ h.mem[w.curr].size >= total

FitRound(h, total) == [w \in Walk |-> IF Fits(h, w, total) THEN w ELSE Onward(h, w)]

FirstFit(h, curr, total) == Loop(Units, [prev |-> NULL, curr |-> curr], FitRound(h, total))

\* The list's link to the block after prev: heap_head, or prev->next.
Relink(h, prev, to) ==
  IF prev = NULL THEN [h EXCEPT !.head = to] ELSE [h EXCEPT !.mem[prev].next = to]

\* Mutant: a block that is one unit too large is split into a lost remainder.
TakeLosesUnit(h, prev, curr, total) ==
  LET b    == h.mem[curr]
      rest == curr + total
  IN IF b.size > total + 1
     THEN Relink([h EXCEPT !.mem[rest] = [size |-> b.size - total, next |-> b.next],
                           !.mem[curr].size = total], prev, rest)
     ELSE Relink([h EXCEPT !.mem[curr].size = total], prev, b.next)

\* The first total units of block curr leave the list; the rest stays in it.
Take(h, prev, curr, total) ==
  LET b    == h.mem[curr]
      rest == curr + total
  IN IF b.size >= total + 1
     THEN Relink([h EXCEPT !.mem[rest] = [size |-> b.size - total, next |-> b.next],
                           !.mem[curr].size = total], prev, rest)
     ELSE Relink(h, prev, b.next)

\* The last free block below address a.
Below(w, a) == w.curr # NULL /\ w.curr < a

BelowRound(h, a) == [w \in Walk |-> IF Below(w, a) THEN Onward(h, w) ELSE w]

LastBelow(h, a) == Loop(Units, [prev |-> NULL, curr |-> h.head], BelowRound(h, a)).prev

\* Mutant: the gap between prev and the block is merged as well.
MergePrevAcrossGap(h, prev, a) ==
  IF prev # NULL
  THEN [h EXCEPT !.mem[prev] = [size |-> a + h.mem[a].size - prev,
                                next |-> h.mem[a].next]]
  ELSE h

\* A block is merged with the free block after it, and with the one before.
MergeNext(h, a) ==
  LET b == h.mem[a]
  IN IF b.next # NULL /\ a + b.size = b.next
     THEN [h EXCEPT !.mem[a] = [size |-> b.size + h.mem[b.next].size,
                                next |-> h.mem[b.next].next]]
     ELSE h

MergePrev(h, prev, a) ==
  IF prev # NULL /\ prev + h.mem[prev].size = a
  THEN [h EXCEPT !.mem[prev] = [size |-> h.mem[prev].size + h.mem[a].size,
                                next |-> h.mem[a].next]]
  ELSE h

\* A block is put into the list and merged with its neighbours.
Insert(h, a, size) ==
  LET prev == LastBelow(h, a)
      nx   == IF prev = NULL THEN h.head ELSE h.mem[prev].next
      h1   == Relink([h EXCEPT !.mem[a] = [size |-> size, next |-> nx]], prev, a)
  IN MergePrev(MergeNext(h1, a), prev, a)

heap_expand_pages(h, pages) ==
  [Insert(h, h.heap_size, pages * PageUnits)
     EXCEPT !.heap_size = @ + pages * PageUnits, !.frames = @ - pages]

\* kmalloc from try_again on: block NULL when pmm_allocate panics.  Every round
\* but the last expands the heap; done stays FALSE when a walk never ends.
Try == [heap : Heap_t, curr : Ptr, block : Ptr, done : BOOLEAN]

TryRound(total) ==
  [s \in Try |->
     LET h == s.heap
         f == FirstFit(h, s.curr, total)
         x == heap_expand_pages(h, ExpandPages)
     IN IF s.done \/ ~Fits(h, f, total) THEN s
        ELSE IF f.curr # NULL
        THEN [s EXCEPT !.heap = Take(h, f.prev, f.curr, total), !.block = f.curr, !.done = TRUE]
        ELSE IF h.frames < ExpandPages
        THEN [s EXCEPT !.heap.frames = 0, !.done = TRUE]
        ELSE [s EXCEPT !.heap = x, !.curr = x.head]]

Search(h, curr, total) ==
  Loop(Frames + 1, [heap |-> h, curr |-> curr, block |-> NULL, done |-> FALSE], TryRound(total))

-----------------------------------------------------------------------------
(* The operations. *)

header_sz == ALIGN_UP_HEAP(8)
Total(sz) == ALIGN_UP_HEAP(sz) + header_sz
Contexts  == Procs \cup {Main}

\* kmain is not inside kmalloc, or the timer took the CPU from it there.
CanRun(c) ==
  /\ heap.heap_size > 0 /\ ~hung /\ c \notin dead /\ Main \notin dead
  /\ main.at = "out" \/ (Preempted /\ c # Main)

\* The memory behind the header now belongs to the caller.
Hand(h, a) ==
  [h EXCEPT !.mem = [u \in Unit |-> IF u > a /\ u < a + h.mem[a].size THEN Junk ELSE @[u]]]

heap_install ==
  /\ heap.heap_size = 0
  /\ heap' = heap_expand_pages(heap, KERNEL_INITIAL_PAGES)
  /\ UNCHANGED <<lock, main, dead, hung, owned>>

\* The rest of kmalloc, lock held by c, walking from curr.  A panic of a
\* process ends it where it is: heap_lock stays taken.
Work(c, sz, curr) ==
  LET r == Search(heap, curr, Total(sz))
  IN \/ /\ r.done /\ r.block # NULL
        /\ heap' = Hand(r.heap, r.block)
        /\ owned' = owned \cup {[start |-> r.block, size |-> r.heap.mem[r.block].size,
                                 payload |-> ALIGN_UP_HEAP(sz)]}
        /\ lock' = NULL /\ dead' = dead
     \/ /\ r.done /\ r.block = NULL
        /\ heap' = r.heap
        /\ owned' = owned
        /\ lock' = c /\ dead' = dead \cup {c}

kmalloc(c, sz) ==
  /\ c \in Procs /\ CanRun(c) /\ lock = NULL
  /\ Work(c, sz, heap.head)
  /\ UNCHANGED <<main, hung>>

\* kmain: curr = heap_head, then spin_lock, then the walk.
kmalloc_reads(sz) ==
  /\ CanRun(Main)
  /\ main' = [at |-> "read", sz |-> sz, curr |-> heap.head]
  /\ UNCHANGED <<heap, lock, dead, hung, owned>>

kmalloc_locks ==
  /\ main.at = "read" /\ ~hung /\ lock = NULL
  /\ lock' = Main
  /\ main' = [main EXCEPT !.at = "locked"]
  /\ UNCHANGED <<heap, dead, hung, owned>>

kmalloc_works ==
  /\ main.at = "locked" /\ ~hung
  /\ Work(Main, main.sz, main.curr)
  /\ main' = Outside
  /\ UNCHANGED hung

\* The checks of kfree on the header (in the heap, large enough, aligned) hold
\* for every owned block by Tiling and HeadersIntact.
kfree(c, x) ==
  /\ CanRun(c) /\ lock = NULL
  /\ x \in owned
  /\ heap' = Insert(heap, x.start, heap.mem[x.start].size)
  /\ owned' = owned \ {x}
  /\ UNCHANGED <<lock, main, dead, hung>>

\* spin_lock finds the lock taken and interrupts are off: it spins for good.
Spins(c) ==
  /\ c \in Procs /\ CanRun(c) /\ lock # NULL
  /\ hung' = TRUE
  /\ UNCHANGED <<heap, lock, main, dead, owned>>

Init ==
  /\ heap = [head |-> NULL, heap_size |-> 0, frames |-> Frames,
             mem |-> [u \in Unit |-> Junk]]
  /\ lock = NULL /\ main = Outside /\ dead = {} /\ hung = FALSE /\ owned = {}

Next ==
  \/ heap_install
  \/ \E c \in Procs, sz \in Sizes : kmalloc(c, sz)
  \/ \E sz \in Sizes : kmalloc_reads(sz)
  \/ kmalloc_locks
  \/ kmalloc_works
  \/ \E c \in Contexts : \E x \in owned : kfree(c, x)
  \/ \E c \in Procs : Spins(c)

Spec == Init /\ [][Next]_vars

-----------------------------------------------------------------------------
(* Properties. *)

TypeOK ==
  /\ heap \in Heap_t /\ heap.heap_size + heap.frames * PageUnits <= Units
  /\ lock \in Contexts \cup {NULL} /\ dead \subseteq Contexts /\ hung \in BOOLEAN
  /\ main \in Kmain

\* The free blocks, reached from heap_head (at most one per unit).
ReachRound == [S \in SUBSET Unit |-> S \cup ({heap.mem[a].next : a \in S} \ {NULL})]
Reached == Loop(Units, {heap.head} \ {NULL}, ReachRound)

FreeBlocks == {[start |-> a, size |-> heap.mem[a].size] : a \in Reached}

Covers(x, u) == x.start <= u /\ u < x.start + x.size

\* No unit of the heap is lost or given twice, however kmalloc splits and
\* kfree and heap_expand_pages merge: each lies in exactly one free block or
\* in exactly one block that is owned, and nothing lies outside the heap.
Tiling ==
  LET all == {<<"free", x>> : x \in FreeBlocks} \cup {<<"owned", x>> : x \in owned}
  IN \A u \in Unit : IF u < heap.heap_size
                      THEN \E b \in all : \A c \in all : Covers(c[2], u) <=> c = b
                      ELSE \A b \in all : ~Covers(b[2], u)

\* The free list ascends and two neighbours in it never touch: freed memory is
\* merged at once, whatever the order in which blocks are freed.
Coalesced ==
  \A x \in FreeBlocks : LET nx == heap.mem[x.start].next
                        IN nx = NULL \/ x.start + x.size < nx

\* The size header that kfree will trust is the one kmalloc wrote: no other
\* split, merge or caller has touched it.
HeadersIntact == \A x \in owned : heap.mem[x.start].size = x.size

\* Whoever spins on heap_lock with interrupts off waits for a process that a
\* panic ended inside the lock, never for one that just left it taken.
SpinsBehindADead == hung => Preempted \/ lock \in dead

\* The free list and the blocks handed out make up the heap, in order and
\* without a gap, headers included, after any sequence of kmalloc and kfree in
\* any order of the callers; and heap_lock is lost to a panic only.
Inv == TypeOK /\ Tiling /\ Coalesced /\ HeadersIntact /\ SpinsBehindADead

\* The free-list allocator implements the abstract heap.
Abs == INSTANCE HeapAbs WITH limit <- heap.heap_size
Implements == Abs!AbsSpec

\* The heap hands out no memory twice: what kmalloc is for.
OwnedDisjoint == \A x, y \in owned : x # y => Abs!Disjoint(x, y)

-----------------------------------------------------------------------------
(***************************************************************************)
(* What the proofs rest on.  F and U are the addresses of the free and of  *)
(* the used blocks.  The list runs through F in ascending order, free      *)
(* blocks do not touch, and F and U together tile the heap.                *)
(***************************************************************************)
SizesOf(h) == [u \in Unit |-> h.mem[u].size]
NextsOf(h) == [u \in Unit |-> h.mem[u].next]

Listed(hd, nx, F) ==
  /\ F \subseteq Unit
  /\ IF hd = NULL THEN F = {} ELSE hd \in F /\ \A g \in F : hd <= g
  /\ \A a \in F : IF nx[a] = NULL THEN \A g \in F : g <= a
                  ELSE nx[a] \in F /\ a < nx[a] /\ \A g \in F : g <= a \/ nx[a] <= g

Sparse(sz, F) == \A a, b \in F : a < b => a + sz[a] < b

Tiles(sz, T, limit) ==
  /\ T \subseteq Unit
  /\ \A a \in T : sz[a] > 0 /\ a + sz[a] <= limit
  /\ \A a, b \in T : a < b => a + sz[a] <= b
  /\ \A u \in Unit : u < limit => \E a \in T : a <= u /\ u < a + sz[a]

Parted(h, F, U) ==
  /\ Listed(h.head, NextsOf(h), F) /\ Sparse(SizesOf(h), F)
  /\ F \cap U = {} /\ Tiles(SizesOf(h), F \cup U, h.heap_size)

Ordered(h, U) == \E F \in SUBSET Unit : Parted(h, F, U)

\* The blocks in O are the used ones, with the sizes in their headers.
Starts(O) == {x.start : x \in O}

Used(h, O) ==
  /\ O \subseteq [start : Unit, size : Nat, payload : Nat]
  /\ \A x \in O : h.mem[x.start].size = x.size
  /\ \A x, y \in O : x.start = y.start => x = y

Sound(h, O) == Ordered(h, Starts(O)) /\ Used(h, O)

\* kmain, inside kmalloc, has read the head that is still there; a lock that
\* kmain does not hold is one that a panic has left.
IInv ==
  /\ TypeOK /\ Sound(heap, owned)
  /\ heap.heap_size = 0 => heap.frames = Frames
  /\ main.at # "out" => main.curr = heap.head /\ heap.heap_size > 0 /\ main.sz \in Sizes
  /\ main.at = "locked" => lock = Main
  /\ main.at # "locked" /\ lock # NULL => lock \in dead
  /\ hung => lock \in dead
=============================================================================
