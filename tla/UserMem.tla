------------------------------- MODULE UserMem ------------------------------
(***************************************************************************)
(* The memory of user processes: process_spawn_elf and process_reap in     *)
(* kernel/system/process.c, syscall_mmap and syscall_unmap in syscall.c,   *)
(* vmm_pagefault in vmm.c.  It composes the page allocator (a set of free  *)
(* frames, lowest first, as module Pmm has it) with the address spaces (a  *)
(* flat map for each process, which is what module Vmm implements).        *)
(*                                                                         *)
(* All of this runs with interrupts off, so a handler is one step.  A      *)
(* panic inside one ends the process where the handler stands.             *)
(***************************************************************************)
EXTENDS Integers, FiniteSets

CONSTANTS
  Users,
  MaxFrame,       \* RAM frames 1 .. MaxFrame
  HighestPage,    \* highest_page of the page allocator
  HeapStart,      \* pages below hold the ELF image
  StackBase, StackTop,
  MaxPage,        \* bound on the pages of an address space
  MaxPages        \* bound on the pages of one mmap or munmap

\* The framebuffer lies above the RAM, and so does what is behind it.
ASSUME UserMemAssumption ==
  /\ MaxFrame \in Nat /\ HighestPage \in Nat /\ MaxPages \in Nat
  /\ HeapStart \in Nat /\ StackBase \in Nat /\ StackTop \in Nat /\ MaxPage \in Nat
  /\ MaxFrame <= HighestPage
  /\ 0 < HeapStart /\ HeapStart < StackBase /\ StackBase < StackTop /\ StackTop <= MaxPage
  /\ IsFiniteSet(Users)

Page == 0 .. MaxPage - 1
Stack == StackBase .. StackTop - 1
Ram == 1 .. MaxFrame
\* The frames that a mapping of the framebuffer reaches: it ends where the length
\* the program asks for ends, not where the framebuffer does.
DeviceFrames == MaxFrame + 1 .. MaxFrame + MaxPages
Frame == Ram \cup DeviceFrames

VARIABLES
  free,     \* frames whose bit in the bitmap is clear
  map,      \* map[u][v]: the frame at page v of process u, 0 if none
  nx,       \* the mapped pages of the heap that a process cannot execute
  pos,      \* user_heap_position
  state,    \* "none", "live", "dead", "reaped"
  executed  \* history: the pages of nx[u] that u has tried to execute

vars == <<free, map, nx, pos, state, executed>>

Lowest(S) == CHOOSE f \in S : \A g \in S : f <= g

\* A handler in progress: the parts of the state it changes, for one process.
Now(u) == [free |-> free, map |-> map[u], nx |-> nx[u], pos |-> pos[u],
           executed |-> executed[u], panic |-> "none"]

\* vmm_map_page: what was mapped at page v is replaced, and nothing is freed.
vmm_map_page(w, v, f, nox) ==
  [w EXCEPT !.map[v] = f, !.nx = IF nox THEN @ \cup {v} ELSE @ \ {v}]

\* pmm_allocate, then vmm_map_page at page v.
MapFresh(w, v, nox) ==
  IF w.panic # "none" THEN w
  ELSE IF w.free = {} THEN [w EXCEPT !.panic = "out of memory"]
  ELSE [vmm_map_page(w, v, Lowest(w.free), nox) EXCEPT !.free = @ \ {Lowest(w.free)}]

\* The handler ends with w: the process goes on, or a panic has ended it.
Finish(u, w) ==
  /\ free' = w.free
  /\ map' = [map EXCEPT ![u] = w.map]
  /\ nx' = [nx EXCEPT ![u] = w.nx]
  /\ pos' = [pos EXCEPT ![u] = w.pos]
  /\ executed' = [executed EXCEPT ![u] = w.executed]
  /\ state' = [state EXCEPT ![u] = IF w.panic = "none" THEN "live" ELSE "dead"]

-----------------------------------------------------------------------------
(***************************************************************************)
(* process_spawn_elf: the segments, a first heap page (user_heap_position  *)
(* stays at user_heap_start) and the whole stack are mapped.  It runs in a *)
(* kernel process: a panic would halt the machine, so there is no step     *)
(* without enough frames.  The flags of the segments matter to nothing     *)
(* here: a fault in the image ends the process whatever its reason.        *)
(***************************************************************************)
SpawnPage(w, v) == IF v <= HeapStart \/ v \in Stack THEN MapFresh(w, v, FALSE) ELSE w

process_spawn_elf(u) ==
  LET m[i \in 0 .. StackTop] ==
        IF i = 0 THEN [Now(u) EXCEPT !.pos = HeapStart] ELSE SpawnPage(m[i - 1], i - 1)
  IN /\ state[u] = "none"
     /\ m[StackTop].panic = "none"
     /\ Finish(u, m[StackTop])

\* Bound: the heap ends with the address space.
HasRoom(u, n) == pos[u] + n <= MaxPage

\* Mutant: user_heap_position is advanced by one page, whatever the length.
MmapAnonymousOnePage(u, n) ==
  LET m[i \in 0 .. n] == IF i = 0 THEN Now(u) ELSE MapFresh(m[i - 1], pos[u] + i - 1, TRUE)
      w == IF m[n].panic # "none" THEN m[n] ELSE [m[n] EXCEPT !.pos = @ + 1]
  IN state[u] = "live" /\ HasRoom(u, n) /\ Finish(u, w)

\* syscall_mmap without a file: n fresh pages, each at the heap position.  The
\* position may have reached the stack, whose pages are then replaced too.
MmapPage(w) ==
  LET x == MapFresh(w, w.pos, TRUE)
  IN  IF x.panic # "none" THEN x ELSE [x EXCEPT !.pos = @ + 1]

MmapAnonymous(u, n) ==
  LET m[i \in 0 .. n] == IF i = 0 THEN Now(u) ELSE MmapPage(m[i - 1])
  IN /\ state[u] = "live" /\ HasRoom(u, n)
     /\ Finish(u, m[n])

\* syscall_mmap of the framebuffer: n frames from its first on, however many it has.
DevicePage(w, f) == [vmm_map_page(w, w.pos, f, FALSE) EXCEPT !.pos = @ + 1]

MmapDevice(u, n) ==
  LET m[i \in 0 .. n] == IF i = 0 THEN Now(u) ELSE DevicePage(m[i - 1], MaxFrame + i)
  IN /\ state[u] = "live" /\ HasRoom(u, n)
     /\ Finish(u, m[n])

\* Mutant: the page stays mapped.
UnmapOneKeepsMapping(w, v) ==
  IF w.panic # "none" THEN w
  ELSE IF w.map[v] = 0 THEN [w EXCEPT !.panic = "assertion"]
  ELSE IF w.map[v] > HighestPage THEN [w EXCEPT !.panic = "out of bounds"]
  ELSE IF w.map[v] \in w.free THEN [w EXCEPT !.panic = "already free"]
  ELSE [w EXCEPT !.free = @ \cup {w.map[v]}]

\* One page of syscall_unmap: pmm_free, then vmm_unmap_page.  A frame of the
\* framebuffer goes to pmm_free like any other.
UnmapOne(w, v) ==
  IF w.panic # "none" THEN w
  ELSE IF w.map[v] = 0 THEN [w EXCEPT !.panic = "assertion"]
  ELSE IF w.map[v] > HighestPage THEN [w EXCEPT !.panic = "out of bounds"]
  ELSE IF w.map[v] \in w.free THEN [w EXCEPT !.panic = "already free"]
  ELSE [w EXCEPT !.free = @ \cup {w.map[v]}, !.map[v] = 0, !.nx = @ \ {v}]

\* syscall_unmap; a range below the heap or beyond its position panics.
syscall_unmap(u, a, n) ==
  LET m[i \in 0 .. n] == IF i = 0 THEN Now(u) ELSE UnmapOne(m[i - 1], a + i - 1)
  IN /\ state[u] = "live"
     /\ Finish(u, IF a < HeapStart \/ a + n > pos[u]
                  THEN [Now(u) EXCEPT !.panic = "WTF"] ELSE m[n])

\* The processor faults on a page that is not present, on an instruction fetched
\* from a page that is not executable, and in the image as its segments say.
Faults(u, v) == map[u][v] = 0 \/ v \in nx[u] \/ v < HeapStart

\* Mutant: the heap position is not moved over the new page.
vmm_pagefaultKeepsPosition(u, v) ==
  /\ state[u] = "live" /\ Faults(u, v)
  /\ Finish(u, IF (v >= HeapStart /\ v <= pos[u]) \/ v \in Stack
               THEN MapFresh(Now(u), v, FALSE) ELSE [Now(u) EXCEPT !.panic = "fault"])

(***************************************************************************)
(* vmm_pagefault: in the heap, one page beyond it, or in the stack a fresh *)
(* page is mapped, whatever the reason of the fault: the error code is not *)
(* looked at.  Elsewhere the process exits.                                *)
(***************************************************************************)
HeapFault(u, v) ==
  LET w == MapFresh(Now(u), v, FALSE)
  IN  IF w.panic # "none" THEN w
      ELSE [w EXCEPT !.pos = IF v >= @ THEN v + 1 ELSE @,
                     !.executed = IF map[u][v] # 0 THEN @ \cup {v} ELSE @]

vmm_pagefault(u, v) ==
  /\ state[u] = "live" /\ Faults(u, v)
  /\ Finish(u, IF v >= HeapStart /\ v <= pos[u] THEN HeapFault(u, v)
               ELSE IF v \in Stack THEN MapFresh(Now(u), v, FALSE)
               ELSE [Now(u) EXCEPT !.panic = "fault"])

process_exit(u) ==
  /\ state[u] = "live"
  /\ state' = [state EXCEPT ![u] = "dead"]
  /\ UNCHANGED <<free, map, nx, pos, executed>>

\* process_reap: the stack and the heap are unmapped; no frame is freed.
process_reap(u) ==
  LET gone == Stack \cup {v \in Page : v >= HeapStart /\ v < pos[u]}
  IN /\ state[u] = "dead"
     /\ state' = [state EXCEPT ![u] = "reaped"]
     /\ map' = [map EXCEPT ![u] = [v \in Page |-> IF v \in gone THEN 0 ELSE @[v]]]
     /\ nx' = [nx EXCEPT ![u] = @ \ gone]
     /\ UNCHANGED <<free, pos, executed>>

Init ==
  /\ free = Ram
  /\ map = [u \in Users |-> [v \in Page |-> 0]]
  /\ nx = [u \in Users |-> {}]
  /\ pos = [u \in Users |-> 0]
  /\ state = [u \in Users |-> "none"]
  /\ executed = [u \in Users |-> {}]

Next ==
  \E u \in Users :
    \/ process_spawn_elf(u)
    \/ \E n \in 1 .. MaxPages : MmapAnonymous(u, n)
    \/ \E n \in 1 .. MaxPages : MmapDevice(u, n)
    \/ \E a \in Page, n \in 1 .. MaxPages : a + n <= MaxPage /\ syscall_unmap(u, a, n)
    \/ \E v \in Page : vmm_pagefault(u, v)
    \/ process_exit(u)
    \/ process_reap(u)

Spec == Init /\ [][Next]_vars

-----------------------------------------------------------------------------
(* Properties. *)

Panics == {"none", "out of memory", "assertion", "out of bounds", "already free", "WTF", "fault"}

TypeOK ==
  /\ free \subseteq Frame
  /\ map \in [Users -> [Page -> Frame \cup {0}]]
  /\ nx \in [Users -> SUBSET Page]
  /\ pos \in [Users -> 0 .. MaxPage]
  /\ state \in [Users -> {"none", "live", "dead", "reaped"}]
  /\ executed \in [Users -> SUBSET Page]

Mapped(u, f) == {v \in Page : map[u][v] = f}

(***************************************************************************)
(* The memory of processes is apart: a frame of RAM that one process can   *)
(* reach is not free, is not reached by another process, and appears once; *)
(* whatever the order of spawns, mmaps, munmaps, faults, exits and reaps,  *)
(* and although syscall_unmap gives frames of the framebuffer to the page  *)
(* allocator.  (Those are then handed out as memory: they are not apart.)  *)
(***************************************************************************)
Apart ==
  \A u \in Users, f \in Ram : Mapped(u, f) # {} =>
    /\ f \notin free
    /\ Cardinality(Mapped(u, f)) = 1
    /\ \A t \in Users \ {u} : Mapped(t, f) = {}

(***************************************************************************)
(* Heap bookkeeping: above the heap position nothing is mapped but the     *)
(* stack and the page that process_spawn_elf mapped in advance, so that    *)
(* what mmap puts there replaces nothing else.                             *)
(***************************************************************************)
NothingAbovePosition ==
  \A u \in Users, v \in Page :
    v > HeapStart /\ v >= pos[u] /\ v \notin Stack => map[u][v] = 0

\* Of the stack and the heap process_reap leaves one page at most, whichever pages
\* the program had already unmapped: the first of the heap, and it stays exactly
\* when the heap position never moved (process.c 207-223).
ReapUnmaps ==
  \A u \in Users : state[u] = "reaped" =>
    {v \in Page : v >= HeapStart /\ map[u][v] # 0} = IF pos[u] = HeapStart THEN {HeapStart} ELSE {}

\* The heap position tells what is mapped: all of the heap lies below it, so that
\* walking up to it at the end misses the page of process_spawn_elf at most.
HeapTracked == TypeOK /\ NothingAbovePosition /\ ReapUnmaps

(***************************************************************************)
(* Until a process is reaped, a frame that is neither free nor mapped is   *)
(* lost.  Frames are lost in two ways only, and every page once in each:   *)
(* syscall_mmap replaces the first heap page or a page of the stack, and   *)
(* vmm_pagefault replaces a page that the process tried to execute.        *)
(***************************************************************************)
Lost == {f \in Ram \ free : \A u \in Users : Mapped(u, f) = {}}

\* Pairs of a process and a page.
Replaced == {q \in Users \X ({HeapStart} \cup Stack) : q[2] < pos[q[1]]}
Executed == {q \in Users \X Page : q[2] \in executed[q[1]]}

LossBounded ==
  (\A u \in Users : state[u] # "reaped") =>
    Cardinality(Lost) <= Cardinality(Replaced) + Cardinality(Executed)

-----------------------------------------------------------------------------
(* What the proofs rest on. *)

\* Nothing is mapped before a process is spawned; afterwards the first heap page is
\* there until the position has moved.  A page that cannot be executed lies below
\* the position, so mmap never makes it so again, and it is executed once at most.
IInv ==
  /\ HeapTracked
  /\ \A u \in Users : state[u] = "none" =>
       pos[u] = 0 /\ nx[u] = {} /\ executed[u] = {} /\ \A v \in Page : map[u][v] = 0
  /\ \A u \in Users : state[u] # "none" =>
       pos[u] >= HeapStart /\ (pos[u] = HeapStart => map[u][HeapStart] # 0)
  /\ \A u \in Users, v \in Page :
       /\ v \in nx[u] \cup executed[u] => v < pos[u]
       /\ ~(v \in nx[u] /\ v \in executed[u])

\* The bound, with what its counting needs.
LossTracked ==
  (\A u \in Users : state[u] # "reaped") =>
    IsFiniteSet(Lost) /\ Cardinality(Lost) <= Cardinality(Replaced) + Cardinality(Executed)

\* Apart, one page at a time.
KeptApart ==
  \A u \in Users, v \in Page : map[u][v] \in Ram =>
    /\ map[u][v] \notin free
    /\ \A t \in Users, x \in Page : map[t][x] = map[u][v] => t = u /\ x = v
=============================================================================
